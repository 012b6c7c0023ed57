------------------------------- MODULE RedisProto -------------------------------
(***************************************************************************)
(* The parser of requests (src/src/redisproto.cpp).                        *)
(*                                                                         *)
(* It looks at the bytes received so far and says that a request is        *)
(* complete, that bytes are missing, or that they are none.  Bytes are     *)
(* named: "CR", "LF", digits, signs and letters.  Where it looks at the    *)
(* byte behind the last one received, that byte, stale, is whatever the    *)
(* buffer holds there.                                                     *)
(***************************************************************************)
EXTENDS Integers, Sequences, SequencesExt

Error == -1
Again == -2

\* The token that a parse leaves as it was.
Unset == <<"unset">>

CRLF   == <<"CR", "LF">>
Digits == <<"0", "1", "2", "3", "4", "5", "6", "7", "8", "9">>
Digit(n)    == Digits[n + 1]
ValueOf(b)  == CHOOSE n \in 0..9 : Digit(n) = b

NumberOf(text) ==
  LET step(n, b) ==
        CASE b \in Range(Digits) -> [n EXCEPT !.value = @ * 10 + ValueOf(b)]
          [] b = "minus"         -> [n EXCEPT !.sign = -1]
          [] b = "plus"          -> [n EXCEPT !.sign = 1]
      n == FoldLeft(step, [sign |-> 1, value |-> 0], text)
  IN n.sign * n.value

\* The place of the first CR from p on, one behind the bytes without one.
EndOfText(s, p) == CHOOSE i \in p..Len(s) + 1 :
                     /\ i = Len(s) + 1 \/ s[i] = "CR"
                     /\ \A j \in p..i - 1 : s[j] # "CR"

\* The place behind a line whose CR is at i; the LF may not have been received.
BehindLine(s, i, stale) ==
  IF i > Len(s) THEN Again
  ELSE IF (IF i < Len(s) THEN s[i + 1] ELSE stale) = "LF" THEN i + 2 ELSE Error

NumberLine(s, p, stale) ==
  LET i == EndOfText(s, p)
      text == SubSeq(s, p, i - 1)
  IN IF Range(text) \subseteq Range(Digits) \cup {"minus", "plus"}
     THEN [next |-> BehindLine(s, i, stale), num |-> NumberOf(text)]
     ELSE [next |-> Error, num |-> 0]

\* A text of n bytes from p on, and its CR LF.
TextLine(s, p, n) ==
  LET left == Len(s) + 1 - p - n
  IN CASE left <= 0 -> Again
       [] left = 1  -> IF s[p + n] = "CR" THEN Again ELSE Error
       [] left >= 2 -> IF SubSeq(s, p + n, p + n + 1) = CRLF THEN p + n + 2 ELSE Error

\* A bulk from p on.  If the bytes end behind the length of an empty one, it counts
\* as complete and its token is left as it was.
Bulk(s, p, stale) ==
  LET n == NumberLine(s, p + 1, stale)
  IN CASE s[p] # "$"  -> [next |-> Error, token |-> Unset]
       [] s[p] = "$" /\ p = Len(s) -> [next |-> Again, token |-> Unset]
       [] s[p] = "$" /\ p < Len(s) ->
            CASE n.next < 0           -> [next |-> n.next, token |-> Unset]
              [] n.next = Len(s) + 1  -> [next |-> IF n.num <= 0 THEN n.next ELSE Again, token |-> Unset]
              [] n.next \notin {Error, Again, Len(s) + 1} ->
                   LET end == TextLine(s, n.next, n.num)
                   IN [next |-> end,
                       token |-> IF end < 0 THEN Unset ELSE SubSeq(s, n.next, n.next + n.num - 1)]

\* How often the loop may go round: towards a negative count it goes on as long as
\* there are bytes.
Rounds(s, argc) == IF argc < 0 THEN Len(s) ELSE argc

\* Beyond 1024 tokens, MaxToken, the code writes past their array; not modelled.
MultiBulk(s, stale) ==
  LET argc == NumberLine(s, 2, stale)
      step(r, i) ==
        IF r.next < 0 \/ r.next > Len(s) THEN r
        ELSE LET b == Bulk(s, r.next, stale)
             IN [next |-> b.next, tokens |-> Append(r.tokens, b.token)]
      r == FoldLeft(step, [next |-> argc.next, tokens |-> <<>>], [i \in 1..Rounds(s, argc.num) |-> i])
  IN CASE Len(s) = 1 -> [next |-> Again, tokens |-> <<>>]
       [] Len(s) > 1 /\ r.next < 0 -> [next |-> r.next, tokens |-> <<>>]
       [] Len(s) > 1 /\ r.next >= 0 ->
            IF Len(r.tokens) = argc.num THEN r ELSE [next |-> Again, tokens |-> <<>>]

\* "+" and "-".
Line(s, stale) ==
  LET i == EndOfText(s, 2)
  IN IF Len(s) = 1 THEN [next |-> Again, tokens |-> <<>>]
     ELSE [next |-> IF i = 2 THEN Error ELSE BehindLine(s, i, stale),
           tokens |-> <<SubSeq(s, 2, i - 1)>>]

Integer(s, stale) ==
  [next |-> IF Len(s) = 1 THEN Again ELSE NumberLine(s, 2, stale).next, tokens |-> <<Unset>>]

\* The first request in s: the place behind it, and its tokens.
Parse(s, stale) ==
  CASE s[1] = "*" -> MultiBulk(s, stale)
    [] s[1] = "$" -> LET b == Bulk(s, 1, stale) IN [next |-> b.next, tokens |-> <<b.token>>]
    [] s[1] \in {"plus", "minus"} -> Line(s, stale)
    [] s[1] = "colon" -> Integer(s, stale)
    [] OTHER -> [next |-> Error, tokens |-> <<>>]

-----------------------------------------------------------------------------
(* What clients send *)

Encoded(token) == <<"$", Digit(Len(token))>> \o CRLF \o token \o CRLF

Request(tokens) ==
  <<"*", Digit(Len(tokens))>> \o CRLF \o FoldLeft(LAMBDA s, t : s \o Encoded(t), <<>>, tokens)

Stream(script) == FoldLeft(LAMBDA s, r : s \o Request(r), <<>>, script)

=============================================================================
