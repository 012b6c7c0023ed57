------------------------------ MODULE StringBytes ------------------------------
(***************************************************************************)
(* What the string commands do with bytes (src/src/cmdhandler.cpp): what   *)
(* APPEND and SETRANGE make of a value, and what the commands that only    *)
(* read send of it.  When they do so is Strings' matter.                   *)
(***************************************************************************)
EXTENDS Strings, SequencesExt

CONSTANTS
  Letters,       \* bytes
  Nul,           \* the byte that ends a C string
  Missing,       \* no record of the key
  MaxBytes       \* bound: the length of the values and of what clients send

ASSUME ByteAssumption ==
  /\ Nul \notin Letters
  /\ MaxBytes \in Nat
  /\ Missing \notin Seq(Letters \cup {Nul})

Nuls(n) == [i \in 1..n |-> Nul]

\* What is left of a text that is handed on as a C string.
CString(s) ==
  IF \E i \in DOMAIN s : s[i] = Nul
  THEN SubSeq(s, 1, (CHOOSE i \in DOMAIN s : s[i] = Nul /\ \A j \in 1..i - 1 : s[j] # Nul) - 1)
  ELSE s

\* LeveldbCluster::value leaves the string empty when there is no record.
Read(v) == IF v = Missing THEN <<>> ELSE v

-----------------------------------------------------------------------------
(* Commands that write *)

AppendTo(v, s) == Read(v) \o s

\* std::string::replace takes the text as a C string; a key that is not there gets a
\* NUL more than the offset says.
SetRange(v, offset, s) ==
  CASE v = Missing      -> Nuls(offset + 1) \o s
    [] v # Missing /\ offset >= Len(v) -> v \o Nuls(offset - Len(v)) \o s
    [] v # Missing /\ offset < Len(v)  ->
         SubSeq(v, 1, offset) \o CString(s) \o SubSeq(v, offset + Len(s) + 1, Len(v))

-----------------------------------------------------------------------------
(* Commands that read: a bulk string announces its length *)

Whole(s)   == [announced |-> Len(s), sent |-> s]
Printed(s) == [announced |-> Len(s), sent |-> CString(s)]
NoBulk     == [announced |-> -1, sent |-> <<>>]

Get(v)    == IF v = Missing THEN NoBulk ELSE Whole(v)
MGet(vs)  == [i \in DOMAIN vs |-> IF vs[i] = Missing THEN NoBulk ELSE Printed(vs[i])]
Exists(v) == IF v = Missing THEN 0 ELSE 1
StrLen(v) == Len(Read(v))

\* transformStringIndex.
FromLast(i, size) == IF i >= 0 THEN i ELSE IF size - 1 + i < 0 THEN 0 ELSE size - 1 + i
FromEnd(i, size)  == IF i >= 0 THEN i ELSE IF size + i < 0 THEN 0 ELSE size + i
AtMost(i, last)    == IF i > last THEN last ELSE i
TransformIndex(i, size) == AtMost(FromEnd(i, size), size - 1)

GetRange(v, i, j) ==
  LET s     == Read(v)
      start == TransformIndex(i, Len(s))
      stop  == TransformIndex(j, Len(s))
  IN IF start < 0 \/ stop < 0 \/ stop < start THEN Whole(<<>>)
     ELSE Whole(SubSeq(s, start + 1, stop + 1))

-----------------------------------------------------------------------------
(* Property *)

Bytes == Letters \cup {Nul}
Texts == BoundedSeq(Bytes, MaxBytes)
Clean == BoundedSeq(Letters, MaxBytes)

\* The byte at place i of a value written over with s from the offset on.
Written(v, offset, s) ==
  [i \in 1..(IF Len(v) > offset + Len(s) THEN Len(v) ELSE offset + Len(s)) |->
     IF i \in offset + 1..offset + Len(s) THEN s[i - offset]
     ELSE IF i <= Len(v) THEN v[i] ELSE Nul]

\* The places a range names, counted from the front or from the end.
Named(v, i, j) ==
  LET Place(k) == 1 + (IF k < 0 THEN Len(v) + k ELSE k)
  IN {p \in DOMAIN v : Place(i) <= p /\ p <= Place(j)}

\* The bytes at those places, in their order.
Ranged(v, i, j) ==
  LET ps == Named(v, i, j)
      Nth(k) == CHOOSE p \in ps : Cardinality({q \in ps : q <= p}) = k
  IN [k \in 1..Cardinality(ps) |-> v[Nth(k)]]

\* Clients that store and read texts at offsets find the bytes where they have put
\* them: SETRANGE writes those of its range and no others, GETRANGE reads those its
\* places name, counted from the front or the end, STRLEN and the bulk replies count
\* what is there.  Where it is otherwise: a NUL cuts a text in the middle of a value,
\* a key that is not there gets one NUL too many, a range that begins behind the end
\* gives the last byte and one that ends before the beginning the first, and MGET
\* announces more than it sends of a value with a NUL.  This is asked once, before the
\* first command: it is about all values, not about those in the store.
BytesAgree ==
  ops = 0 =>
    /\ \A v \in Texts, s \in Clean, offset \in 0..MaxBytes + 1 :
         /\ SetRange(v, offset, s) = Written(v, offset, s)
         /\ Len(s) > 0 => GetRange(SetRange(v, offset, s), offset, offset + Len(s) - 1) = Whole(s)
         /\ SetRange(Missing, offset, s) = Written(<<>>, offset + 1, s)
    /\ \A v \in Texts \cup {Missing}, s \in Texts :
         /\ GetRange(AppendTo(v, s), StrLen(v), -1) = Whole(s) \/ s = <<>>
         /\ StrLen(AppendTo(v, s)) = StrLen(v) + Len(s)
    /\ \A v \in Texts, i, j \in -MaxBytes - 2..MaxBytes + 2 :
         i < Len(v) /\ j >= -Len(v) => GetRange(v, i, j) = Whole(Ranged(v, i, j))
    /\ \A v, w \in Texts \cup {Missing} :
         LET r == MGet(<<v, w>>)
         IN /\ (r[1] = Get(v)) <=> (v = Missing \/ v \in Clean)
            /\ (r[2] = Get(w)) <=> (w = Missing \/ w \in Clean)
            /\ (Exists(v) = 1) <=> (r[1] # NoBulk)

=============================================================================
