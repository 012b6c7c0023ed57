---------------------------- MODULE RedisCollections ----------------------------
(***************************************************************************)
(* What a command on hashes, sets or sorted sets is to do to the records,  *)
(* in one step and in terms of sets: what Redis defines for it.            *)
(***************************************************************************)
EXTENDS SortedSets

CONSTANTS
  Names,         \* of hashes, sets, sorted sets
  Text,          \* a value that is no number
  Blank          \* the empty value

\* The record of a member of a set.
Itself(f) == IF f = 0 THEN Blank ELSE Text

\* A value of a hash, a member of a set, a score.
Value == Int \cup {Text, Blank}

OfKind(k) ==
  {NoValue} \cup CASE k = "hash" -> Value
                   [] k = "set"  -> {Text, Blank}
                   [] k = "zset" -> Int

Request ==
  [op : {"hmset", "hsetnx", "hincrby", "hdel", "hclear", "srem", "spop", "smove",
         "union", "inter", "diff", "zincrby", "by_rank", "by_score", "flushdb"},
   name : Names, fields : Seq(Fields), values : Seq(Value),
   from : Seq(Names), low : Int, high : Int]

Plain(op, n) == [op |-> op, name |-> n, fields |-> <<>>, values |-> <<>>,
                 from |-> <<>>, low |-> 0, high |-> 0]

SetAssumption ==
  /\ Fields \subseteq Nat /\ IsFiniteSet(Fields)
  /\ IsFiniteSet(Names) /\ Names # {}
  /\ Width \in [Fields -> Nat]
  /\ NoValue \notin Value
  /\ Text \notin Int /\ Blank \notin Int /\ Text # Blank

OnNames(c) ==
  IF c.op = "flushdb" THEN Names ELSE {c.name} \cup Range(c.from)

\* The records a command reads or writes.
Touched(c) == OnNames(c) \X (IF c.fields = <<>> THEN Fields ELSE Range(c.fields))

\* The later of two values for one field wins.
Written(c, h) ==
  [f \in Fields |->
     IF f \notin Range(c.fields) THEN h[f]
     ELSE c.values[CHOOSE i \in DOMAIN c.fields :
                     c.fields[i] = f /\ \A j \in i + 1..Len(c.fields) : c.fields[j] # f]]

Without(h, fs)  == [f \in Fields |-> IF f \in fs THEN NoValue ELSE h[f]]
SetOf(fs)       == [f \in Fields |-> IF f \in fs THEN Itself(f) ELSE NoValue]
Sources(c, s)   == [i \in DOMAIN c.from |-> s[c.from[i]]]

\* What the name of a command may hold after it.
After(c, s) ==
  LET h == s[c.name]
      f == c.fields[1]
      old == h[f]
  IN CASE c.op = "hmset"    -> {Written(c, h)}
       [] c.op = "hsetnx"   -> {IF old = NoValue THEN Written(c, h) ELSE h}
       [] c.op = "hincrby"  -> {CASE old = NoValue -> Written(c, h)
                                  [] old \in Int   -> [h EXCEPT ![f] = @ + c.values[1]]
                                  [] OTHER         -> h}
       [] c.op = "zincrby"  -> {IF old = NoValue THEN Written(c, h)
                                ELSE [h EXCEPT ![f] = @ + c.values[1]]}
       [] c.op \in {"hdel", "srem"} -> {Without(h, Range(c.fields))}
       [] c.op \in {"hclear", "flushdb"} -> {Without(h, Fields)}
       [] c.op = "spop"     -> IF Members(h) = {} THEN {h} ELSE {Without(h, {x}) : x \in Members(h)}
       [] c.op = "smove"    -> {IF c.from[1] = c.name THEN h ELSE Without(h, {f})}
       [] c.op = "union"    -> {SetOf(Union(Sources(c, s)))}
       [] c.op = "inter"    -> {SetOf(Intersection(Sources(c, s)))}
       [] c.op = "diff"     -> {SetOf(Difference(Sources(c, s)))}
       [] c.op = "by_rank"  -> {Without(h, Range(RedisSlice(Ascending(h), c.low, c.high)))}
       [] c.op = "by_score" -> {Without(h, ByScore(h, c.low, c.high))}

\* What another name may hold: the destination of SMOVE has the member, the sources
\* of the others are as they were.
AfterOther(c, s, n) ==
  CASE c.op = "smove" /\ s[c.name][c.fields[1]] # NoValue ->
         [s[n] EXCEPT ![c.fields[1]] = Itself(c.fields[1])]
    [] c.op = "flushdb" -> Without(s[n], Fields)
    [] OTHER            -> s[n]

\* The records that c touches may have become those of r, from those of s.
Effect(c, s, r) ==
  \E h \in After(c, s) :
    \A n \in OnNames(c), f \in Fields :
      <<n, f>> \in Touched(c) =>
        r[n][f] = IF n = c.name THEN h[f] ELSE AfterOther(c, s, n)[f]

\* Where the code means to do something else than Redis, or happens to: an empty
\* value counts as no field, and so an empty member is never removed by SREM;
\* the first ZINCRBY of an element adds to uninitialised memory; SINTERSTORE and
\* SDIFFSTORE compare lists that may be in another order than the algorithm takes
\* them to be, and may have cleared a source; ranks outside of the list are moved
\* to its ends.
Deviates(c, s) ==
  LET h == s[c.name]
  IN \/ c.op \in {"hsetnx", "hincrby"} /\ h[c.fields[1]] = Blank
     \/ c.op = "srem" /\ 0 \in Range(c.fields)
     \/ c.op = "zincrby" /\ h[c.fields[1]] = NoValue
     \/ c.op \in {"inter", "diff"} /\ ~InOrder(Sources(c, s))
     \/ c.op = "inter" /\ c.name \in Range(Tail(c.from))
     \/ c.op = "diff" /\ c.name \in Range(c.from)
     \/ c.op = "by_rank" /\ (c.low >= Card(h) \/ c.high < -Card(h))

=============================================================================
