-------------------------------- MODULE Replies --------------------------------
(***************************************************************************)
(* What the commands that read hashes, sets and sorted sets send           *)
(* (src/src/hashcmdhandler.cpp, zsetcmdhandler.cpp), from the records h of *)
(* a name.  A reply is an integer, a bulk string, Nil, Error or an array:  *)
(* the number of elements it announces and the ones it sends.              *)
(***************************************************************************)
EXTENDS RedisCollections

CONSTANTS
  NulFields,     \* strings with a NUL byte in them: fields and members
  NulValues,     \* and values
  Nil,           \* $-1
  Error,         \* -ERR
  Begins         \* the pairs of strings of which the first one begins the second one

\* A string begins with itself.
ASSUME CutsAssumption == \A f \in Fields : <<f, f>> \in Begins

\* A string announces its length; appended it is whole, printed by %s it ends at
\* its first NUL.
Bulk(s)          == [string |-> s, whole |-> TRUE]
PrintedField(f)  == [string |-> f, whole |-> f \notin NulFields]
PrintedValue(v)  == [string |-> v, whole |-> v \notin NulValues]
Array(n, bulks)  == [announced |-> n, bulks |-> bulks]

\* One string for every item of a list, or two.
Strings(s, B(_))       == [i \in DOMAIN s |-> B(s[i])]
Pairs(s, B(_), C(_))   == [i \in 1..2 * Len(s) |-> IF i % 2 = 1 THEN B(s[(i + 1) \div 2]) ELSE C(s[i \div 2])]

-----------------------------------------------------------------------------
(* Hashes.  The lists come from one iterator, the elements of HMGET from one *)
(* read each                                                                 *)

\* An empty value counts as none.
Exists(v) == v \notin {NoValue, Blank}

HGet(h, f)    == IF h[f] = NoValue THEN Nil ELSE Bulk(h[f])
HExists(h, f) == IF Exists(h[f]) THEN 1 ELSE 0
HLen(h)       == Card(h)

HMGet(h, fs) == Array(Len(fs), Strings(fs, LAMBDA f : HGet(h, f)))

HKeys(h) == LET s == Stored(h) IN Array(Len(s), Strings(s, PrintedField))
HVals(h) == LET s == Stored(h) IN Array(Len(s), Strings(s, LAMBDA f : PrintedValue(h[f])))

HGetAllOnce(h) ==
  LET s == Stored(h) IN Array(Len(s), Pairs(s, PrintedField, LAMBDA f : PrintedValue(h[f])))

HGetAll(h) ==
  LET s == Stored(h) IN Array(2 * Len(s), Pairs(s, PrintedField, LAMBDA f : PrintedValue(h[f])))

-----------------------------------------------------------------------------
(* Sets *)

SCard(h)        == Card(h)
SIsMember(h, f) == IF Exists(h[f]) THEN 1 ELSE 0
SMembers(h)     == LET s == Stored(h) IN Array(Len(s), Strings(s, Bulk))

\* The loop goes one item further than the index, which starts at -1.
SRandMember(h, rand) ==
  LET s     == Stored(h)
      index == (rand % Len(s)) - 1
  IN IF s = <<>> THEN Nil ELSE Bulk(s[index + 2])

-----------------------------------------------------------------------------
(* Sorted sets *)

ZCard(h) == Card(h)

Place(i)    == IF i < 0 THEN Nil ELSE i
Rank(h, f)  == Place(ZRank(Ascending(h), f))

\* ZREVRANK gives the element the length of a token an earlier request has left: it
\* asks for a beginning of the element, or for the element and bytes behind it.
Cuts(f) == {g \in Fields : {<<f, g>>, <<g, f>>} \cap Begins # {}}

RevRanks(h, f) == {Nil} \cup {Place(ZRevRank(Ascending(h), g)) : g \in Cuts(f)}

\* The items of a page, each with its score if WITHSCORES asks for it.
Page(h, page, scores) ==
  IF scores
  THEN Array(2 * page.announced, Pairs(page.sent, Bulk, LAMBDA f : Bulk(h[f])))
  ELSE Array(page.announced, Strings(page.sent, Bulk))

All(s) == [announced |-> Len(s), sent |-> s]

RangeReply(h, i, j, scores)    == Page(h, All(ZRange(Ascending(h), i, j)), scores)
RevRangeReply(h, i, j, scores) == Page(h, All(ZRevRange(Ascending(h), i, j)), scores)

\* atoi, atof.
Number(v) == IF v \in Int THEN v ELSE 0

NoLimit == <<>>
Limited(s, limit) == IF limit = NoLimit THEN All(s) ELSE Limit(s, limit[1], limit[2])

\* Whether min is a number is asked twice, and never whether max is.
RangeByScoreReply(h, min, max, limit, scores) ==
  IF min \notin Int THEN Error
  ELSE Page(h, Limited(Scored(Ascending(h), h, min, Number(max)), limit), scores)

RevRangeByScoreReply(h, max, min, limit, scores) ==
  IF min \notin Int THEN Error
  ELSE Page(h, Limited(ZRevRangeByScore(Ascending(h), h, Number(max), min), limit), scores)

CountReply(h, min, max) ==
  IF min \notin Int \/ max \notin Int THEN Error ELSE ZCount(h, min, max)

\* A score is printed into 32 bytes, without a look at its length: one of 1e25 or
\* more runs over their end, which is not modelled.
ScoreReply(h, f) == IF h[f] = NoValue THEN Nil ELSE Bulk(ZScore(h, f))

-----------------------------------------------------------------------------
(* What a client relies on *)

\* The reply is as long as it says, so that the next one begins where it ends.
Sound(r) == r.announced = Len(r.bulks) /\ \A i \in DOMAIN r.bulks : r.bulks[i] = Nil \/ r.bulks[i].whole

Sent(r) == [i \in DOMAIN r.bulks |-> r.bulks[i].string]

\* A page inside of the list; one that runs over its end announces too many.
Within(s, limit) ==
  limit = NoLimit \/ limit[1] \notin DOMAIN s \/ limit[2] \notin 0..Len(s) \/ limit[1] + limit[2] <= Len(s)

=============================================================================
