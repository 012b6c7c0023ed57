------------------------------- MODULE SortedSets -------------------------------
(***************************************************************************)
(* What the sorted-set commands read (src/src/t_zset.cpp and the handlers  *)
(* in zsetcmdhandler.cpp).  A sorted set is a function from fields to      *)
(* scores; its records come in the order of SetOps.                        *)
(***************************************************************************)
EXTENDS SetOps

\* items.sort(), which is stable.
ScoreOrder(h) ==
  {p \in Members(h) \X Members(h) :
     h[p[1]] < h[p[2]] \/ (h[p[1]] = h[p[2]] /\ StoredBefore(p[1], p[2]))}

Ascending(h) == Listed(Members(h), ScoreOrder(h))

\* The reads walk over this list, or over its reverse, of the items of h.
\* zrank, zrevrank: the place in the list, from 0; -1 without one.
ZRank(s, f)    == IF f \in Range(s) THEN (CHOOSE i \in DOMAIN s : s[i] = f) - 1 ELSE -1
ZRevRank(s, f) == ZRank(Reverse(s), f)

\* transformIndex: an index from the end if it is negative, cut to the list.
PastEnd(i, size)   == IF i >= 0 THEN i ELSE IF size + i - 1 < 0 THEN 0 ELSE size + i - 1
FromEnd(i, size)   == IF i >= 0 THEN i ELSE IF size + i < 0 THEN 0 ELSE size + i
CutToList(i, size) == IF i > size - 1 THEN size - 1 ELSE i
ToIndex(i, size)   == CutToList(FromEnd(i, size), size)

ZRange(s, start, stop) ==
  IF s = <<>> THEN <<>>
  ELSE SubSeq(s, ToIndex(start, Len(s)) + 1, ToIndex(stop, Len(s)) + 1)

ZRevRange(s, start, stop) == ZRange(Reverse(s), start, stop)

\* zrangebyscore, zrevrangebyscore, zcount; ByScore is also what zremrangebyscore deletes.
ByScore(h, low, high) == {f \in Members(h) : h[f] >= low /\ h[f] <= high}

Scored(s, h, low, high)           == Only(s, ByScore(h, low, high))
ZRevRangeByScore(s, h, high, low) == Scored(Reverse(s), h, low, high)
ZCount(h, low, high)              == Len(Scored(Stored(h), h, low, high))

\* What zremrangebyrank deletes.
ByRank(h, start, stop) ==
  LET s == Ascending(h)
  IN {f \in Members(h) : ZRank(s, f) \in ToIndex(start, Len(s))..ToIndex(stop, Len(s))}

\* LIMIT: the number of elements a reply announces, and the ones it sends.
Limit(s, offset, count) ==
  IF offset < 0 \/ offset >= Len(s) THEN [announced |-> 0, sent |-> <<>>]
  ELSE LET n == IF count < 0 \/ count > Len(s) THEN Len(s) - offset ELSE count
       IN [announced |-> n,
           sent |-> SubSeq(s, offset + 1, IF offset + n > Len(s) THEN Len(s) ELSE offset + n)]

\* zscore.
ZScore(h, f) == h[f]

\* The slice that Redis defines: an index before the list or behind it selects
\* nothing.
RedisSlice(s, start, stop) ==
  LET low  == IF start < 0 THEN IF Len(s) + start < 0 THEN 0 ELSE Len(s) + start ELSE start
      high == IF stop < 0 THEN Len(s) + stop ELSE stop
  IN SubSeq(s, low + 1, IF high > Len(s) - 1 THEN Len(s) ELSE high + 1)

=============================================================================
