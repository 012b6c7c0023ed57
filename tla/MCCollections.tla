----------------------------- MODULE MCCollections -----------------------------
(***************************************************************************)
(* Collections on small instances: 0 is the empty string, 2 "a" and 3 a    *)
(* string of 256 bytes behind it, which leveldb keeps before "a".          *)
(***************************************************************************)
EXTENDS Collections

CONSTANT n1, n2

MCWidth == [f \in Fields |-> CASE f = 0 -> 0 [] f = 2 -> 1 [] f = 3 -> 256]
MCBegins == {p \in Fields \X Fields : p[1] \in {0, p[2]}}

Holding(k) == CASE k = "hash" -> {NoValue, Text, Blank, 1}
                [] k = "set"  -> {NoValue, Text}
                [] k = "zset" -> {NoValue, 0, 1}

MCNulValues == {Text}

MCTargets == [k \in {"hash", "set", "zset"} |-> IF k = "set" THEN Names ELSE {n1}]

\* Names that no command is about are empty; no set has the empty string yet.
MCStores == [k \in {"hash", "set", "zset"} |->
  {s \in [Names -> [Fields -> Holding(k)]] :
     \A n \in Names : /\ n \notin MCTargets[k] => \A f \in Fields : s[n][f] = NoValue
                      /\ k = "set" => s[n][0] = NoValue}]

MCFieldLists  == {<<2, 0>>}
MCSourceLists == {<<n1>>, <<n1, n2>>}

Symmetry == Permutations(Threads)
=============================================================================
