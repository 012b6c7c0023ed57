--------------------------------- MODULE SetOps ---------------------------------
(***************************************************************************)
(* What the set commands read (src/src/t_hash.cpp, zsetcmdhandler.cpp).    *)
(*                                                                         *)
(* A field, or a member of a set, is a string.  Strings are numbered in    *)
(* lexicographic order, the order std::string and std::set_difference      *)
(* compare by; 0 is the empty string.  leveldb keeps the records of a hash *)
(* in another order: the key holds the length of the field before it, as   *)
(* an int of a machine whose lowest byte comes first.                      *)
(***************************************************************************)
EXTENDS Integers, Sequences, SequencesExt

CONSTANTS
  Fields,        \* the strings
  Width,         \* the length of each
  NoValue        \* no record

\* The four bytes of an int, the lowest one first.
Octet(n, i) ==
  CASE i = 1 -> n % 256
    [] i = 2 -> (n \div 256) % 256
    [] i = 3 -> (n \div 65536) % 256
    [] i = 4 -> n \div 16777216

LengthBefore(m, n) ==
  \E i \in 1..4 : Octet(m, i) < Octet(n, i) /\ \A j \in 1..i - 1 : Octet(m, j) = Octet(n, j)

\* Byte order of the keys that makeHashKey makes for one name.
StoredBefore(f, g) == LengthBefore(Width[f], Width[g]) \/ (Width[f] = Width[g] /\ f < g)

\* A set as a list, in an order given as a set of pairs.
Listed(S, order) ==
  CHOOSE s \in [1..Cardinality(S) -> S] : \A i, j \in DOMAIN s : i < j => <<s[i], s[j]>> \in order

\* The fields of a hash that have a record, and hgetall's list of them.
Members(h)  == {f \in Fields : h[f] # NoValue}
StoredOrder == {p \in Fields \X Fields : StoredBefore(p[1], p[2])}
Stored(h)   == Listed(Members(h), StoredOrder)

\* std::set_difference and std::set_intersection, which take both lists to be in
\* lexicographic order.
SetDifference(a, b) ==
  LET d[p \in (1..Len(a) + 1) \X (1..Len(b) + 1)] ==
        LET i == p[1]
            j == p[2]
        IN IF i > Len(a) \/ j > Len(b) THEN SubSeq(a, i, Len(a))
           ELSE CASE a[i] < b[j] -> <<a[i]>> \o d[<<i + 1, j>>]
                  [] b[j] < a[i] -> d[<<i, j + 1>>]
                  [] OTHER       -> d[<<i + 1, j + 1>>]
  IN d[<<1, 1>>]

SetIntersection(a, b) ==
  LET d[p \in (1..Len(a) + 1) \X (1..Len(b) + 1)] ==
        LET i == p[1]
            j == p[2]
        IN IF i > Len(a) \/ j > Len(b) THEN <<>>
           ELSE CASE a[i] < b[j] -> d[<<i + 1, j>>]
                  [] b[j] < a[i] -> d[<<i, j + 1>>]
                  [] OTHER       -> <<a[i]>> \o d[<<i + 1, j + 1>>]
  IN d[<<1, 1>>]

\* The elements of s that are in T, in their order.
Only(s, T) ==
  LET d[i \in 0..Len(s)] ==
        IF i = 0 THEN <<>> ELSE IF s[i] \in T THEN Append(d[i - 1], s[i]) ELSE d[i - 1]
  IN d[Len(s)]

\* The members of b behind those of a, each once.
Appended(a, b) == a \o b
Joined(a, b)   == a \o Only(b, Range(b) \ Range(a))

\* One more set in the loops of SDIFF, SINTER and SUNION.
Combined(op, a, b) ==
  CASE op = "diff"  -> SetDifference(a, b)
    [] op = "inter" -> SetIntersection(a, b)
    [] op = "union" -> Joined(a, b)

\* SDIFF, SINTER and SUNION of several sets.
OfSets(op, hs) ==
  LET d[i \in DOMAIN hs] == IF i = 1 THEN Stored(hs[1]) ELSE Combined(op, d[i - 1], Stored(hs[i]))
  IN d[Len(hs)]

\* SCARD, HLEN.
Card(h) == Len(Stored(h))

\* What they are to return.
Difference(hs)   == {f \in Members(hs[1]) : \A i \in 2..Len(hs) : f \notin Members(hs[i])}
Intersection(hs) == {f \in Fields : \A i \in DOMAIN hs : f \in Members(hs[i])}
Union(hs)        == {f \in Fields : \E i \in DOMAIN hs : f \in Members(hs[i])}

\* The order of the records is the one the algorithms compare by.
InOrder(hs) ==
  \A f, g \in Union(hs) : StoredBefore(f, g) => f < g

=============================================================================
