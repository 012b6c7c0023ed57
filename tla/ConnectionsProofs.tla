---------------------------- MODULE ConnectionsProofs ----------------------------
(***************************************************************************)
(* Proofs about Connections for any clients, loops, requests and cuts.     *)
(***************************************************************************)
EXTENDS Connections, WellFoundedInduction, FiniteSetTheorems, SequenceTheorems, TLAPS

Places  == {"new", "read", "handle", "send", "write", "finish", "push", "count",
            "counting", "blocked", "stuck", "closed"}
Sending == {"send", "write", "finish", "push", "count", "counting"}

\* What the counts are and what they count.
CountTypeOK ==
  /\ at \in [Clients -> Places]
  /\ DOMAIN handled = Clients /\ \A c \in Clients : handled[c] \in Seq(Range(handled[c]))
  /\ lastType \in [Clients -> DOMAIN Commands \cup {NoType}]
  /\ requestNum \in [Addresses -> Nat] /\ connectNum \in [Addresses -> Nat]
  /\ commandNum \in [Addresses -> [DOMAIN Commands -> Nat]]
  /\ batches \in [Clients -> Nat] /\ seen \in [Clients -> Nat]

\* Whoever counts holds the mutex and has read the number as it is.
LockInv ==
  \A c \in Clients : at[c] = "counting" => clientLock = c /\ seen[c] = requestNum[AddressOf[c]]

\* A batch is counted after its last request has been run.
BatchInv ==
  \A c \in Clients :
    /\ batches[c] <= Len(handled[c])
    /\ at[c] \in Sending => batches[c] < Len(handled[c])

CountInv == CountTypeOK /\ LockInv /\ BatchInv /\ RequestsCounted

-----------------------------------------------------------------------------
(* Induction *)

\* The induction that the proofs below use: a set of bad cases has a smallest one.
LEMMA MinimalSubset ==
  ASSUME NEW S, IsFiniteSet(S), NEW Bad, Bad \subseteq SUBSET S, Bad # {}
  PROVE  \E T \in Bad : \A U \in Bad : U \subseteq T => U = T
<1>1. IsWellFoundedOn(StrictSubsetOrdering(S), SUBSET S)
  BY FS_StrictSubsetOrderingWellFounded, FS_FiniteSubsetsOfFinite
<1>2. \E T \in Bad : \A U \in Bad : ~(<<U, T>> \in StrictSubsetOrdering(S))
  BY <1>1, WFMin
<1> QED
  BY <1>2 DEF StrictSubsetOrdering

LEMMA LeastNat ==
  ASSUME NEW Bad, Bad \subseteq Nat, Bad # {}
  PROVE  \E n \in Bad : \A m \in Bad : n <= m
<1>1. PICK b \in Bad : TRUE
  OBVIOUS
<1> DEFINE Below == {0..n : n \in {m \in Bad : m <= b}}
<1>2. IsFiniteSet(0..b)
  BY <1>1, FS_Interval
<1>3. Below \subseteq SUBSET (0..b) /\ Below # {}
  BY <1>1
<1>4. PICK T \in Below : \A U \in Below : U \subseteq T => U = T
  <2> DEFINE S == 0..b
  <2>1. IsFiniteSet(S) /\ Below \subseteq SUBSET S /\ Below # {}
    BY <1>2, <1>3
  <2> HIDE DEF Below, S
  <2> QED
    BY <2>1, MinimalSubset
<1>5. PICK n \in Bad : n <= b /\ T = 0..n
  BY <1>4
<1>6. ASSUME NEW m \in Bad, m < n
      PROVE  FALSE
  <2>1. 0..m \in Below /\ 0..m \subseteq T
    BY <1>1, <1>5, <1>6
  <2>2. 0..m = 0..n
    BY <1>4, <1>5, <2>1
  <2>3. n \in 0..n /\ n \notin 0..m
    BY <1>6
  <2> QED
    BY <2>2, <2>3
<1> QED
  BY <1>5, <1>6

\* A fold over a finite set: what MapThenFoldSet computes part by part.
IsFold(g, S, V, b, ch, st) ==
  /\ g \in [SUBSET S -> V]
  /\ g[{}] = b
  /\ \A T \in SUBSET S : T # {} => g[T] = st[<<ch[T], g[T \ {ch[T]}]>>]

LEMMA FoldsAgree ==
  ASSUME NEW S, IsFiniteSet(S), NEW S1 \in SUBSET S, NEW S2 \in SUBSET S, NEW V, NEW b, NEW ch, NEW st,
         \A T \in SUBSET S : T # {} => ch[T] \in T,
         NEW g1, IsFold(g1, S1, V, b, ch, st), NEW g2, IsFold(g2, S2, V, b, ch, st),
         NEW T \in SUBSET S1, T \subseteq S2
  PROVE  g1[T] = g2[T]
<1> DEFINE Bad == {U \in SUBSET S : U \subseteq S1 /\ U \subseteq S2 /\ g1[U] # g2[U]}
<1>1. ASSUME Bad # {}
      PROVE  FALSE
  <2>1. PICK U \in Bad : \A W \in Bad : W \subseteq U => W = U
    <3>1. Bad \subseteq SUBSET S
      OBVIOUS
    <3> HIDE DEF Bad
    <3> QED
      BY <1>1, <3>1, MinimalSubset
  <2>2. U # {}
    BY <2>1 DEF IsFold
  <2>3. ch[U] \in U
    BY <2>1, <2>2
  <2>4. U \ {ch[U]} \notin Bad
    BY <2>1, <2>3
  <2>5. g1[U \ {ch[U]}] = g2[U \ {ch[U]}]
    BY <2>1, <2>4
  <2>6. g1[U] = st[<<ch[U], g1[U \ {ch[U]}]>>] /\ g2[U] = st[<<ch[U], g2[U \ {ch[U]}]>>]
    BY <2>1, <2>2 DEF IsFold
  <2> QED
    BY <2>1, <2>5, <2>6
<1> QED
  BY <1>1

LEMMA FoldExists ==
  ASSUME NEW S, IsFiniteSet(S), NEW V, NEW b \in V, NEW ch, NEW st,
         \A T \in SUBSET S : T # {} => ch[T] \in T,
         \A x \in S, v \in V : st[<<x, v>>] \in V
  PROVE  \E g : IsFold(g, S, V, b, ch, st)
<1> DEFINE Has(T) == \E g : IsFold(g, T, V, b, ch, st)
           Bad == {T \in SUBSET S : ~Has(T)}
<1>1. ASSUME NEW T \in Bad, \A U \in Bad : U \subseteq T => U = T
      PROVE  FALSE
  <2> DEFINE G(U) == CHOOSE g : IsFold(g, U, V, b, ch, st)
             Rest(U) == U \ {ch[U]}
             h == [U \in SUBSET T |-> IF U = {} THEN b ELSE st[<<ch[U], G(Rest(U))[Rest(U)]>>]]
  <2>1. T \subseteq S /\ IsFiniteSet(T)
    BY <1>1, FS_Subset
  <2>2. ASSUME NEW U, U \subseteq T, U # {}
        PROVE  ch[U] \in U /\ ch[U] \in S /\ Rest(U) \subseteq T /\ Rest(U) # T /\ Rest(U) \subseteq S
               /\ ch[U] \notin Rest(U)
    BY <2>1, <2>2
  <2>3. ASSUME NEW U, U \subseteq T, U # T
        PROVE  IsFold(G(U), U, V, b, ch, st)
    <3>1. Has(U)
      BY <1>1, <2>1, <2>3
    <3> HIDE DEF IsFold
    <3> QED
      BY <3>1
  <2>4. ASSUME NEW U, U \subseteq T, U # {}
        PROVE  G(Rest(U))[Rest(U)] \in V /\ h[U] = st[<<ch[U], G(Rest(U))[Rest(U)]>>]
    <3>1. IsFold(G(Rest(U)), Rest(U), V, b, ch, st)
      BY <2>2, <2>3, <2>4
    <3> HIDE DEF G, Rest
    <3>2. G(Rest(U))[Rest(U)] \in V
      BY <3>1 DEF IsFold
    <3> QED
      BY <2>4, <3>2
  <2>5. h \in [SUBSET T -> V] /\ h[{}] = b
    <3> HIDE DEF G, Rest
    <3> SUFFICES ASSUME NEW U \in SUBSET T, U # {}
                 PROVE  st[<<ch[U], G(Rest(U))[Rest(U)]>>] \in V
      OBVIOUS
    <3>1. ch[U] \in S
      BY <2>2
    <3> QED
      BY <2>4, <3>1
  <2>6. ASSUME NEW U \in SUBSET T, U # {}
        PROVE  h[U] = st[<<ch[U], h[Rest(U)]>>]
    <3> DEFINE W == Rest(U)
    <3>1. W \subseteq T /\ W # T /\ IsFold(G(W), W, V, b, ch, st)
      BY <2>2, <2>3, <2>6
    <3>2. h[W] = G(W)[W]
      <4>1. CASE W = {}
        <5> HIDE DEF G
        <5> QED
          BY <2>5, <3>1, <4>1 DEF IsFold
      <4>2. CASE W # {}
        <5>1. /\ h[W] = st[<<ch[W], G(Rest(W))[Rest(W)]>>]
              /\ Rest(W) \subseteq W /\ Rest(W) \subseteq T /\ Rest(W) # T
          BY <2>2, <2>4, <3>1, <4>2
        <5>2. IsFold(G(Rest(W)), Rest(W), V, b, ch, st)
          BY <2>3, <5>1
        <5>3. G(W)[W] = st[<<ch[W], G(W)[Rest(W)]>>]
          <6> HIDE DEF G
          <6> QED
            BY <3>1, <4>2 DEF IsFold
        <5>4. G(W)[Rest(W)] = G(Rest(W))[Rest(W)]
          <6> HIDE DEF G, W, Rest
          <6>1. W \in SUBSET S /\ Rest(W) \in SUBSET S /\ Rest(W) \in SUBSET W
            BY <2>1, <3>1, <5>1
          <6> QED
            BY <3>1, <5>1, <5>2, <6>1, FoldsAgree
        <5> QED
          BY <5>1, <5>3, <5>4
      <4> QED
        BY <4>1, <4>2
    <3> QED
      BY <2>4, <2>6, <3>2
  <2>7. IsFold(h, T, V, b, ch, st)
    <3> HIDE DEF h
    <3> QED
      BY <2>5, <2>6 DEF IsFold
  <2> QED
    BY <1>1, <2>7
<1>2. Bad = {}
  <2>1. Bad \subseteq SUBSET S
    OBVIOUS
  <2> HIDE DEF Bad
  <2> QED
    BY <1>1, <2>1, MinimalSubset
<1> QED
  BY <1>2

-----------------------------------------------------------------------------
(* Sums *)

\* The sum of a part of what f counts.
Pick(T)  == CHOOSE x \in T : TRUE
PartSums(f) ==
  CHOOSE g : g = [T \in SUBSET DOMAIN f |-> IF T = {} THEN 0 ELSE f[Pick(T)] + g[T \ {Pick(T)}]]

LEMMA TotalIs ==
  ASSUME NEW f
  PROVE  Total(f) = PartSums(f)[DOMAIN f]
BY DEF Total, FoldSet, MapThenFoldSet, PartSums, Pick

LEMMA Picked ==
  ASSUME NEW T, T # {}
  PROVE  Pick(T) \in T
BY DEF Pick

SumsUp(g, f, D) ==
  /\ g \in [SUBSET D -> Nat]
  /\ g[{}] = 0
  /\ \A T \in SUBSET D : T # {} => g[T] = f[Pick(T)] + g[T \ {Pick(T)}]

LEMMA PartSumsDef ==
  ASSUME NEW D, IsFiniteSet(D), NEW f \in [D -> Nat]
  PROVE  SumsUp(PartSums(f), f, D)
<1> DEFINE ch == [T \in SUBSET D |-> Pick(T)]
           st == [p \in D \X Nat |-> f[p[1]] + p[2]]
<1>1. \A T \in SUBSET D : T # {} => ch[T] \in T
  BY Picked
<1>2. \A x \in D, v \in Nat : st[<<x, v>>] = f[x] + v /\ st[<<x, v>>] \in Nat
  OBVIOUS
<1>3. PICK g : IsFold(g, D, Nat, 0, ch, st)
  <2> HIDE DEF ch, st
  <2> QED
    BY <1>1, <1>2, FoldExists
<1>4. \A T \in SUBSET D : T # {} => g[T] = f[Pick(T)] + g[T \ {Pick(T)}]
  <2> SUFFICES ASSUME NEW T \in SUBSET D, T # {}
               PROVE  g[T] = f[Pick(T)] + g[T \ {Pick(T)}]
    OBVIOUS
  <2>1. ch[T] = Pick(T) /\ Pick(T) \in D
    BY Picked
  <2>2. g[T \ {Pick(T)}] \in Nat
    BY <1>3 DEF IsFold
  <2>3. g[T] = st[<<Pick(T), g[T \ {Pick(T)}]>>]
    <3> HIDE DEF st
    <3> QED
      BY <1>3, <2>1 DEF IsFold
  <2> QED
    BY <1>2, <2>1, <2>2, <2>3
<1>5. g = [T \in SUBSET D |-> IF T = {} THEN 0 ELSE f[Pick(T)] + g[T \ {Pick(T)}]]
  <2> HIDE DEF ch, st
  <2> QED
    BY <1>3, <1>4 DEF IsFold
<1> DEFINE h == PartSums(f)
<1>6. h = [T \in SUBSET D |-> IF T = {} THEN 0 ELSE f[Pick(T)] + h[T \ {Pick(T)}]]
  <2>1. DOMAIN f = D
    OBVIOUS
  <2> QED
    BY <1>5, <2>1, Zenon DEF PartSums
<1> DEFINE Bad == {T \in SUBSET D : h[T] \notin Nat}
<1>7. Bad = {}
  <2>1. ASSUME NEW T \in Bad, \A U \in Bad : U \subseteq T => U = T
        PROVE  FALSE
    <3> HIDE DEF h
    <3>1. T # {}
      BY <1>6, <2>1
    <3>2. Pick(T) \in T /\ Pick(T) \in D
      BY <3>1, <2>1, Picked
    <3>3. h[T \ {Pick(T)}] \in Nat
      BY <2>1, <3>2
    <3>4. h[T] = f[Pick(T)] + h[T \ {Pick(T)}]
      BY <1>6, <2>1, <3>1
    <3> QED
      BY <2>1, <3>2, <3>3, <3>4
  <2>2. Bad \subseteq SUBSET D
    OBVIOUS
  <2> HIDE DEF Bad
  <2> QED
    BY <2>1, <2>2, MinimalSubset
<1> HIDE DEF h
<1>8. \A T \in SUBSET D : h[T] \in Nat
  BY <1>7
<1> QED
  BY <1>6, <1>8 DEF h, SumsUp

LEMMA TotalTyping ==
  ASSUME NEW D, IsFiniteSet(D), NEW f \in [D -> Nat]
  PROVE  Total(f) \in Nat
<1>1. SumsUp(PartSums(f), f, D) /\ DOMAIN f = D
  BY PartSumsDef
<1> QED
  BY <1>1, TotalIs DEF SumsUp

\* A sum is none while nothing has been counted, and grows by what one of its parts does.
LEMMA TotalZero ==
  ASSUME NEW D, IsFiniteSet(D)
  PROVE  Total([x \in D |-> 0]) = 0
<1> DEFINE f == [x \in D |-> 0]
           Bad == {T \in SUBSET D : PartSums(f)[T] # 0}
<1>1. f \in [D -> Nat] /\ DOMAIN f = D /\ \A x \in D : f[x] = 0
  OBVIOUS
<1> HIDE DEF f
<1>0. SumsUp(PartSums(f), f, D)
  BY <1>1, PartSumsDef
<1>2. Bad = {}
  <2>1. ASSUME NEW T \in Bad, \A U \in Bad : U \subseteq T => U = T
        PROVE  FALSE
    <3>1. T # {} /\ T \subseteq D
      BY <1>0, <2>1 DEF SumsUp
    <3>2. Pick(T) \in T
      BY <3>1, Picked
    <3>3. PartSums(f)[T \ {Pick(T)}] = 0
      BY <2>1, <3>1, <3>2
    <3>4. PartSums(f)[T] = f[Pick(T)] + PartSums(f)[T \ {Pick(T)}]
      BY <1>0, <3>1 DEF SumsUp
    <3> QED
      BY <1>1, <2>1, <3>1, <3>2, <3>3, <3>4
  <2>2. Bad \subseteq SUBSET D
    OBVIOUS
  <2> HIDE DEF Bad
  <2> QED
    BY <2>1, <2>2, MinimalSubset
<1> QED
  BY <1>1, <1>2, TotalIs DEF f

LEMMA TotalBump ==
  ASSUME NEW D, IsFiniteSet(D), NEW f \in [D -> Nat], NEW x \in D
  PROVE  Total([f EXCEPT ![x] = f[x] + 1]) = Total(f) + 1
<1> DEFINE h == [f EXCEPT ![x] = f[x] + 1]
           Grown(T) == PartSums(h)[T] = PartSums(f)[T] + (IF x \in T THEN 1 ELSE 0)
           Bad == {T \in SUBSET D : ~Grown(T)}
<1>1. h \in [D -> Nat] /\ DOMAIN h = D /\ h[x] = f[x] + 1 /\ \A y \in D : y # x => h[y] = f[y]
  OBVIOUS
<1> HIDE DEF h
<1>0. SumsUp(PartSums(f), f, D) /\ SumsUp(PartSums(h), h, D)
  BY <1>1, PartSumsDef
<1>2. Bad = {}
  <2>1. ASSUME NEW T \in Bad, \A U \in Bad : U \subseteq T => U = T
        PROVE  FALSE
    <3>1. T # {} /\ T \subseteq D
      <4>1. Grown({})
        BY <1>0 DEF SumsUp
      <4> QED
        BY <2>1, <4>1
    <3> DEFINE y == Pick(T)
               U == T \ {y}
    <3>2. y \in T /\ y \in D /\ U \in SUBSET D /\ U # T /\ y \notin U /\ U \subseteq T
      BY <3>1, Picked
    <3>3. Grown(U)
      <4> HIDE DEF Grown, y, U
      <4> QED
        BY <2>1, <3>2
    <3>4. PartSums(f)[T] = f[y] + PartSums(f)[U]
      BY <1>0, <3>1 DEF SumsUp
    <3>5. PartSums(h)[T] = h[y] + PartSums(h)[U]
      BY <1>0, <3>1 DEF SumsUp
    <3>6. PartSums(f)[U] \in Nat /\ f[y] \in Nat /\ (x \in T <=> x \in U \/ x = y)
      BY <1>0, <3>2 DEF SumsUp
    <3>7. ~Grown(T)
      BY <2>1
    <3> HIDE DEF y, U
    <3>8. CASE x = y
      BY <1>1, <3>2, <3>3, <3>4, <3>5, <3>6, <3>7, <3>8
    <3>9. CASE x # y
      BY <1>1, <3>2, <3>3, <3>4, <3>5, <3>6, <3>7, <3>9
    <3> QED
      BY <3>8, <3>9
  <2>2. Bad \subseteq SUBSET D
    OBVIOUS
  <2> HIDE DEF Bad
  <2> QED
    BY <2>1, <2>2, MinimalSubset
<1>3. Grown(D) /\ DOMAIN f = D
  BY <1>2
<1> QED
  BY <1>1, <1>3, TotalIs DEF h

-----------------------------------------------------------------------------
(* Induction over numbers, and folds over sequences *)

LEMMA UpTo ==
  ASSUME NEW n \in Nat, NEW Good, 0 \in Good, \A i \in 1..n : i - 1 \in Good => i \in Good
  PROVE  \A i \in 0..n : i \in Good
<1> DEFINE Bad == {i \in 0..n : i \notin Good}
<1>1. ASSUME Bad # {}
      PROVE  FALSE
  <2>1. Bad \subseteq Nat
    OBVIOUS
  <2>2. PICK i \in Bad : \A j \in Bad : i <= j
    <3> HIDE DEF Bad
    <3> QED
      BY <1>1, <2>1, LeastNat
  <2>3. i \in 1..n /\ i - 1 \in 0..n /\ i - 1 < i
    BY <2>2
  <2>4. i - 1 \in Good
    BY <2>2, <2>3
  <2> QED
    BY <2>2, <2>3, <2>4
<1> QED
  BY <1>1

\* The largest index of a part of a sequence, which a fold from the left takes last.
LEMMA LargestOf ==
  ASSUME NEW n \in Nat, NEW T \in SUBSET (1..n), T # {}
  PROVE  Max(T) \in T /\ \A i \in T : i <= Max(T)
<1> DEFINE Over == {m \in Nat : \A i \in T : i <= m}
<1>1. n \in Over /\ Over \subseteq Nat
  OBVIOUS
<1>2. PICK m \in Over : \A k \in Over : m <= k
  <2> HIDE DEF Over
  <2> QED
    BY <1>1, LeastNat
<1>3. m \in T
  <2> SUFFICES ASSUME m \notin T
               PROVE  FALSE
    OBVIOUS
  <2>1. m \in Nat /\ \A i \in T : i \in 1..n /\ i <= m /\ i # m
    BY <1>2
  <2>2. m # 0
    <3>1. PICK i \in T : TRUE
      OBVIOUS
    <3>2. i \in 1..n /\ i <= m
      BY <2>1, <3>1
    <3> QED
      BY <2>1, <3>2
  <2>3. \A i \in T : i <= m - 1
    BY <2>1
  <2>4. m - 1 \in Over
    BY <2>1, <2>2, <2>3
  <2> QED
    BY <1>2, <2>1, <2>4
<1>4. \E i \in T : \A j \in T : i >= j
  BY <1>2, <1>3
<1>5. Max(T) \in T /\ \A j \in T : Max(T) >= j
  BY <1>4, Zenon DEF Max
<1> QED
  BY <1>5

LEMMA LargestUpTo ==
  ASSUME NEW n \in Nat, NEW i \in 1..n
  PROVE  /\ 1..i \in SUBSET (1..n) /\ 1..i # {}
         /\ Max(1..i) = i /\ (1..i) \ {i} = 1..i - 1
<1>1. 1..i \in SUBSET (1..n) /\ 1..i # {} /\ i \in 1..i
  OBVIOUS
<1>2. Max(1..i) \in 1..i /\ \A j \in 1..i : j <= Max(1..i)
  BY <1>1, LargestOf
<1> QED
  BY <1>1, <1>2

\* A fold from the left exists for every step between values of a set.
IsLeftFold(g, n, V, b, st) ==
  /\ g \in [SUBSET (1..n) -> V]
  /\ g[{}] = b
  /\ \A T \in SUBSET (1..n) : T # {} => g[T] = st[<<Max(T), g[T \ {Max(T)}]>>]

LEMMA LeftFoldExists ==
  ASSUME NEW n \in Nat, NEW V, NEW b \in V, NEW st, \A i \in 1..n, v \in V : st[<<i, v>>] \in V
  PROVE  \E g : IsLeftFold(g, n, V, b, st)
<1> DEFINE D == 1..n
           ch == [T \in SUBSET D |-> Max(T)]
<1>1. IsFiniteSet(D)
  BY FS_Interval
<1>2. \A T \in SUBSET D : T # {} => ch[T] \in T
  BY LargestOf
<1>3. \A T \in SUBSET D : ch[T] = Max(T)
  OBVIOUS
<1>4. PICK g : IsFold(g, D, V, b, ch, st)
  <2> HIDE DEF ch, D
  <2> QED
    BY <1>1, <1>2, FoldExists DEF D
<1> HIDE DEF ch
<1> QED
  BY <1>3, <1>4 DEF IsFold, IsLeftFold

-----------------------------------------------------------------------------
(* What the monitor counts *)

\* A sequence is one of its own elements.
LEMMA OwnElements ==
  ASSUME NEW S, NEW s \in Seq(S)
  PROVE  s \in Seq(Range(s))
<1>1. Len(s) \in Nat /\ DOMAIN s = 1..Len(s) /\ s = [i \in 1..Len(s) |-> s[i]]
  OBVIOUS
<1>2. \A i \in 1..Len(s) : s[i] \in Range(s)
  BY <1>1 DEF Range
<1> QED
  BY <1>1, <1>2

LEMMA OneMore ==
  ASSUME NEW s, s \in Seq(Range(s)), NEW x
  PROVE  /\ Append(s, x) \in Seq(Range(Append(s, x)))
         /\ Len(Append(s, x)) = Len(s) + 1 /\ Len(s) \in Nat
<1>1. s \in Seq(Range(s) \cup {x}) /\ Len(s) \in Nat
  <2>1. DOMAIN s = 1..Len(s) /\ Len(s) \in Nat /\ s \in [1..Len(s) -> Range(s)]
    OBVIOUS
  <2> QED
    BY <2>1
<1>2. Append(s, x) \in Seq(Range(s) \cup {x}) /\ Len(Append(s, x)) = Len(s) + 1
  BY <1>1
<1> QED
  BY <1>1, <1>2, OwnElements

LEMMA CountStart == Init => CountInv
<1> SUFFICES ASSUME Init
             PROVE  CountInv
  OBVIOUS
<1>1. CountTypeOK
  <2>1. \A c \in Clients : handled[c] \in Seq(Range(handled[c]))
    BY DEF Init
  <2> QED
    BY <2>1 DEF Init, CountTypeOK, Places
<1>2. LockInv /\ BatchInv
  BY DEF Init, LockInv, BatchInv, Sending
<1>3. ASSUME NEW a \in Addresses
      PROVE  /\ requestNum[a] = Total([c \in From(a) |-> batches[c]])
             /\ connectNum[a] = Cardinality({c \in From(a) : at[c] # "new"})
             /\ Total(commandNum[a]) <= requestNum[a]
             /\ \A c \in From(a) : batches[c] <= Len(handled[c])
  <2>1. IsFiniteSet(From(a)) /\ IsFiniteSet(DOMAIN Commands)
    BY ConnectionAssumption, FS_Subset DEF From
  <2>2. [c \in From(a) |-> batches[c]] = [c \in From(a) |-> 0]
    BY DEF Init, From
  <2>3. commandNum[a] = [n \in DOMAIN Commands |-> 0]
    BY <1>3 DEF Init
  <2>4. {c \in From(a) : at[c] # "new"} = {}
    BY DEF Init, From
  <2>5. requestNum[a] = 0 /\ connectNum[a] = 0
    BY <1>3 DEF Init
  <2>6. \A c \in From(a) : batches[c] <= Len(handled[c])
    BY DEF Init, From
  <2>7. Total([c \in From(a) |-> batches[c]]) = 0 /\ Total(commandNum[a]) = 0
    BY <2>1, <2>2, <2>3, TotalZero
  <2>8. Cardinality({c \in From(a) : at[c] # "new"}) = 0
    BY <2>4, FS_EmptySet
  <2> QED
    BY <2>5, <2>6, <2>7, <2>8
<1> QED
  BY <1>1, <1>2, <1>3 DEF CountInv, RequestsCounted

\* Steps that count nothing.
LEMMA CountsKept ==
  ASSUME CountInv,
         at' \in [Clients -> Places], \A c \in Clients : at'[c] # at[c] => at[c] # "new",
         \A c \in Clients : at'[c] # at[c] => at'[c] \notin {"new", "counting"},
         \A c \in Clients : at'[c] # at[c] /\ at'[c] \in Sending =>
           at[c] \in Sending \/ Len(handled'[c]) > Len(handled[c]),
         DOMAIN handled' = Clients, \A c \in Clients : handled'[c] \in Seq(Range(handled'[c])),
         \A c \in Clients : Len(handled'[c]) >= Len(handled[c]),
         lastType' \in [Clients -> DOMAIN Commands \cup {NoType}],
         UNCHANGED <<records, connectNum>>
  PROVE  CountInv'
<1>1. CountTypeOK'
  BY DEF CountInv, CountTypeOK, records
<1>2. LockInv'
  BY DEF CountInv, LockInv, records
<1>3. BatchInv'
  <2> SUFFICES ASSUME NEW c \in Clients
               PROVE  /\ batches'[c] <= Len(handled'[c])
                      /\ at'[c] \in Sending => batches'[c] < Len(handled'[c])
    BY DEF BatchInv
  <2>1. Len(handled[c]) \in Nat /\ Len(handled'[c]) \in Nat /\ batches'[c] = batches[c] /\ batches[c] \in Nat
    BY DEF CountInv, CountTypeOK, records
  <2>2. batches[c] <= Len(handled[c]) /\ (at[c] \in Sending => batches[c] < Len(handled[c]))
    BY DEF CountInv, BatchInv
  <2>3. Len(handled'[c]) >= Len(handled[c])
    OBVIOUS
  <2> QED
    BY <2>1, <2>2, <2>3
<1>4. RequestsCounted'
  <2> SUFFICES ASSUME NEW a \in Addresses
               PROVE  /\ requestNum'[a] = Total([c \in From(a) |-> batches'[c]])
                      /\ connectNum'[a] = Cardinality({c \in From(a) : at'[c] # "new"})
                      /\ Total(commandNum'[a]) <= requestNum'[a]
                      /\ \A c \in From(a) : batches'[c] <= Len(handled'[c])
    BY DEF RequestsCounted, From
  <2>1. {c \in From(a) : at'[c] # "new"} = {c \in From(a) : at[c] # "new"}
    BY DEF From
  <2>2. UNCHANGED <<batches, requestNum, commandNum, connectNum>>
    BY DEF records
  <2>3. \A c \in From(a) : batches'[c] <= Len(handled'[c])
    BY <1>3 DEF BatchInv, From
  <2> QED
    BY <2>1, <2>2, <2>3 DEF CountInv, RequestsCounted
<1> QED
  BY <1>1, <1>2, <1>3, <1>4 DEF CountInv

LEMMA MovesTo ==
  ASSUME CountTypeOK, NEW c \in Clients, NEW to \in Places, Moves(c, to)
  PROVE  /\ at' \in [Clients -> Places] /\ at'[c] = to
         /\ \A d \in Clients : d # c => at'[d] = at[d]
BY DEF CountTypeOK, Moves

\* Steps of one connection that count nothing, by where they take it.
LEMMA StepKept ==
  ASSUME CountInv, NEW c \in Clients, NEW to \in Places \ {"new", "counting"}, Moves(c, to),
         at[c] # "new", to \in Sending => at[c] \in Sending,
         UNCHANGED <<handled, lastType, records, connectNum>>
  PROVE  CountInv'
<1>1. CountTypeOK
  BY DEF CountInv
<1>2. at' \in [Clients -> Places] /\ at'[c] = to /\ \A d \in Clients : d # c => at'[d] = at[d]
  BY <1>1, MovesTo
<1>3. \A d \in Clients : Len(handled[d]) \in Nat /\ handled'[d] = handled[d]
  BY <1>1 DEF CountTypeOK
<1>4. \A d \in Clients : Len(handled'[d]) >= Len(handled[d])
  BY <1>3
<1>5. DOMAIN handled' = Clients /\ (\A d \in Clients : handled'[d] \in Seq(Range(handled'[d])))
      /\ lastType' \in [Clients -> DOMAIN Commands \cup {NoType}]
  BY <1>1 DEF CountTypeOK
<1> QED
  BY <1>2, <1>4, <1>5, CountsKept

LEMMA HandleKept ==
  ASSUME CountInv, NEW c \in Clients, NEW to \in Places \ {"new", "counting"}, Moves(c, to),
         at[c] = "handle", handled' = [handled EXCEPT ![c] = Append(@, request[c])],
         lastType' \in [Clients -> DOMAIN Commands \cup {NoType}],
         UNCHANGED <<records, connectNum>>
  PROVE  CountInv'
<1>1. CountTypeOK
  BY DEF CountInv
<1>2. at' \in [Clients -> Places] /\ at'[c] = to /\ \A d \in Clients : d # c => at'[d] = at[d]
  BY <1>1, MovesTo
<1>3. \A d \in Clients : Len(handled[d]) \in Nat /\ handled[d] \in Seq(Range(handled[d]))
  BY <1>1 DEF CountTypeOK
<1>4. handled'[c] = Append(handled[c], request[c]) /\ DOMAIN handled' = Clients
      /\ \A d \in Clients : d # c => handled'[d] = handled[d]
  BY <1>1 DEF CountTypeOK
<1>5. handled'[c] \in Seq(Range(handled'[c])) /\ Len(handled'[c]) = Len(handled[c]) + 1
  BY <1>3, <1>4, OneMore
<1>6. \A d \in Clients : handled'[d] \in Seq(Range(handled'[d]))
  BY <1>3, <1>4, <1>5
<1>7. \A d \in Clients : Len(handled'[d]) >= Len(handled[d])
  BY <1>3, <1>4, <1>5
<1>8. \A d \in Clients : at'[d] # at[d] => Len(handled'[d]) > Len(handled[d])
  BY <1>2, <1>3, <1>5
<1>9. \A d \in Clients : at'[d] # at[d] => at[d] # "new" /\ at'[d] \notin {"new", "counting"}
  BY <1>2
<1> QED
  BY <1>2, <1>4, <1>6, <1>7, <1>8, <1>9, CountsKept

\* A parse leaves the connection reading, closed or with a request to run.
LEMMA ParsesTo ==
  ASSUME NEW l, NEW c, NEW from, NEW to, Parses(l, c, from, to)
  PROVE  \E place \in {"closed", "read", "handle"} : Moves(c, place)
<1>1. PICK r \in ParseOf[SubSeq(Bytes(c), from + 1, to)] :
        CASE r.next = Error -> Moves(c, "closed") /\ Leaves(l) /\ UNCHANGED <<parsed, request, key>>
          [] r.next = Again -> Moves(c, "read") /\ Leaves(l) /\ UNCHANGED <<parsed, request, key>>
          [] OTHER          -> /\ Moves(c, "handle") /\ Takes(l, c)
                               /\ parsed' = [parsed EXCEPT ![c] = from + r.next - 1]
                               /\ request' = [request EXCEPT ![c] = r.tokens]
                               /\ key' = [key EXCEPT ![c] =
                                    IF Len(r.tokens) > 1 /\ r.tokens[2] # Unset THEN r.tokens[2] ELSE Garbage]
  BY DEF Parses
<1>2. CASE r.next = Error
  BY <1>1, <1>2
<1>3. CASE r.next # Error /\ r.next = Again
  BY <1>1, <1>3
<1>4. CASE r.next # Error /\ r.next # Again
  BY <1>1, <1>4
<1> QED
  BY <1>2, <1>3, <1>4

LEMMA AcceptCounts ==
  ASSUME CountInv, NEW c \in Clients, Accept(c)
  PROVE  CountInv'
<1>1. /\ at[c] = "new" /\ Moves(c, "read")
      /\ connectNum' = [connectNum EXCEPT ![AddressOf[c]] = @ + 1]
      /\ UNCHANGED <<handled, lastType, clientLock, seen, requestNum, commandNum, batches>>
  BY DEF Accept, ClientConnected, records
<1>2. CountTypeOK /\ LockInv /\ BatchInv
  BY DEF CountInv
<1>3. at' \in [Clients -> Places] /\ at'[c] = "read" /\ \A d \in Clients : d # c => at'[d] = at[d]
  BY <1>1, <1>2, MovesTo DEF Places
<1>4. CountTypeOK'
  BY <1>1, <1>2, <1>3, ConnectionAssumption DEF CountTypeOK
<1>5. LockInv'
  BY <1>1, <1>2, <1>3 DEF LockInv
<1>6. BatchInv'
  BY <1>1, <1>2, <1>3 DEF BatchInv, Sending
<1>7. ASSUME NEW a \in Addresses
      PROVE  connectNum'[a] = Cardinality({d \in From(a) : at'[d] # "new"})
  <2> DEFINE Old == {d \in From(a) : at[d] # "new"}
             New == {d \in From(a) : at'[d] # "new"}
  <2>1. IsFiniteSet(Old)
    BY ConnectionAssumption, FS_Subset DEF From
  <2>2. connectNum[a] = Cardinality(Old) /\ connectNum[a] \in Nat
    BY <1>2 DEF CountInv, RequestsCounted, CountTypeOK
  <2>3. CASE a = AddressOf[c]
    <3>1. New = Old \cup {c} /\ c \notin Old
      BY <1>1, <1>3, <2>3 DEF From
    <3>2. Cardinality(New) = Cardinality(Old) + 1
      <4> HIDE DEF New, Old
      <4> QED
        BY <2>1, <3>1, FS_AddElement
    <3>3. connectNum'[a] = connectNum[a] + 1
      BY <1>1, <1>2, <2>3 DEF CountTypeOK
    <3> QED
      BY <2>2, <3>2, <3>3
  <2>4. CASE a # AddressOf[c]
    <3>1. New = Old
      BY <1>3, <2>4 DEF From
    <3>2. connectNum'[a] = connectNum[a]
      BY <1>1, <1>2, <2>4 DEF CountTypeOK
    <3> QED
      BY <2>2, <3>1, <3>2
  <2> QED
    BY <2>3, <2>4
<1>8. RequestsCounted'
  <2> SUFFICES ASSUME NEW a \in Addresses
               PROVE  /\ requestNum'[a] = Total([d \in From(a) |-> batches'[d]])
                      /\ Total(commandNum'[a]) <= requestNum'[a]
                      /\ \A d \in From(a) : batches'[d] <= Len(handled'[d])
    BY <1>7 DEF RequestsCounted, From
  <2> QED
    BY <1>1 DEF CountInv, RequestsCounted
<1> QED
  BY <1>4, <1>5, <1>6, <1>8 DEF CountInv

LEMMA BeginCounts ==
  ASSUME CountInv, NEW l \in Loops, NEW c \in Clients, CountBegin(l, c)
  PROVE  CountInv'
<1>1. /\ at[c] = "count" /\ Moves(c, "counting")
      /\ clientLock = None /\ clientLock' = c
      /\ seen' = [seen EXCEPT ![c] = requestNum[AddressOf[c]]]
      /\ UNCHANGED <<handled, lastType, requestNum, connectNum, commandNum, batches>>
  BY DEF CountBegin, Busy, LockFree, rest
<1>2. CountTypeOK /\ LockInv /\ BatchInv
  BY DEF CountInv
<1>3. at' \in [Clients -> Places] /\ at'[c] = "counting" /\ \A d \in Clients : d # c => at'[d] = at[d]
  BY <1>1, <1>2, MovesTo DEF Places
<1>4. CountTypeOK'
  BY <1>1, <1>2, <1>3, ConnectionAssumption DEF CountTypeOK
<1>5. LockInv'
  <2>1. \A d \in Clients : at[d] # "counting"
    BY <1>1, <1>2, ConnectionAssumption DEF LockInv
  <2> QED
    BY <1>1, <1>2, <1>3, <2>1 DEF LockInv, CountTypeOK
<1>6. BatchInv'
  BY <1>1, <1>2, <1>3 DEF BatchInv, Sending
<1>7. RequestsCounted'
  <2> SUFFICES ASSUME NEW a \in Addresses
               PROVE  /\ requestNum'[a] = Total([d \in From(a) |-> batches'[d]])
                      /\ connectNum'[a] = Cardinality({d \in From(a) : at'[d] # "new"})
                      /\ Total(commandNum'[a]) <= requestNum'[a]
                      /\ \A d \in From(a) : batches'[d] <= Len(handled'[d])
    BY DEF RequestsCounted, From
  <2>1. {d \in From(a) : at'[d] # "new"} = {d \in From(a) : at[d] # "new"}
    BY <1>1, <1>3 DEF From
  <2> QED
    BY <1>1, <2>1 DEF CountInv, RequestsCounted
<1> QED
  BY <1>4, <1>5, <1>6, <1>7 DEF CountInv

LEMMA EndCounts ==
  ASSUME CountInv, NEW l \in Loops, NEW c \in Clients, CountEnd(l, c)
  PROVE  CountInv'
<1> DEFINE home == AddressOf[c]
<1>1. /\ at[c] = "counting" /\ Moves(c, "read") /\ AddCnt(c)
      /\ requestNum' = [requestNum EXCEPT ![home] = seen[c] + 1]
      /\ batches' = [batches EXCEPT ![c] = @ + 1]
      /\ seen' = [seen EXCEPT ![c] = 0]
      /\ lastType' = [lastType EXCEPT ![c] = NoType]
      /\ UNCHANGED <<handled, connectNum>>
  BY DEF CountEnd, Busy, rest
<1>2. CountTypeOK /\ LockInv /\ BatchInv
  BY DEF CountInv
<1>3. at' \in [Clients -> Places] /\ at'[c] = "read" /\ \A d \in Clients : d # c => at'[d] = at[d]
  BY <1>1, <1>2, MovesTo DEF Places
<1>4. clientLock = c /\ seen[c] = requestNum[home] /\ home \in Addresses /\ requestNum[home] \in Nat
  BY <1>1, <1>2, ConnectionAssumption DEF LockInv, CountTypeOK
<1>5. \A d \in Clients : d # c => at[d] # "counting"
  BY <1>2, <1>4 DEF LockInv
<1>6. /\ requestNum' \in [Addresses -> Nat] /\ requestNum'[home] = requestNum[home] + 1
      /\ \A a \in Addresses : a # home => requestNum'[a] = requestNum[a]
  BY <1>1, <1>2, <1>4 DEF CountTypeOK
<1>7. /\ batches' \in [Clients -> Nat] /\ batches'[c] = batches[c] + 1
      /\ \A d \in Clients : d # c => batches'[d] = batches[d]
  BY <1>1, <1>2 DEF CountTypeOK
<1>8. /\ commandNum' \in [Addresses -> [DOMAIN Commands -> Nat]]
      /\ \A a \in Addresses : a # home => commandNum'[a] = commandNum[a]
      /\ \/ commandNum'[home] = commandNum[home]
         \/ \E n \in DOMAIN Commands : commandNum'[home] = [commandNum[home] EXCEPT ![n] = commandNum[home][n] + 1]
  <2>1. CASE lastType[c] = NoType
    BY <1>1, <1>2, <2>1 DEF AddCnt, CountTypeOK
  <2>2. CASE lastType[c] # NoType
    <3>1. PICK n \in DOMAIN Commands : n = lastType[c]
      BY <1>2, <2>2 DEF CountTypeOK
    <3>2. PICK k : k = commandNum[home]
      OBVIOUS
    <3>3. k \in [DOMAIN Commands -> Nat] /\ [k EXCEPT ![n] = k[n] + 1] \in [DOMAIN Commands -> Nat]
      BY <1>2, <1>4, <3>2 DEF CountTypeOK
    <3>4. commandNum' = [commandNum EXCEPT ![home] = [k EXCEPT ![n] = k[n] + 1]]
      BY <1>1, <2>2, <3>1, <3>2 DEF AddCnt
    <3>5. commandNum'[home] = [k EXCEPT ![n] = k[n] + 1]
      BY <1>2, <1>4, <3>4 DEF CountTypeOK
    <3> QED
      BY <1>2, <1>4, <3>2, <3>3, <3>4, <3>5 DEF CountTypeOK
  <2> QED
    BY <2>1, <2>2
<1>9. CountTypeOK'
  BY <1>1, <1>2, <1>3, <1>6, <1>7, <1>8 DEF CountTypeOK
<1>10. LockInv'
  BY <1>3, <1>5 DEF LockInv
<1>11. BatchInv'
  <2>1. batches[c] < Len(handled[c]) /\ Len(handled[c]) \in Nat /\ batches[c] \in Nat
    BY <1>1, <1>2 DEF BatchInv, Sending, CountTypeOK
  <2>2. batches'[c] <= Len(handled'[c])
    BY <1>1, <1>7, <2>1
  <2> QED
    BY <1>1, <1>2, <1>3, <1>7, <2>2 DEF BatchInv, Sending
<1>12. ASSUME NEW a \in Addresses
       PROVE  /\ requestNum'[a] = Total([d \in From(a) |-> batches'[d]])
              /\ connectNum'[a] = Cardinality({d \in From(a) : at'[d] # "new"})
              /\ Total(commandNum'[a]) <= requestNum'[a]
  <2> DEFINE f == [d \in From(a) |-> batches[d]]
             g == [d \in From(a) |-> batches'[d]]
  <2>1. /\ requestNum[a] = Total(f) /\ Total(commandNum[a]) <= requestNum[a]
        /\ connectNum[a] = Cardinality({d \in From(a) : at[d] # "new"})
    BY DEF CountInv, RequestsCounted
  <2>2. {d \in From(a) : at'[d] # "new"} = {d \in From(a) : at[d] # "new"}
    BY <1>1, <1>3 DEF From
  <2>3. f \in [From(a) -> Nat] /\ IsFiniteSet(From(a)) /\ IsFiniteSet(DOMAIN Commands)
    BY <1>2, ConnectionAssumption, FS_Subset DEF From, CountTypeOK
  <2>4. connectNum'[a] = connectNum[a] /\ requestNum[a] \in Nat /\ commandNum[a] \in [DOMAIN Commands -> Nat]
    BY <1>1, <1>2 DEF CountTypeOK
  <2>5. CASE a = home
    <3>1. c \in From(a) /\ g = [f EXCEPT ![c] = f[c] + 1]
      BY <1>7, <2>5 DEF From
    <3>2. Total(g) = Total(f) + 1
      <4> HIDE DEF f, g
      <4> QED
        BY <2>3, <3>1, TotalBump
    <3>3. Total(commandNum'[a]) \in {Total(commandNum[a]), Total(commandNum[a]) + 1}
      <4>1. ASSUME NEW n \in DOMAIN Commands, commandNum'[a] = [commandNum[a] EXCEPT ![n] = commandNum[a][n] + 1]
            PROVE  Total(commandNum'[a]) = Total(commandNum[a]) + 1
        BY <2>3, <2>4, <4>1, TotalBump
      <4> QED
        BY <1>8, <2>5, <4>1
    <3>4. Total(commandNum[a]) \in Nat
      BY <2>3, <2>4, TotalTyping
    <3>5. requestNum'[a] = Total(g)
      <4> HIDE DEF f, g
      <4> QED
        BY <1>6, <2>1, <2>5, <3>2
    <3>6. Total(commandNum'[a]) <= requestNum'[a]
      BY <1>6, <2>1, <2>4, <2>5, <3>3, <3>4
    <3> QED
      BY <2>1, <2>2, <2>4, <3>5, <3>6
  <2>6. CASE a # home
    <3>1. g = f
      BY <1>7, <2>6 DEF From
    <3> HIDE DEF f, g
    <3> QED
      BY <1>6, <1>8, <2>1, <2>2, <2>4, <2>6, <3>1 DEF g
  <2> QED
    BY <2>5, <2>6
<1>13. RequestsCounted'
  BY <1>11, <1>12 DEF RequestsCounted, BatchInv, From
<1> QED
  BY <1>9, <1>10, <1>11, <1>13 DEF CountInv

LEMMA HandleCounts ==
  ASSUME CountInv, NEW l \in Loops, NEW c \in Clients, Handle(l, c)
  PROVE  CountInv'
<1> DEFINE name == request[c][1]
<1>1. /\ at[c] = "handle" /\ handled' = [handled EXCEPT ![c] = Append(@, request[c])]
      /\ lastType' = IF KindOf(name) = "unknown" THEN lastType ELSE [lastType EXCEPT ![c] = name]
      /\ UNCHANGED <<records, connectNum>>
      /\ CASE KindOf(name) \in {"replies", "unknown"} -> NextRequest(l, c)
           [] KindOf(name) = "refuses" -> Moves(c, "stuck") /\ Leaves(l) /\ UNCHANGED <<parsed, request, key>>
           [] KindOf(name) = "blocks"  -> Moves(c, "blocked") /\ UNCHANGED <<running, parsed, request, key>>
  BY DEF Handle, Busy, rest
<1>2. KindOf(name) \in {"replies", "refuses", "blocks", "unknown"}
      /\ (KindOf(name) # "unknown" => name \in DOMAIN Commands)
  BY ConnectionAssumption DEF KindOf
<1>3. lastType' \in [Clients -> DOMAIN Commands \cup {NoType}]
  <2>1. lastType \in [Clients -> DOMAIN Commands \cup {NoType}]
    BY DEF CountInv, CountTypeOK
  <2> QED
    BY <1>1, <1>2, <2>1
<1>4. \E to \in {"stuck", "blocked", "send", "closed", "read", "handle"} : Moves(c, to)
  <2>1. CASE KindOf(name) \in {"replies", "unknown"}
    <3>1. NextRequest(l, c)
      BY <1>1, <2>1
    <3> QED
      BY <3>1, ParsesTo DEF NextRequest
  <2>2. CASE KindOf(name) = "refuses"
    BY <1>1, <2>2
  <2>3. CASE KindOf(name) = "blocks"
    BY <1>1, <2>3
  <2> QED
    BY <1>2, <2>1, <2>2, <2>3
<1>5. PICK to \in {"stuck", "blocked", "send", "closed", "read", "handle"} : Moves(c, to)
  BY <1>4
<1>6. to \in Places \ {"new", "counting"}
  BY DEF Places
<1> QED
  BY <1>1, <1>3, <1>5, <1>6, HandleKept

LEMMA NothingCounted ==
  ASSUME CountInv, UNCHANGED <<at, handled, lastType, records, connectNum>>
  PROVE  CountInv'
<1>1. CountTypeOK
  BY DEF CountInv
<1>2. \A d \in Clients : Len(handled'[d]) >= Len(handled[d])
  BY <1>1 DEF CountTypeOK
<1> QED
  BY <1>1, <1>2, CountsKept DEF CountTypeOK

LEMMA CountStep == CountInv /\ [Next]_vars => CountInv'
<1> SUFFICES ASSUME CountInv, [Next]_vars
             PROVE  CountInv'
  OBVIOUS
<1>1. ASSUME NEW c \in Clients, Accept(c)
      PROVE  CountInv'
  BY <1>1, AcceptCounts
<1>2. ASSUME NEW c \in Clients, Hangup(c)
      PROVE  CountInv'
  BY <1>2, NothingCounted DEF Hangup, rest
<1>3. ASSUME NEW c \in Clients, NEW l \in Loops, Receive(l, c)
      PROVE  CountInv'
  <2>1. PICK to : Parses(l, c, parsed[c], to)
    BY <1>3 DEF Receive
  <2>2. PICK place \in {"closed", "read", "handle"} : Moves(c, place)
    BY <2>1, ParsesTo
  <2> QED
    BY <1>3, <2>2, StepKept DEF Receive, Idle, rest, Places, Sending
<1>4. ASSUME NEW c \in Clients, NEW l \in Loops, ReceiveEnd(l, c)
      PROVE  CountInv'
  BY <1>4, StepKept DEF ReceiveEnd, Idle, rest, Places, Sending
<1>5. ASSUME NEW c \in Clients, NEW l \in Loops, Handle(l, c)
      PROVE  CountInv'
  BY <1>5, HandleCounts
<1>6. ASSUME NEW c \in Clients, NEW l \in Loops, Send(l, c)
      PROVE  CountInv'
  <2>1. PICK to \in {"finish", "send"} : Moves(c, to)
    BY <1>6 DEF Send
  <2> QED
    BY <1>6, <2>1, StepKept DEF Send, Busy, rest, Places, Sending
<1>7. ASSUME NEW c \in Clients, NEW l \in Loops, SendAgain(l, c)
      PROVE  CountInv'
  BY <1>7, StepKept DEF SendAgain, Busy, rest, Places, Sending
<1>8. ASSUME NEW c \in Clients, NEW l \in Loops, SendFails(l, c)
      PROVE  CountInv'
  BY <1>8, StepKept DEF SendFails, Busy, rest, Places, Sending
<1>9. ASSUME NEW c \in Clients, NEW l \in Loops, Writable(l, c)
      PROVE  CountInv'
  BY <1>9, StepKept DEF Writable, Idle, rest, Places, Sending
<1>10. ASSUME NEW c \in Clients, NEW l \in Loops, RecordKey(l, c)
       PROVE  CountInv'
  <2>1. PICK to \in {"push", "count"} : Moves(c, to)
    BY <1>10 DEF RecordKey
  <2> QED
    BY <1>10, <2>1, StepKept DEF RecordKey, Busy, rest, Places, Sending
<1>11. ASSUME NEW c \in Clients, NEW l \in Loops, CountBegin(l, c)
       PROVE  CountInv'
  BY <1>11, BeginCounts
<1>12. ASSUME NEW c \in Clients, NEW l \in Loops, CountEnd(l, c)
       PROVE  CountInv'
  BY <1>12, EndCounts
<1>13. ASSUME Monitor
       PROVE  CountInv'
  BY <1>13, NothingCounted DEF Monitor, rest
<1>14. ASSUME UNCHANGED vars
       PROVE  CountInv'
  BY <1>14, NothingCounted DEF vars, rest
<1>15. ASSUME NEW c \in Clients, NEW l \in Loops, PushKey(l, c)
       PROVE  CountInv'
  BY <1>15, StepKept DEF PushKey, Busy, rest, Places, Sending
<1> QED
  BY <1>1, <1>2, <1>3, <1>4, <1>5, <1>6, <1>7, <1>8, <1>9, <1>10, <1>11, <1>12, <1>13, <1>14, <1>15
     DEF Next, Activity, Serve

\* The inductive invariant behind RequestsCounted: the mutex of the records, and a batch
\* that is counted only after the last of its requests (replyClientFinished).
THEOREM CountInvariant == Spec => []CountInv
<1>1. CountInv /\ [Next]_vars => CountInv'
  BY CountStep
<1> QED
  BY <1>1, CountStart, PTL DEF Spec

\* Requests, connections and commands are counted without loss while any number of loops
\* count for one address (CProxyMonitor::replyClientFinished under m_clientLock).
THEOREM NoneUncounted == Spec => []RequestsCounted
<1>1. CountInv => RequestsCounted
  BY DEF CountInv
<1> QED
  BY <1>1, CountInvariant, PTL

-----------------------------------------------------------------------------
(* Sequences put together from parts *)

IsJoin(u, s, t) ==
  /\ Len(s) \in Nat /\ Len(t) \in Nat /\ Len(u) = Len(s) + Len(t)
  /\ \A x \in 1..Len(s) : u[x] = s[x]
  /\ \A x \in 1..Len(t) : u[Len(s) + x] = t[x]

LEMMA Joined ==
  ASSUME NEW A, NEW s \in Seq(A), NEW t \in Seq(A)
  PROVE  s \o t \in Seq(A) /\ IsJoin(s \o t, s, t)
<1>1. Len(s) \in Nat /\ Len(t) \in Nat
  BY LenProperties
<1>2. /\ s \o t \in Seq(A) /\ Len(s \o t) = Len(s) + Len(t)
      /\ \A x \in 1..Len(s) + Len(t) : (s \o t)[x] = IF x <= Len(s) THEN s[x] ELSE t[x - Len(s)]
  BY ConcatProperties
<1> DEFINE m == Len(s)
           k == Len(t)
           u == s \o t
<1>3. \A x \in 1..m : u[x] = s[x]
  <2> HIDE DEF u
  <2> QED
    BY <1>1, <1>2 DEF u
<1>4. \A x \in 1..k : u[m + x] = t[x]
  <2> TAKE x \in 1..k
  <2>1. m + x \in 1..m + k /\ ~(m + x <= m) /\ m + x - m = x
    BY <1>1
  <2>2. u[m + x] = IF m + x <= m THEN s[m + x] ELSE t[m + x - m]
    BY <1>2, <2>1
  <2> QED
    BY <2>1, <2>2
<1> QED
  BY <1>1, <1>2, <1>3, <1>4 DEF IsJoin

\* F[i] is what the first i of n parts make.
Chain(F, p, n, A) ==
  /\ F[0] = <<>>
  /\ \A i \in 0..n : F[i] \in Seq(A)
  /\ \A i \in 1..n : p[i] \in Seq(A) /\ F[i] = F[i - 1] \o p[i]

ConcatFold(h, p, n) ==
  h = [T \in SUBSET (1..n) |-> IF T = {} THEN <<>> ELSE h[T \ {Max(T)}] \o p[Max(T)]]

LEMMA ConcatExists ==
  ASSUME NEW n \in Nat, NEW A, NEW p, \A i \in 1..n : p[i] \in Seq(A)
  PROVE  \E h : ConcatFold(h, p, n)
<1> DEFINE D == 1..n
           V == Seq(A)
           st == [x \in D \X V |-> x[2] \o p[x[1]]]
<1>1. \A i \in D, v \in V : st[<<i, v>>] = v \o p[i]
  <2> TAKE i \in D, v \in V
  <2>1. <<i, v>> \in D \X V
    OBVIOUS
  <2>2. st[<<i, v>>] = <<i, v>>[2] \o p[<<i, v>>[1]]
    <3> HIDE DEF D, V
    <3> QED
      BY <2>1
  <2> QED
    BY <2>2
<1>2. \A i \in D, v \in V : st[<<i, v>>] \in V
  <2> TAKE i \in D, v \in V
  <2>1. v \o p[i] \in Seq(A)
    BY Joined
  <2> HIDE DEF st
  <2> QED
    BY <1>1, <2>1
<1>3. <<>> \in V
  BY EmptySeq
<1>4. PICK g : IsLeftFold(g, n, V, <<>>, st)
  <2> DEFINE b == <<>>
  <2>1. b \in V
    BY <1>3
  <2> HIDE DEF st, V, b
  <2>2. \E g : IsLeftFold(g, n, V, b, st)
    BY <1>2, <2>1, LeftFoldExists
  <2> QED
    BY <2>2 DEF b
<1>5. \A T \in SUBSET D : T # {} => g[T] = g[T \ {Max(T)}] \o p[Max(T)]
  <2> SUFFICES ASSUME NEW T \in SUBSET D, T # {}
               PROVE  g[T] = g[T \ {Max(T)}] \o p[Max(T)]
    OBVIOUS
  <2>1. Max(T) \in D
    BY LargestOf
  <2>2. T \ {Max(T)} \in SUBSET D
    OBVIOUS
  <2> HIDE DEF st, V
  <2>3. g[T \ {Max(T)}] \in V /\ g[T] = st[<<Max(T), g[T \ {Max(T)}]>>]
    BY <1>4, <2>2 DEF IsLeftFold
  <2> HIDE DEF D
  <2> QED
    BY <1>1, <2>1, <2>3
<1>6. g = [T \in SUBSET D |-> IF T = {} THEN <<>> ELSE g[T \ {Max(T)}] \o p[Max(T)]]
  <2> HIDE DEF st, V
  <2>1. g \in [SUBSET D -> V] /\ g[{}] = <<>>
    BY <1>4 DEF IsLeftFold
  <2> HIDE DEF D
  <2> QED
    BY <1>5, <2>1
<1> QED
  BY <1>6 DEF ConcatFold

LEMMA ConcatChain ==
  ASSUME NEW n \in Nat, NEW A, NEW p, \A i \in 1..n : p[i] \in Seq(A), NEW h, ConcatFold(h, p, n)
  PROVE  \E F : Chain(F, p, n, A) /\ F[n] = h[1..n]
<1> DEFINE F == [i \in 0..n |-> h[1..i]]
<1>1. F[0] = <<>>
  <2>1. 1..0 = {} /\ 1..0 \in SUBSET (1..n) /\ 0 \in 0..n
    OBVIOUS
  <2> QED
    BY <2>1 DEF ConcatFold
<1>2. ASSUME NEW i \in 1..n
      PROVE  F[i] = F[i - 1] \o p[i]
  <2>1. /\ 1..i \in SUBSET (1..n) /\ 1..i # {}
        /\ Max(1..i) = i /\ (1..i) \ {i} = 1..i - 1
    BY LargestUpTo
  <2>3. h[1..i] = h[1..i - 1] \o p[i]
    <3> HIDE DEF F
    <3> QED
      BY <2>1 DEF ConcatFold
  <2>4. i \in 0..n /\ i - 1 \in 0..n
    OBVIOUS
  <2> QED
    BY <2>3, <2>4
<1>3. F[n] = h[1..n]
  <2>1. n \in 0..n
    OBVIOUS
  <2> QED
    BY <2>1
<1> HIDE DEF F
<1> DEFINE Good == {i \in 0..n : F[i] \in Seq(A)}
<1>4. \A i \in 0..n : i \in Good
  <2>1. 0 \in Good
    <3>1. F[0] \in Seq(A)
      BY <1>1, EmptySeq
    <3> QED
      BY <3>1
  <2>2. ASSUME NEW i \in 1..n, i - 1 \in Good
        PROVE  i \in Good
    <3>1. F[i - 1] \in Seq(A) /\ p[i] \in Seq(A) /\ i \in 0..n
      BY <2>2
    <3>2. F[i] \in Seq(A)
      BY <1>2, <3>1, Joined
    <3> QED
      BY <3>1, <3>2
  <2> HIDE DEF Good
  <2> QED
    BY <2>1, <2>2, UpTo
<1> QED
  BY <1>1, <1>2, <1>3, <1>4 DEF Chain

\* Chains of the same parts are the same as far as both go.
LEMMA ChainsAgree ==
  ASSUME NEW A, NEW n \in Nat, NEW p, NEW F, Chain(F, p, n, A),
         NEW m \in 0..n, NEW q, NEW G, Chain(G, q, m, A), \A i \in 1..m : q[i] = p[i]
  PROVE  \A i \in 0..m : G[i] = F[i]
<1> DEFINE Good == {i \in 0..m : G[i] = F[i]}
<1>1. 0 \in Good
  <2>1. F[0] = <<>> /\ G[0] = <<>>
    BY DEF Chain
  <2> QED
    BY <2>1
<1>2. ASSUME NEW i \in 1..m, i - 1 \in Good
      PROVE  i \in Good
  <2>1. i \in 1..n /\ i \in 0..m
    OBVIOUS
  <2>2. F[i] = F[i - 1] \o p[i] /\ G[i] = G[i - 1] \o q[i]
    BY <2>1 DEF Chain
  <2> QED
    BY <1>2, <2>1, <2>2
<1>3. m \in Nat
  OBVIOUS
<1>4. \A i \in 0..m : i \in Good
  <2> HIDE DEF Good
  <2> QED
    BY <1>1, <1>2, <1>3, UpTo
<1> QED
  BY <1>4

\* What the later parts add is behind the earlier ones.
Begins(s, t) == Len(s) <= Len(t) /\ \A x \in 1..Len(s) : t[x] = s[x]

LEMMA JoinBegins ==
  ASSUME NEW u, NEW s, NEW t, IsJoin(u, s, t)
  PROVE  Begins(s, u)
BY DEF IsJoin, Begins

LEMMA ChainGrows ==
  ASSUME NEW A, NEW n \in Nat, NEW p, NEW F, Chain(F, p, n, A), NEW k \in 0..n
  PROVE  \A j \in k..n : Begins(F[k], F[j])
<1> DEFINE Good == {j \in 0..n : j >= k => Begins(F[k], F[j])}
<1>0. \A j \in 0..n : F[j] \in Seq(A) /\ Len(F[j]) \in Nat
  <2> TAKE j \in 0..n
  <2>1. F[j] \in Seq(A)
    BY DEF Chain
  <2> QED
    BY <2>1, LenProperties
<1>a. Begins(F[k], F[k])
  BY <1>0 DEF Begins
<1>1. 0 \in Good
  <2>1. 0 >= k => k = 0
    OBVIOUS
  <2> QED
    BY <1>a, <2>1
<1>2. ASSUME NEW j \in 1..n, j - 1 \in Good
      PROVE  j \in Good
  <2>1. F[j] = F[j - 1] \o p[j] /\ p[j] \in Seq(A)
    BY DEF Chain
  <2>2. j - 1 \in 0..n /\ j \in 0..n /\ F[j - 1] \in Seq(A)
    BY <1>0
  <2>a. Len(F[j - 1]) \in Nat /\ Len(F[j]) \in Nat /\ Len(F[k]) \in Nat
    BY <1>0, <2>2
  <2>b. IsJoin(F[j], F[j - 1], p[j])
    BY <2>1, <2>2, Joined
  <2>3. Begins(F[j - 1], F[j])
    BY <2>b, JoinBegins
  <2>4. CASE j > k
    <3>1. Begins(F[k], F[j - 1])
      BY <1>2, <2>4
    <3>2. Begins(F[k], F[j])
      BY <2>3, <2>a, <3>1 DEF Begins
    <3> QED
      BY <2>2, <3>2
  <2>5. CASE j = k
    BY <1>a, <2>2, <2>5
  <2>6. CASE j < k
    BY <2>2, <2>6
  <2> QED
    BY <2>4, <2>5, <2>6
<1>3. \A j \in 0..n : j \in Good
  <2> HIDE DEF Good
  <2> QED
    BY <1>1, <1>2, UpTo
<1> QED
  BY <1>3

\* Where the i-th part is in what all of them make.
PartIn(u, F, p, i) ==
  /\ Len(F[i]) = Len(F[i - 1]) + Len(p[i]) /\ Len(F[i - 1]) \in Nat /\ Len(F[i]) <= Len(u)
  /\ Len(p[i]) \in Nat /\ Len(u) \in Nat
  /\ \A x \in 1..Len(p[i]) : u[Len(F[i - 1]) + x] = p[i][x]

LEMMA PartAt ==
  ASSUME NEW A, NEW n \in Nat, NEW p, NEW F, Chain(F, p, n, A), NEW i \in 1..n
  PROVE  F[n] \in Seq(A) /\ PartIn(F[n], F, p, i)
<1>0. i \in 0..n /\ i - 1 \in 0..n /\ n \in 0..n /\ n \in i..n
  OBVIOUS
<1>1. F[i] = F[i - 1] \o p[i] /\ F[i - 1] \in Seq(A) /\ p[i] \in Seq(A) /\ F[n] \in Seq(A)
  BY <1>0 DEF Chain
<1>a. IsJoin(F[i], F[i - 1], p[i])
  BY <1>1, Joined
<1>2. /\ Len(F[i]) = Len(F[i - 1]) + Len(p[i]) /\ Len(F[i - 1]) \in Nat /\ Len(p[i]) \in Nat
      /\ \A x \in 1..Len(p[i]) : F[i][Len(F[i - 1]) + x] = p[i][x]
  BY <1>a DEF IsJoin
<1>3. Begins(F[i], F[n])
  BY <1>0, ChainGrows
<1>4. Len(F[n]) \in Nat
  BY <1>1, LenProperties
<1>5. Len(F[i]) <= Len(F[n])
  BY <1>3 DEF Begins
<1> DEFINE a == Len(F[i - 1])
           b == Len(p[i])
<1>6. \A x \in 1..b : a + x \in 1..Len(F[i])
  <2>1. a \in Nat /\ b \in Nat /\ Len(F[i]) = a + b
    BY <1>2
  <2> HIDE DEF a, b
  <2> QED
    BY <2>1
<1>7. \A x \in 1..Len(F[i]) : F[n][x] = F[i][x]
  BY <1>3 DEF Begins
<1>8. \A x \in 1..Len(p[i]) : F[n][Len(F[i - 1]) + x] = p[i][x]
  BY <1>2, <1>6, <1>7
<1> QED
  BY <1>1, <1>2, <1>4, <1>5, <1>8 DEF PartIn

-----------------------------------------------------------------------------
(* What clients send *)

Letters == STRING \cup Range(Digits) \cup {"CR", "LF", "*", "$"}

LEMMA DigitIs ==
  ASSUME NEW n \in 0..9
  PROVE  /\ Digit(n) \in Letters /\ Digit(n) # "CR" /\ Digit(n) \in Range(Digits)
         /\ Digit(n) # "minus" /\ Digit(n) # "plus"
<1>a. DOMAIN Digits = 1..10
  BY DEF Digits
<1>1. n + 1 \in 1..10
  OBVIOUS
<1>2. Digit(n) \in Range(Digits)
  BY <1>1, <1>a DEF Digit, Range
<1>3. \A i \in 1..10 : Digits[i] \notin {"CR", "minus", "plus"}
  BY DEF Digits
<1> QED
  BY <1>1, <1>2, <1>3 DEF Digit, Letters

LEMMA ValueOfDigit ==
  ASSUME NEW n \in 0..9
  PROVE  ValueOf(Digit(n)) = n
<1>1. \A i \in 0..9, j \in 0..9 : Digit(i) = Digit(j) => i = j
  BY DEF Digit, Digits
<1>2. ValueOf(Digit(n)) \in 0..9 /\ Digit(ValueOf(Digit(n))) = Digit(n)
  <2>1. \E m \in 0..9 : Digit(m) = Digit(n)
    OBVIOUS
  <2> QED
    BY <2>1, Zenon DEF ValueOf
<1> QED
  BY <1>1, <1>2

\* One digit read as a number.
NumberStep(n, b) ==
  CASE b \in Range(Digits) -> [n EXCEPT !.value = @ * 10 + ValueOf(b)]
    [] b = "minus"         -> [n EXCEPT !.sign = -1]
    [] b = "plus"          -> [n EXCEPT !.sign = 1]

NumberFold(text) ==
  CHOOSE h : h = [T \in SUBSET DOMAIN text |->
                    IF T = {} THEN [sign |-> 1, value |-> 0]
                    ELSE NumberStep(h[T \ {Max(T)}], text[Max(T)])]

LEMMA NumberIs ==
  ASSUME NEW text
  PROVE  NumberOf(text) = NumberFold(text)[DOMAIN text].sign * NumberFold(text)[DOMAIN text].value
BY DEF NumberOf, FoldLeft, MapThenFoldSet, NumberFold, NumberStep

LEMMA OneDigit ==
  ASSUME NEW d \in 0..9
  PROVE  NumberOf(<<Digit(d)>>) = d
<1> DEFINE text == <<Digit(d)>>
           zero == [sign |-> 1, value |-> 0]
           g == [T \in SUBSET {1} |-> IF T = {} THEN zero ELSE NumberStep(zero, text[1])]
           h == NumberFold(text)
<1>1. DOMAIN text = {1} /\ text[1] = Digit(d)
  OBVIOUS
<1>2. Max({1}) = 1
  <2>1. 1 \in Nat /\ {1} \in SUBSET (1..1) /\ {1} # {}
    OBVIOUS
  <2>2. Max({1}) \in {1}
    BY <2>1, LargestOf
  <2> QED
    BY <2>2
<1>3. \A T \in SUBSET {1} : T = {} \/ T = {1}
  OBVIOUS
<1>4. g = [T \in SUBSET {1} |-> IF T = {} THEN zero ELSE NumberStep(g[T \ {Max(T)}], text[Max(T)])]
  <2>1. g[{}] = zero /\ {1} \ {1} = {} /\ {} \in SUBSET {1}
    OBVIOUS
  <2>2. \A T \in SUBSET {1} : T # {} => T = {1} /\ g[T \ {Max(T)}] = zero /\ Max(T) = 1
    BY <1>2, <1>3, <2>1
  <2>3. \A T \in SUBSET {1} : T # {} => g[T] = NumberStep(g[T \ {Max(T)}], text[Max(T)])
    <3> HIDE DEF text, zero
    <3> QED
      BY <2>2
  <2> HIDE DEF text, zero
  <2>4. g[{}] = zero
    BY <2>1
  <2> DEFINE k == g
  <2>5. k = [T \in SUBSET {1} |-> k[T]]
    OBVIOUS
  <2> HIDE DEF k
  <2> QED
    BY <2>3, <2>4, <2>5 DEF k
<1>5. h = [T \in SUBSET {1} |-> IF T = {} THEN zero ELSE NumberStep(h[T \ {Max(T)}], text[Max(T)])]
  <2> HIDE DEF g
  <2> QED
    BY <1>1, <1>4, Zenon DEF NumberFold
<1>6. h[{1}] = NumberStep(zero, Digit(d))
  <2> HIDE DEF zero, text, h
  <2>1. h[{}] = zero
    BY <1>5
  <2>2. h[{1}] = NumberStep(h[{}], text[1])
    BY <1>2, <1>5
  <2> QED
    BY <1>1, <2>1, <2>2
<1>7. NumberStep(zero, Digit(d)) = [sign |-> 1, value |-> d]
  <2>1. NumberStep(zero, Digit(d)) = [zero EXCEPT !.value = @ * 10 + ValueOf(Digit(d))]
    BY DigitIs DEF NumberStep
  <2> QED
    BY <2>1, ValueOfDigit
<1> HIDE DEF text, h
<1>8. h[{1}].sign = 1 /\ h[{1}].value = d
  BY <1>6, <1>7
<1>9. NumberOf(text) = h[{1}].sign * h[{1}].value
  BY <1>1, NumberIs DEF h
<1> QED
  BY <1>8, <1>9 DEF text

TokenOK(t)    == t \in Seq(STRING) /\ Len(t) \in 0..9
RequestOK(ts) == /\ ts \in Seq(Seq(STRING)) /\ DOMAIN ts = 1..Len(ts) /\ Len(ts) \in 1..9
                 /\ \A i \in 1..Len(ts) : TokenOK(ts[i])

\* The bytes of a token, one by one.
EncodedAs(s, t) ==
  LET n == Len(t)
  IN /\ s \in Seq(Letters) /\ Len(s) = n + 6
     /\ s[1] = "$" /\ s[2] = Digit(n) /\ s[3] = "CR" /\ s[4] = "LF"
     /\ \A x \in 1..n : s[4 + x] = t[x]
     /\ s[n + 5] = "CR" /\ s[n + 6] = "LF"

LEMMA EncodedIs ==
  ASSUME NEW t, TokenOK(t)
  PROVE  EncodedAs(Encoded(t), t)
<1> DEFINE n == Len(t)
           a == <<"$", Digit(n)>>
           b == a \o CRLF
           d == b \o t
           e == d \o CRLF
<1>0. n \in 0..9 /\ t \in Seq(Letters)
  BY DEF TokenOK, Letters
<1>1. CRLF \in Seq(Letters) /\ Len(CRLF) = 2 /\ CRLF[1] = "CR" /\ CRLF[2] = "LF"
  BY DEF CRLF, Letters
<1>2. a \in Seq(Letters) /\ Len(a) = 2 /\ a[1] = "$" /\ a[2] = Digit(n)
  <2>1. "$" \in Letters /\ Digit(n) \in Letters
    BY <1>0, DigitIs DEF Letters
  <2> QED
    BY <2>1
<1>3. b \in Seq(Letters) /\ IsJoin(b, a, CRLF)
  <2> HIDE DEF a
  <2> QED
    BY <1>1, <1>2, Joined
<1>4. d \in Seq(Letters) /\ IsJoin(d, b, t)
  <2> HIDE DEF b
  <2> QED
    BY <1>0, <1>3, Joined
<1>5. e \in Seq(Letters) /\ IsJoin(e, d, CRLF)
  <2> HIDE DEF d
  <2> QED
    BY <1>1, <1>4, Joined
<1> HIDE DEF a, b, d
<1>6. Len(b) = 4 /\ b[1] = "$" /\ b[2] = Digit(n) /\ b[3] = "CR" /\ b[4] = "LF"
  BY <1>1, <1>2, <1>3 DEF IsJoin
<1>7. /\ Len(d) = 4 + n /\ d[1] = "$" /\ d[2] = Digit(n) /\ d[3] = "CR" /\ d[4] = "LF"
      /\ \A x \in 1..n : d[4 + x] = t[x]
  BY <1>0, <1>4, <1>6 DEF IsJoin
<1>8. /\ Len(e) = n + 6 /\ e[1] = "$" /\ e[2] = Digit(n) /\ e[3] = "CR" /\ e[4] = "LF"
      /\ e[n + 5] = "CR" /\ e[n + 6] = "LF"
  <2> HIDE DEF e, n
  <2>1. Len(e) = n + 6 /\ \A x \in 1..4 + n : e[x] = d[x]
    BY <1>0, <1>1, <1>5, <1>7 DEF IsJoin
  <2>2. 1 \in 1..4 + n /\ 2 \in 1..4 + n /\ 3 \in 1..4 + n /\ 4 \in 1..4 + n
    BY <1>0
  <2>3. e[4 + n + 1] = "CR" /\ e[4 + n + 2] = "LF"
    BY <1>1, <1>5, <1>7 DEF IsJoin
  <2>4. 4 + n + 1 = n + 5 /\ 4 + n + 2 = n + 6
    BY <1>0
  <2> QED
    BY <1>7, <2>1, <2>2, <2>3, <2>4
<1>9. \A x \in 1..n : e[4 + x] = t[x]
  <2> HIDE DEF e, n
  <2> TAKE x \in 1..n
  <2>1. 4 + x \in 1..Len(d)
    BY <1>0, <1>7
  <2>2. e[4 + x] = d[4 + x]
    BY <1>5, <2>1 DEF IsJoin
  <2> QED
    BY <1>7, <2>2
<1>10. e = Encoded(t)
  BY DEF e, d, b, a, Encoded
<1> HIDE DEF e
<1> QED
  BY <1>5, <1>8, <1>9, <1>10 DEF EncodedAs

\* A request is put together from its tokens.
Body(ts) == FoldLeft(LAMBDA s, t : s \o Encoded(t), <<>>, ts)
BodyParts(ts) == [i \in 1..Len(ts) |-> Encoded(ts[i])]

BodyFold(ts) ==
  CHOOSE h : h = [T \in SUBSET DOMAIN ts |->
                    IF T = {} THEN <<>> ELSE h[T \ {Max(T)}] \o Encoded(ts[Max(T)])]

LEMMA BodyIs ==
  ASSUME NEW ts
  PROVE  Body(ts) = BodyFold(ts)[DOMAIN ts]
BY DEF Body, FoldLeft, MapThenFoldSet, BodyFold

LEMMA BodyChain ==
  ASSUME NEW ts, RequestOK(ts)
  PROVE  \E F : Chain(F, BodyParts(ts), Len(ts), Letters) /\ F[Len(ts)] = Body(ts)
<1> DEFINE n == Len(ts)
           p == BodyParts(ts)
<1>1. n \in Nat /\ DOMAIN ts = 1..n
  BY DEF RequestOK
<1>2. \A i \in 1..n : p[i] = Encoded(ts[i])
  BY DEF BodyParts
<1>3. \A i \in 1..n : p[i] \in Seq(Letters)
  BY <1>2, EncodedIs DEF RequestOK, EncodedAs
<1> HIDE DEF n, p
<1>4. PICK g : ConcatFold(g, p, n)
  BY <1>1, <1>3, ConcatExists
<1>5. \A T \in SUBSET (1..n) : T # {} => p[Max(T)] = Encoded(ts[Max(T)])
  BY <1>1, <1>2, LargestOf
<1>6. \A h : ConcatFold(h, p, n) <=>
             h = [T \in SUBSET DOMAIN ts |->
                    IF T = {} THEN <<>> ELSE h[T \ {Max(T)}] \o Encoded(ts[Max(T)])]
  <2> TAKE h
  <2>1. [T \in SUBSET (1..n) |-> IF T = {} THEN <<>> ELSE h[T \ {Max(T)}] \o p[Max(T)]]
        = [T \in SUBSET DOMAIN ts |->
                    IF T = {} THEN <<>> ELSE h[T \ {Max(T)}] \o Encoded(ts[Max(T)])]
    BY <1>1, <1>5
  <2> QED
    BY <2>1 DEF ConcatFold
<1>7. ConcatFold(BodyFold(ts), p, n)
  <2>1. \E h : h = [T \in SUBSET DOMAIN ts |->
                    IF T = {} THEN <<>> ELSE h[T \ {Max(T)}] \o Encoded(ts[Max(T)])]
    BY <1>4, <1>6, Zenon
  <2>2. BodyFold(ts) = [T \in SUBSET DOMAIN ts |->
                    IF T = {} THEN <<>> ELSE BodyFold(ts)[T \ {Max(T)}] \o Encoded(ts[Max(T)])]
    BY <2>1, Zenon DEF BodyFold
  <2> QED
    BY <1>6, <2>2, Zenon
<1>8. PICK F : Chain(F, p, n, Letters) /\ F[n] = BodyFold(ts)[1..n]
  <2> DEFINE h == BodyFold(ts)
  <2>1. ConcatFold(h, p, n)
    BY <1>7
  <2> HIDE DEF h
  <2>2. \E F : Chain(F, p, n, Letters) /\ F[n] = h[1..n]
    BY <1>1, <1>3, <2>1, ConcatChain
  <2> QED
    BY <2>2 DEF h
<1> QED
  BY <1>1, <1>8, BodyIs DEF n, p

RequestAs(s, ts) ==
  LET b == Body(ts)
  IN /\ b \in Seq(Letters) /\ Len(b) \in Nat
     /\ s \in Seq(Letters) /\ Len(s) = Len(b) + 4
     /\ s[1] = "*" /\ s[2] = Digit(Len(ts)) /\ s[3] = "CR" /\ s[4] = "LF"
     /\ \A x \in 1..Len(b) : s[4 + x] = b[x]

LEMMA RequestIs ==
  ASSUME NEW ts, RequestOK(ts)
  PROVE  RequestAs(Request(ts), ts)
<1> DEFINE n == Len(ts)
           a == <<"*", Digit(n)>>
           b == a \o CRLF
           d == Body(ts)
           e == b \o d
<1>0. n \in 0..9
  <2>1. Len(ts) \in 1..9
    BY DEF RequestOK
  <2> QED
    BY <2>1
<1>1. CRLF \in Seq(Letters) /\ Len(CRLF) = 2 /\ CRLF[1] = "CR" /\ CRLF[2] = "LF"
  BY DEF CRLF, Letters
<1>2. a \in Seq(Letters) /\ Len(a) = 2 /\ a[1] = "*" /\ a[2] = Digit(n)
  <2>1. "*" \in Letters /\ Digit(n) \in Letters
    BY <1>0, DigitIs DEF Letters
  <2> QED
    BY <2>1
<1>3. b \in Seq(Letters) /\ IsJoin(b, a, CRLF)
  <2> HIDE DEF a
  <2> QED
    BY <1>1, <1>2, Joined
<1>4. d \in Seq(Letters)
  <2>1. PICK F : Chain(F, BodyParts(ts), n, Letters) /\ F[n] = d
    BY BodyChain
  <2>2. n \in 0..n
    BY <1>0
  <2> HIDE DEF n, d
  <2> QED
    BY <2>1, <2>2 DEF Chain
<1>5. e \in Seq(Letters) /\ IsJoin(e, b, d)
  <2> HIDE DEF b, d
  <2> QED
    BY <1>3, <1>4, Joined
<1>6. e = Request(ts)
  BY DEF e, d, b, a, Request, Body
<1> HIDE DEF a, b, d, e
<1>7. Len(b) = 4 /\ b[1] = "*" /\ b[2] = Digit(n) /\ b[3] = "CR" /\ b[4] = "LF"
  BY <1>1, <1>2, <1>3 DEF IsJoin
<1>8. /\ Len(d) \in Nat /\ Len(e) = Len(d) + 4
      /\ e[1] = "*" /\ e[2] = Digit(n) /\ e[3] = "CR" /\ e[4] = "LF"
      /\ \A x \in 1..Len(d) : e[4 + x] = d[x]
  BY <1>5, <1>7 DEF IsJoin
<1> QED
  BY <1>4, <1>5, <1>6, <1>8 DEF RequestAs, d, n

\* What a client sends is put together from its requests.
ScriptOK(sc) == sc \in Seq(Range(sc)) /\ \A i \in 1..Len(sc) : RequestOK(sc[i])

StreamParts(sc) == [i \in 1..Len(sc) |-> Request(sc[i])]

StreamFold(sc) ==
  CHOOSE h : h = [T \in SUBSET DOMAIN sc |->
                    IF T = {} THEN <<>> ELSE h[T \ {Max(T)}] \o Request(sc[Max(T)])]

LEMMA StreamFolds ==
  ASSUME NEW sc
  PROVE  Stream(sc) = StreamFold(sc)[DOMAIN sc]
BY DEF Stream, FoldLeft, MapThenFoldSet, StreamFold

LEMMA StreamChain ==
  ASSUME NEW sc, ScriptOK(sc)
  PROVE  \E F : Chain(F, StreamParts(sc), Len(sc), Letters) /\ F[Len(sc)] = Stream(sc)
<1> DEFINE n == Len(sc)
           p == StreamParts(sc)
<1>1. n \in Nat /\ DOMAIN sc = 1..n
  BY LenProperties DEF ScriptOK
<1>2. \A i \in 1..n : p[i] = Request(sc[i])
  BY DEF StreamParts
<1>3. \A i \in 1..n : p[i] \in Seq(Letters)
  BY <1>2, RequestIs DEF ScriptOK, RequestAs
<1> HIDE DEF n, p
<1>4. PICK g : ConcatFold(g, p, n)
  BY <1>1, <1>3, ConcatExists
<1>5. \A T \in SUBSET (1..n) : T # {} => p[Max(T)] = Request(sc[Max(T)])
  BY <1>1, <1>2, LargestOf
<1>6. \A h : ConcatFold(h, p, n) <=>
             h = [T \in SUBSET DOMAIN sc |->
                    IF T = {} THEN <<>> ELSE h[T \ {Max(T)}] \o Request(sc[Max(T)])]
  <2> TAKE h
  <2>1. [T \in SUBSET (1..n) |-> IF T = {} THEN <<>> ELSE h[T \ {Max(T)}] \o p[Max(T)]]
        = [T \in SUBSET DOMAIN sc |->
                    IF T = {} THEN <<>> ELSE h[T \ {Max(T)}] \o Request(sc[Max(T)])]
    BY <1>1, <1>5
  <2> QED
    BY <2>1 DEF ConcatFold
<1> DEFINE h == StreamFold(sc)
<1>7. ConcatFold(h, p, n)
  <2>1. \E f : f = [T \in SUBSET DOMAIN sc |->
                    IF T = {} THEN <<>> ELSE f[T \ {Max(T)}] \o Request(sc[Max(T)])]
    BY <1>4, <1>6, Zenon
  <2>2. h = [T \in SUBSET DOMAIN sc |->
                    IF T = {} THEN <<>> ELSE h[T \ {Max(T)}] \o Request(sc[Max(T)])]
    BY <2>1, Zenon DEF StreamFold
  <2> HIDE DEF h
  <2> QED
    BY <1>6, <2>2, Zenon
<1>8. Stream(sc) = h[1..n]
  BY <1>1, StreamFolds
<1> HIDE DEF h
<1>9. \E F : Chain(F, p, n, Letters) /\ F[n] = h[1..n]
  BY <1>1, <1>3, <1>7, ConcatChain
<1> QED
  BY <1>8, <1>9 DEF n, p

LEMMA FirstOnes ==
  ASSUME NEW sc, ScriptOK(sc), NEW k \in 0..Len(sc)
  PROVE  /\ ScriptOK(SubSeq(sc, 1, k)) /\ Len(SubSeq(sc, 1, k)) = k
         /\ \A i \in 1..k : SubSeq(sc, 1, k)[i] = sc[i]
<1> DEFINE n == Len(sc)
           u == SubSeq(sc, 1, k)
           R == Range(sc)
<1>1. n \in Nat /\ sc \in Seq(R) /\ DOMAIN sc = 1..n
  BY LenProperties DEF ScriptOK
<1>2. \A i \in 1..k : sc[i] \in R
  BY <1>1 DEF Range
<1>3. /\ u \in Seq(R) /\ Len(u) = IF 1 <= k THEN k - 1 + 1 ELSE 0
      /\ \A i \in 1..k - 1 + 1 : u[i] = sc[1 + i - 1]
  <2>1. k \in Int /\ 1 \in Int
    BY <1>1
  <2> HIDE DEF R
  <2> QED
    BY <1>2, <2>1, SubSeqProperties
<1> HIDE DEF u
<1>4. Len(u) = k /\ \A i \in 1..k : u[i] = sc[i]
  <2>1. k \in Nat /\ k - 1 + 1 = k /\ \A i \in 1..k : 1 + i - 1 = i
    BY <1>1
  <2> QED
    BY <1>3, <2>1
<1>5. u \in Seq(Range(u))
  <2>1. DOMAIN u = 1..k /\ u \in [1..k -> R] /\ k \in Nat
    BY <1>1, <1>3, <1>4, LenProperties
  <2>2. u \in [1..k -> Range(u)]
    BY <2>1 DEF Range
  <2> QED
    BY <2>1, <2>2
<1>6. \A i \in 1..Len(u) : RequestOK(u[i])
  BY <1>1, <1>4 DEF ScriptOK
<1> QED
  BY <1>4, <1>5, <1>6 DEF ScriptOK, u

LEMMA StreamIs ==
  ASSUME NEW sc, ScriptOK(sc)
  PROVE  \E F : /\ Chain(F, StreamParts(sc), Len(sc), Letters)
                /\ \A k \in 0..Len(sc) : Stream(SubSeq(sc, 1, k)) = F[k]
                /\ F[Len(sc)] = Stream(sc)
<1> DEFINE n == Len(sc)
           p == StreamParts(sc)
<1>1. PICK F : Chain(F, p, n, Letters) /\ F[n] = Stream(sc)
  BY StreamChain
<1>2. n \in Nat
  BY LenProperties DEF ScriptOK
<1>3. \A i \in 1..n : p[i] = Request(sc[i])
  BY DEF StreamParts
<1>4. ASSUME NEW k \in 0..n
      PROVE  Stream(SubSeq(sc, 1, k)) = F[k]
  <2> DEFINE u == SubSeq(sc, 1, k)
             q == StreamParts(u)
  <2>1. ScriptOK(u) /\ Len(u) = k /\ \A i \in 1..k : u[i] = sc[i]
    BY FirstOnes
  <2> HIDE DEF u
  <2>2. PICK G : Chain(G, q, k, Letters) /\ G[k] = Stream(u)
    BY <2>1, StreamChain
  <2>3. \A i \in 1..k : q[i] = p[i]
    BY <1>2, <1>3, <2>1 DEF StreamParts
  <2> HIDE DEF n, p, q
  <2>4. \A i \in 0..k : G[i] = F[i]
    BY <1>1, <1>2, <2>2, <2>3, ChainsAgree
  <2>5. k \in 0..k
    BY <1>2
  <2> QED
    BY <2>2, <2>4, <2>5 DEF u
<1> QED
  BY <1>1, <1>4

-----------------------------------------------------------------------------
(* The parser on the beginning of a request *)

\* A number of one digit at p and what may be received of the line behind it.
LEMMA NumberLineIs ==
  ASSUME NEW s \in Seq(Letters), NEW p \in 1..Len(s), NEW d \in 0..9, s[p] = Digit(d), NEW stale,
         p + 1 <= Len(s) => s[p + 1] = "CR",
         p + 2 <= Len(s) => s[p + 2] = "LF",
         Len(s) # p + 1
  PROVE  NumberLine(s, p, stale) = [next |-> IF Len(s) = p THEN Again ELSE p + 3, num |-> d]
<1> DEFINE n == Len(s)
<1>0. n \in Nat /\ p \in Nat /\ p >= 1 /\ p <= n
  BY LenProperties
<1>1. s[p] # "CR"
  BY DigitIs
<1>2. EndOfText(s, p) = p + 1
  <2> DEFINE P(i) == (i = n + 1 \/ s[i] = "CR") /\ \A j \in p..i - 1 : s[j] # "CR"
  <2>1. p + 1 \in p..n + 1 /\ P(p + 1)
    <3>1. p + 1 = n + 1 \/ s[p + 1] = "CR"
      BY <1>0
    <3>2. \A j \in p..p + 1 - 1 : s[j] # "CR"
      BY <1>0, <1>1
    <3> QED
      BY <1>0, <3>1, <3>2
  <2>2. ASSUME NEW i \in p..n + 1, P(i)
        PROVE  i = p + 1
    <3>1. i # p
      BY <1>0, <1>1, <2>2
    <3>2. CASE i > p + 1
      <4>1. p + 1 \in p..i - 1 /\ p + 1 <= n
        BY <1>0, <2>2, <3>2
      <4> QED
        BY <2>2, <4>1
    <3> QED
      BY <1>0, <3>1, <3>2
  <2>3. EndOfText(s, p) = CHOOSE i \in p..n + 1 : P(i)
    BY DEF EndOfText
  <2> HIDE DEF P
  <2>4. EndOfText(s, p) \in p..n + 1 /\ P(EndOfText(s, p))
    BY <2>1, <2>3, Zenon
  <2> QED
    BY <2>2, <2>4
<1> DEFINE text == SubSeq(s, p, p + 1 - 1)
<1>3. text = <<Digit(d)>>
  <2>1. \A i \in p..p + 1 - 1 : s[i] \in Letters
    BY <1>0, LenProperties
  <2>2. p \in Int /\ p + 1 - 1 \in Int /\ p + 1 - 1 = p
    BY <1>0
  <2>3. /\ text \in Seq(Letters) /\ Len(text) = IF p <= p + 1 - 1 THEN p + 1 - 1 - p + 1 ELSE 0
        /\ \A i \in 1..p + 1 - 1 - p + 1 : text[i] = s[p + i - 1]
    BY <2>1, <2>2, SubSeqProperties
  <2> HIDE DEF text
  <2>4. Len(text) = 1 /\ text[1] = Digit(d)
    BY <1>0, <2>3
  <2>5. <<Digit(d)>> \in Seq(Letters) /\ Len(<<Digit(d)>>) = 1 /\ <<Digit(d)>>[1] = Digit(d)
    BY DigitIs
  <2> DEFINE v == <<Digit(d)>>
  <2>6. \A i \in 1..Len(text) : text[i] = v[i]
    BY <2>4, <2>5
  <2>7. v \in Seq(Letters) /\ Len(text) = Len(v)
    BY <2>4, <2>5
  <2> HIDE DEF v
  <2>8. text = v
    BY <2>3, <2>6, <2>7, SeqEqual
  <2> QED
    BY <2>8 DEF v
<1>4. NumberOf(text) = d
  BY <1>3, OneDigit
<1>5. Range(text) \subseteq Range(Digits) \cup {"minus", "plus"}
  <2>1. DOMAIN <<Digit(d)>> = {1} /\ <<Digit(d)>>[1] = Digit(d)
    OBVIOUS
  <2>2. Range(<<Digit(d)>>) = {Digit(d)}
    BY <2>1 DEF Range
  <2> QED
    BY <1>3, <2>2, DigitIs
<1>6. BehindLine(s, p + 1, stale) = IF n = p THEN Again ELSE p + 3
  <2>1. CASE n = p
    BY <1>0, <2>1 DEF BehindLine
  <2>2. CASE n # p
    <3>1. p + 1 < n /\ s[p + 1 + 1] = "LF" /\ p + 1 + 1 = p + 2 /\ p + 1 + 2 = p + 3
      BY <1>0, <2>2
    <3> QED
      BY <1>0, <2>2, <3>1 DEF BehindLine
  <2> QED
    BY <2>1, <2>2
<1>7. NumberLine(s, p, stale) = [next |-> BehindLine(s, p + 1, stale), num |-> NumberOf(text)]
  <2> HIDE DEF text
  <2> QED
    BY <1>2, <1>5 DEF NumberLine, text
<1> QED
  BY <1>4, <1>6, <1>7

\* What is received of a bulk at p.
BulkAt(s, p, t) ==
  \A x \in 1..Len(t) + 6 : p + x - 1 <= Len(s) => s[p + x - 1] = Encoded(t)[x]

LEMMA BulkBytes ==
  ASSUME NEW s \in Seq(Letters), NEW p \in 1..Len(s), NEW t, TokenOK(t), BulkAt(s, p, t)
  PROVE  /\ s[p] = "$"
         /\ p + 1 <= Len(s) => s[p + 1] = Digit(Len(t))
         /\ p + 2 <= Len(s) => s[p + 2] = "CR"
         /\ p + 3 <= Len(s) => s[p + 3] = "LF"
         /\ \A x \in 1..Len(t) : p + 3 + x <= Len(s) => s[p + 3 + x] = t[x]
         /\ p + 4 + Len(t) <= Len(s) => s[p + 4 + Len(t)] = "CR"
         /\ p + 5 + Len(t) <= Len(s) => s[p + 5 + Len(t)] = "LF"
<1> DEFINE n == Len(s)
           m == Len(t)
           e == Encoded(t)
<1>0. n \in Nat /\ p \in Nat /\ p >= 1 /\ p <= n /\ m \in 0..9
  BY LenProperties DEF TokenOK
<1>1. EncodedAs(e, t)
  BY EncodedIs
<1>2. \A x \in 1..m + 6 : p + x - 1 <= n => s[p + x - 1] = e[x]
  BY DEF BulkAt
<1>3. /\ e[1] = "$" /\ e[2] = Digit(m) /\ e[3] = "CR" /\ e[4] = "LF"
      /\ \A x \in 1..m : e[4 + x] = t[x]
      /\ e[m + 5] = "CR" /\ e[m + 6] = "LF"
  BY <1>1 DEF EncodedAs
<1> HIDE DEF e, m, n
<1>4. /\ 1 \in 1..m + 6 /\ p + 1 - 1 = p /\ 2 \in 1..m + 6 /\ p + 2 - 1 = p + 1
      /\ 3 \in 1..m + 6 /\ p + 3 - 1 = p + 2 /\ 4 \in 1..m + 6 /\ p + 4 - 1 = p + 3
      /\ m + 5 \in 1..m + 6 /\ p + (m + 5) - 1 = p + 4 + m
      /\ m + 6 \in 1..m + 6 /\ p + (m + 6) - 1 = p + 5 + m
  BY <1>0
<1>5. /\ s[p] = "$"
      /\ p + 1 <= n => s[p + 1] = Digit(m)
      /\ p + 2 <= n => s[p + 2] = "CR"
      /\ p + 3 <= n => s[p + 3] = "LF"
  BY <1>0, <1>2, <1>3, <1>4
<1>6. \A x \in 1..m : p + 3 + x <= n => s[p + 3 + x] = t[x]
  <2> TAKE x \in 1..m
  <2>1. 4 + x \in 1..m + 6 /\ p + (4 + x) - 1 = p + 3 + x
    BY <1>0
  <2> QED
    BY <1>2, <1>3, <2>1
<1>7. p + 4 + m <= n => s[p + 4 + m] = "CR"
  BY <1>2, <1>3, <1>4
<1>8. p + 5 + m <= n => s[p + 5 + m] = "LF"
  BY <1>2, <1>3, <1>4
<1> QED
  BY <1>5, <1>6, <1>7, <1>8 DEF m, n

\* A bulk that is complete, an empty one cut behind its length, and any other.
LEMMA BulkIs ==
  ASSUME NEW s \in Seq(Letters), NEW p \in 1..Len(s), NEW t, TokenOK(t), BulkAt(s, p, t),
         NEW stale, Len(s) # p + 2
  PROVE  Bulk(s, p, stale) =
           IF Len(s) >= p + 5 + Len(t) THEN [next |-> p + 6 + Len(t), token |-> t]
           ELSE [next |-> IF Len(s) = p + 3 /\ Len(t) = 0 THEN p + 4 ELSE Again, token |-> Unset]
<1> DEFINE n == Len(s)
           m == Len(t)
           N == NumberLine(s, p + 1, stale)
           end == TextLine(s, p + 4, m)
<1>0. n \in Nat /\ p \in Nat /\ p >= 1 /\ p <= n /\ m \in 0..9 /\ t \in Seq(STRING)
  BY LenProperties DEF TokenOK
<1>1. /\ s[p] = "$"
      /\ p + 1 <= n => s[p + 1] = Digit(m)
      /\ p + 2 <= n => s[p + 2] = "CR"
      /\ p + 3 <= n => s[p + 3] = "LF"
      /\ \A x \in 1..m : p + 3 + x <= n => s[p + 3 + x] = t[x]
      /\ p + 4 + m <= n => s[p + 4 + m] = "CR"
      /\ p + 5 + m <= n => s[p + 5 + m] = "LF"
  BY BulkBytes
<1>2. CASE n = p
  <2>1. Bulk(s, p, stale) = [next |-> Again, token |-> Unset]
    BY <1>1, <1>2 DEF Bulk
  <2> QED
    BY <1>0, <1>2, <2>1
<1>3. p + 1 <= n => N = [next |-> IF n = p + 1 THEN Again ELSE p + 4, num |-> m]
  <2> HAVE p + 1 <= n
  <2>1. p + 1 \in 1..n /\ p + 1 + 1 = p + 2 /\ p + 1 + 2 = p + 3 /\ p + 1 + 3 = p + 4
    BY <1>0
  <2>2. /\ s[p + 1] = Digit(m)
        /\ p + 1 + 1 <= n => s[p + 1 + 1] = "CR"
        /\ p + 1 + 2 <= n => s[p + 1 + 2] = "LF"
        /\ n # p + 1 + 1
    BY <1>1, <2>1
  <2>3. NumberLine(s, p + 1, stale) = [next |-> IF n = p + 1 THEN Again ELSE p + 1 + 3, num |-> m]
    BY <1>0, <2>1, <2>2, NumberLineIs
  <2> QED
    BY <2>1, <2>3
<1>4. CASE n = p + 1
  <2>1. N.next = Again /\ Again < 0 /\ p < n
    BY <1>0, <1>3, <1>4 DEF Again
  <2> HIDE DEF N
  <2>2. Bulk(s, p, stale) = [next |-> N.next, token |-> Unset]
    <3>1. /\ s[p] = "$" /\ p < n /\ ~(p = n)
          /\ N.next < 0 /\ N.next # n + 1 /\ ~(N.next \notin {Error, Again, n + 1})
      BY <1>0, <1>1, <2>1 DEF Again
    <3> QED
      BY <3>1 DEF Bulk, N
  <2> QED
    BY <1>0, <1>4, <2>1, <2>2
<1>5. n >= p + 3 => N.next = p + 4 /\ N.num = m /\ N.next \notin {Error, Again} /\ ~(N.next < 0)
  BY <1>0, <1>3 DEF Error, Again
<1>6. CASE n = p + 3
  <2>1. N.next = n + 1 /\ N.num = m /\ ~(N.next < 0) /\ s[p] = "$" /\ p < n
    BY <1>0, <1>1, <1>5, <1>6
  <2> HIDE DEF N
  <2>2. Bulk(s, p, stale) = [next |-> IF N.num <= 0 THEN N.next ELSE Again, token |-> Unset]
    BY <1>0, <2>1 DEF Bulk, N
  <2> QED
    BY <1>0, <1>6, <2>1, <2>2
<1>7. CASE n > p + 3
  <2>1. N.next = p + 4 /\ N.num = m /\ N.next \notin {Error, Again, n + 1} /\ ~(N.next < 0) /\ s[p] = "$" /\ p < n
    BY <1>0, <1>1, <1>5, <1>7
  <2>2. Bulk(s, p, stale) =
          [next |-> end, token |-> IF end < 0 THEN Unset ELSE SubSeq(s, p + 4, p + 4 + m - 1)]
    <3> HIDE DEF N
    <3>1. N.next # n + 1 /\ ~(p = n)
      BY <1>0, <2>1
    <3> QED
      BY <2>1, <3>1 DEF Bulk, N
  <2>3. end = IF n >= p + 5 + m THEN p + 6 + m ELSE Again
    <3> DEFINE left == n + 1 - (p + 4) - m
    <3>1. CASE left <= 0
      <4>1. end = Again
        BY <1>0, <3>1 DEF TextLine
      <4> QED
        BY <1>0, <3>1, <4>1
    <3>2. CASE left = 1
      <4>1. p + 4 + m <= n /\ s[p + 4 + m] = "CR" /\ ~(left <= 0) /\ ~(left >= 2)
        BY <1>0, <1>1, <3>2
      <4>2. end = Again
        BY <3>2, <4>1 DEF TextLine
      <4> QED
        BY <1>0, <3>2, <4>2
    <3>3. CASE left >= 2
      <4> DEFINE a == p + 4 + m
                 u == SubSeq(s, a, a + 1)
      <4>1. a \in Nat /\ a >= 1 /\ a + 1 <= n /\ a + 1 = p + 5 + m /\ s[a] = "CR" /\ s[a + 1] = "LF"
        BY <1>0, <1>1, <3>3
      <4>2. u = CRLF
        <5>1. CRLF \in Seq(Letters) /\ Len(CRLF) = 2 /\ CRLF[1] = "CR" /\ CRLF[2] = "LF"
          BY DEF CRLF, Letters
        <5> HIDE DEF a
        <5>2. \A i \in a..a + 1 : s[i] \in Letters
          BY <4>1, LenProperties
        <5>3. /\ u \in Seq(Letters) /\ Len(u) = IF a <= a + 1 THEN a + 1 - a + 1 ELSE 0
              /\ \A i \in 1..a + 1 - a + 1 : u[i] = s[a + i - 1]
          BY <4>1, <5>2, SubSeqProperties
        <5> HIDE DEF u
        <5>4. Len(u) = 2 /\ u[1] = s[a] /\ u[2] = s[a + 1]
          <6>1. a <= a + 1 /\ a + 1 - a + 1 = 2 /\ 1 \in 1..2 /\ 2 \in 1..2 /\ a + 1 - 1 = a /\ a + 2 - 1 = a + 1
            BY <4>1
          <6> QED
            BY <5>3, <6>1
        <5>5. \A i \in 1..Len(u) : u[i] = CRLF[i]
          BY <4>1, <5>1, <5>4
        <5> QED
          BY <5>1, <5>3, <5>4, <5>5, SeqEqual
      <4>3. end = a + 2
        <5> HIDE DEF u
        <5>1. ~(left <= 0) /\ ~(left = 1)
          BY <1>0, <3>3
        <5> QED
          BY <3>3, <4>2, <5>1 DEF TextLine, u
      <4> QED
        BY <1>0, <3>3, <4>1, <4>3
    <3> QED
      BY <1>0, <3>1, <3>2, <3>3
  <2>4. CASE n >= p + 5 + m
    <3> DEFINE u == SubSeq(s, p + 4, p + 4 + m - 1)
               a == p + 4
    <3>1. u = t
      <4>1. a \in Int /\ a + m - 1 \in Int /\ a + m - 1 - a + 1 = m /\ a >= 1 /\ a + m - 1 <= n
        BY <1>0, <2>4
      <4>2. \A i \in a..a + m - 1 : s[i] \in Letters
        BY <1>0, <4>1, LenProperties
      <4> HIDE DEF a
      <4>3. /\ u \in Seq(Letters) /\ Len(u) = IF a <= a + m - 1 THEN a + m - 1 - a + 1 ELSE 0
            /\ \A i \in 1..a + m - 1 - a + 1 : u[i] = s[a + i - 1]
        BY <4>1, <4>2, SubSeqProperties DEF a
      <4> HIDE DEF u
      <4>4. Len(u) = m
        BY <1>0, <4>1, <4>3
      <4>5. \A i \in 1..m : u[i] = t[i]
        <5> TAKE i \in 1..m
        <5>1. a + i - 1 = p + 3 + i /\ p + 3 + i <= n
          BY <1>0, <2>4 DEF a
        <5> QED
          BY <1>1, <4>1, <4>3, <5>1
      <4>6. t \in Seq(Letters)
        BY <1>0 DEF Letters
      <4> QED
        BY <4>3, <4>4, <4>5, <4>6, SeqEqual
    <3>2. end = p + 6 + m /\ ~(end < 0)
      BY <1>0, <2>3, <2>4
    <3> HIDE DEF u, end
    <3> QED
      BY <2>2, <2>4, <3>1, <3>2 DEF u
  <2>5. CASE ~(n >= p + 5 + m)
    <3>1. end = Again /\ end < 0
      BY <2>3, <2>5 DEF Again
    <3>2. ~(n = p + 3)
      BY <1>0, <1>7
    <3> HIDE DEF end
    <3> QED
      BY <2>2, <2>5, <3>1, <3>2
  <2> QED
    BY <2>4, <2>5
<1> QED
  BY <1>0, <1>2, <1>4, <1>6, <1>7

\* One bulk more, unless the bytes have ended or made no sense.
NextBulk(s, stale, r) ==
  IF r.next < 0 \/ r.next > Len(s) THEN r
  ELSE LET b == Bulk(s, r.next, stale)
       IN [next |-> b.next, tokens |-> Append(r.tokens, b.token)]

FirstBulk(s, stale) == [next |-> NumberLine(s, 2, stale).next, tokens |-> <<>>]
Argc(s, stale)      == NumberLine(s, 2, stale).num

BulkFold(s, stale) ==
  CHOOSE h : h = [T \in SUBSET DOMAIN [i \in 1..Rounds(s, Argc(s, stale)) |-> i] |->
                    IF T = {} THEN FirstBulk(s, stale) ELSE NextBulk(s, stale, h[T \ {Max(T)}])]

AllBulks(s, stale) == BulkFold(s, stale)[DOMAIN [i \in 1..Rounds(s, Argc(s, stale)) |-> i]]

LEMMA MultiBulkIs ==
  ASSUME NEW s, NEW stale
  PROVE  MultiBulk(s, stale) =
           CASE Len(s) = 1 -> [next |-> Again, tokens |-> <<>>]
             [] Len(s) > 1 /\ AllBulks(s, stale).next < 0 -> [next |-> AllBulks(s, stale).next, tokens |-> <<>>]
             [] Len(s) > 1 /\ AllBulks(s, stale).next >= 0 ->
                  IF Len(AllBulks(s, stale).tokens) = Argc(s, stale) THEN AllBulks(s, stale)
                  ELSE [next |-> Again, tokens |-> <<>>]
BY Zenon DEF MultiBulk, FoldLeft, MapThenFoldSet, AllBulks, BulkFold, Argc, FirstBulk, NextBulk

\* The bulks are read one after the other.
LEMMA BulksInOrder ==
  ASSUME NEW s, NEW stale, NEW n \in Nat, Argc(s, stale) = n,
         NEW C, C[0] = FirstBulk(s, stale),
         \A i \in 1..n : C[i] = NextBulk(s, stale, C[i - 1])
  PROVE  AllBulks(s, stale) = C[n]
<1> DEFINE D == 1..n
           g == [T \in SUBSET D |-> C[Cardinality(T)]]
           h == BulkFold(s, stale)
           first == FirstBulk(s, stale)
           Step(r) == NextBulk(s, stale, r)
<1>1. DOMAIN [i \in 1..Rounds(s, Argc(s, stale)) |-> i] = D
  <2>1. Rounds(s, n) = n
    BY DEF Rounds
  <2> QED
    BY <2>1
<1>2. \A T \in SUBSET D : T # {} =>
        /\ Cardinality(T) \in 1..n /\ Max(T) \in T
        /\ Cardinality(T \ {Max(T)}) = Cardinality(T) - 1
  <2> SUFFICES ASSUME NEW T \in SUBSET D, T # {}
               PROVE  /\ Cardinality(T) \in 1..n /\ Max(T) \in T
                      /\ Cardinality(T \ {Max(T)}) = Cardinality(T) - 1
    OBVIOUS
  <2>1. IsFiniteSet(D) /\ Cardinality(D) = n
    BY FS_Interval
  <2>2. IsFiniteSet(T) /\ Cardinality(T) <= n
    BY <2>1, FS_Subset
  <2>3. Max(T) \in T
    BY LargestOf
  <2>4. Cardinality(T) \in Nat
    BY <2>2, FS_CardinalityType
  <2>5. Cardinality(T) # 0
    BY <2>2, FS_EmptySet
  <2>6. Cardinality(T \ {Max(T)}) = Cardinality(T) - 1
    BY <2>2, <2>3, FS_RemoveElement
  <2> QED
    BY <2>2, <2>3, <2>4, <2>5, <2>6
<1>3. Cardinality({}) = 0
  BY FS_EmptySet
<1>4. g[{}] = first
  BY <1>3
<1>5. \A T \in SUBSET D : T # {} => g[T] = Step(g[T \ {Max(T)}])
  <2> SUFFICES ASSUME NEW T \in SUBSET D, T # {}
               PROVE  g[T] = Step(g[T \ {Max(T)}])
    OBVIOUS
  <2>1. C[Cardinality(T)] = NextBulk(s, stale, C[Cardinality(T) - 1])
    BY <1>2
  <2>2. g[T] = C[Cardinality(T)] /\ g[T \ {Max(T)}] = C[Cardinality(T) - 1]
    <3>1. T \ {Max(T)} \in SUBSET D
      OBVIOUS
    <3> QED
      BY <1>2, <3>1
  <2> HIDE DEF g
  <2> QED
    BY <2>1, <2>2
<1>6. g = [T \in SUBSET D |-> g[T]]
  OBVIOUS
<1>7. g = [T \in SUBSET D |-> IF T = {} THEN first ELSE Step(g[T \ {Max(T)}])]
  <2> HIDE DEF g, D, first, Step
  <2> QED
    BY <1>4, <1>5, <1>6
<1>8. h = [T \in SUBSET D |-> IF T = {} THEN first ELSE Step(h[T \ {Max(T)}])]
  <2>1. \E f : f = [T \in SUBSET D |-> IF T = {} THEN first ELSE Step(f[T \ {Max(T)}])]
    <3> HIDE DEF g, D, first, Step
    <3> QED
      BY <1>7
  <2> HIDE DEF D
  <2> QED
    BY <1>1, <2>1, Zenon DEF BulkFold
<1> DEFINE Good == {i \in 0..n : h[1..i] = C[i]}
<1>9. \A i \in 0..n : i \in Good
  <2> HIDE DEF h, first, Step
  <2>1. 0 \in Good
    <3>1. 1..0 = {} /\ 1..0 \in SUBSET D
      OBVIOUS
    <3>2. h[1..0] = C[0]
      BY <1>8, <3>1 DEF first
    <3> QED
      BY <3>2
  <2>2. ASSUME NEW i \in 1..n, i - 1 \in Good
        PROVE  i \in Good
    <3>1. /\ 1..i \in SUBSET D /\ 1..i # {}
          /\ Max(1..i) = i /\ (1..i) \ {i} = 1..i - 1
      BY LargestUpTo
    <3>2. h[1..i] = Step(h[1..i - 1])
      BY <1>8, <3>1
    <3>3. h[1..i - 1] = C[i - 1] /\ i \in 0..n
      BY <2>2
    <3> QED
      BY <3>2, <3>3 DEF Step
  <2> HIDE DEF Good
  <2> QED
    BY <2>1, <2>2, UpTo
<1>10. h[1..n] = C[n]
  <2>1. n \in 0..n
    OBVIOUS
  <2> QED
    BY <1>9, <2>1
<1> QED
  BY <1>1, <1>10 DEF AllBulks

\* The bytes s are the beginning of a request and what may be behind it, and do not
\* end where the parser goes wrong.
ReadOf(s, ts) ==
  LET R == Request(ts)
      n == Len(s)
  IN /\ s \in Seq(Letters) /\ n >= 1
     /\ \A x \in 1..n : x <= Len(R) => s[x] = R[x]
     /\ n >= 3 => ~(s[n] = "CR" /\ s[n - 2] \in {"*", "$"})
     /\ n >= 4 /\ n + 2 = Len(R) =>
          ~(s[n - 3] = "$" /\ s[n - 2] = "0" /\ s[n - 1] = "CR" /\ s[n] = "LF")

\* The i-th bulk of a request is behind Off(F, i - 1) bytes.
Off(F, i) == 4 + Len(F[i])

PlaceIs(F, ts, i) ==
  /\ TokenOK(ts[i]) /\ Off(F, i - 1) \in Nat /\ Off(F, i - 1) >= 4
  /\ Off(F, i) = Off(F, i - 1) + Len(ts[i]) + 6 /\ Off(F, i) <= Len(Request(ts))
  /\ \A x \in 1..Len(ts[i]) + 6 : Request(ts)[Off(F, i - 1) + x] = Encoded(ts[i])[x]

LEMMA BulkPlace ==
  ASSUME NEW ts, RequestOK(ts), NEW F, Chain(F, BodyParts(ts), Len(ts), Letters), F[Len(ts)] = Body(ts),
         NEW i \in 1..Len(ts)
  PROVE  PlaceIs(F, ts, i)
<1> DEFINE n == Len(ts)
           p == BodyParts(ts)
           b == Body(ts)
           R == Request(ts)
           a == Len(F[i - 1])
           e == Encoded(ts[i])
           m == Len(ts[i])
<1>0. n \in Nat /\ TokenOK(ts[i]) /\ m \in 0..9
  BY DEF RequestOK, TokenOK
<1>1. p[i] = e
  BY DEF BodyParts
<1>2. EncodedAs(e, ts[i])
  BY <1>0, EncodedIs
<1>3. RequestAs(R, ts)
  BY RequestIs
<1> HIDE DEF n, p
<1>4. /\ Len(F[i]) = a + Len(p[i]) /\ a \in Nat /\ Len(F[i]) <= Len(b) /\ Len(b) \in Nat
      /\ \A x \in 1..Len(p[i]) : b[a + x] = p[i][x]
  <2>1. i \in 1..n /\ Chain(F, p, n, Letters) /\ F[n] = b
    BY DEF n, p
  <2> HIDE DEF b, a
  <2>2. PartIn(F[n], F, p, i)
    BY <1>0, <2>1, PartAt
  <2> QED
    BY <2>1, <2>2 DEF a, PartIn
<1>5. Len(p[i]) = m + 6
  BY <1>1, <1>2 DEF EncodedAs
<1> HIDE DEF a, b, e, R, m
<1>6. Off(F, i - 1) = 4 + a /\ Off(F, i) = 4 + Len(F[i])
  BY DEF Off, a
<1>7. /\ Off(F, i - 1) \in Nat /\ Off(F, i - 1) >= 4
      /\ Off(F, i) = Off(F, i - 1) + m + 6
  <2>1. a \in Nat /\ m \in Nat /\ Len(F[i]) = a + (m + 6)
    BY <1>0, <1>4, <1>5
  <2> QED
    BY <1>6, <2>1
<1>8. Len(R) = Len(b) + 4 /\ \A x \in 1..Len(b) : R[4 + x] = b[x]
  BY <1>3 DEF RequestAs, b
<1>9. Off(F, i) <= Len(R)
  BY <1>0, <1>4, <1>5, <1>6, <1>8
<1>10. \A x \in 1..m + 6 : R[Off(F, i - 1) + x] = e[x]
  <2> TAKE x \in 1..m + 6
  <2>1. a + x \in 1..Len(b) /\ 4 + (a + x) = Off(F, i - 1) + x
    BY <1>0, <1>4, <1>5, <1>6
  <2>2. b[a + x] = e[x]
    BY <1>1, <1>4, <1>5
  <2> QED
    BY <1>8, <2>1, <2>2
<1> QED
  BY <1>0, <1>7, <1>9, <1>10 DEF R, e, m, PlaceIs

BulkGives(b, ts, F, s, i) ==
  /\ Off(F, i) <= Len(s) => b = [next |-> Off(F, i) + 1, token |-> ts[i]]
  /\ Off(F, i) > Len(s) =>
       \/ b = [next |-> Again, token |-> Unset]
       \/ b = [next |-> Len(s) + 1, token |-> Unset] /\ Off(F, i) # Len(Request(ts))

\* One step of the parser at the i-th bulk, complete or not.
LEMMA BulkStep ==
  ASSUME NEW ts, RequestOK(ts), NEW F, Chain(F, BodyParts(ts), Len(ts), Letters), F[Len(ts)] = Body(ts),
         NEW s, ReadOf(s, ts), NEW stale, NEW i \in 1..Len(ts), Off(F, i - 1) < Len(s)
  PROVE  BulkGives(Bulk(s, Off(F, i - 1) + 1, stale), ts, F, s, i)
<1> DEFINE R == Request(ts)
           o == Off(F, i - 1)
           p == o + 1
           n == Len(s)
           t == ts[i]
           m == Len(t)
           e == Encoded(t)
<1>1. /\ TokenOK(t) /\ o \in Nat /\ o >= 4
      /\ Off(F, i) = o + m + 6 /\ Off(F, i) <= Len(R)
      /\ \A x \in 1..m + 6 : R[o + x] = e[x]
  <2>1. PlaceIs(F, ts, i)
    BY BulkPlace
  <2> QED
    BY <2>1 DEF PlaceIs
<1>2. /\ s \in Seq(Letters) /\ n >= 1
      /\ \A x \in 1..n : x <= Len(R) => s[x] = R[x]
      /\ n >= 3 => ~(s[n] = "CR" /\ s[n - 2] \in {"*", "$"})
      /\ n >= 4 /\ n + 2 = Len(R) =>
           ~(s[n - 3] = "$" /\ s[n - 2] = "0" /\ s[n - 1] = "CR" /\ s[n] = "LF")
  BY DEF ReadOf
<1>3. n \in Nat /\ m \in 0..9 /\ Len(R) \in Nat /\ p \in 1..n
  <2>1. n \in Nat
    BY <1>2, LenProperties
  <2>2. m \in 0..9
    BY <1>1 DEF TokenOK
  <2>3. RequestAs(R, ts)
    BY RequestIs
  <2>4. Len(R) \in Nat
    BY <2>3 DEF RequestAs
  <2> QED
    BY <1>1, <2>1, <2>2, <2>4
<1>p. p = o + 1
  OBVIOUS
<1> HIDE DEF R, o, e, t, p, n, m
<1>a. /\ o \in Nat /\ m \in Nat /\ n \in Nat /\ p \in Nat /\ Off(F, i) \in Nat
      /\ Off(F, i) = o + m + 6 /\ p = o + 1 /\ o >= 4 /\ p <= n
  BY <1>1, <1>3, <1>p
<1>4. BulkAt(s, p, t)
  <2> SUFFICES ASSUME NEW x \in 1..m + 6, p + x - 1 <= n
               PROVE  s[p + x - 1] = e[x]
    BY DEF BulkAt, e, t, n, m
  <2>1. p + x - 1 = o + x /\ o + x \in 1..n /\ o + x <= Len(R)
    BY <1>1, <1>3, <1>p
  <2> QED
    BY <1>1, <1>2, <2>1
<1>5. /\ s[p] = "$"
      /\ p + 1 <= n => s[p + 1] = Digit(m)
      /\ p + 2 <= n => s[p + 2] = "CR"
      /\ p + 3 <= n => s[p + 3] = "LF"
  BY <1>1, <1>2, <1>3, <1>4, BulkBytes DEF n, m
<1>6. n # p + 2
  <2> SUFFICES ASSUME n = p + 2
               PROVE  FALSE
    OBVIOUS
  <2>1. n >= 3 /\ n - 2 = p /\ p + 2 <= n
    BY <1>3
  <2> QED
    BY <1>2, <1>5, <2>1
<1>7. Bulk(s, p, stale) =
           IF n >= p + 5 + m THEN [next |-> p + 6 + m, token |-> t]
           ELSE [next |-> IF n = p + 3 /\ m = 0 THEN p + 4 ELSE Again, token |-> Unset]
  BY <1>1, <1>2, <1>3, <1>4, <1>6, BulkIs DEF n, m
<1>8. Off(F, i) <= n => Bulk(s, p, stale) = [next |-> Off(F, i) + 1, token |-> t]
  <2> HAVE Off(F, i) <= n
  <2>1. n >= p + 5 + m /\ p + 6 + m = Off(F, i) + 1
    BY <1>a
  <2> QED
    BY <1>7, <2>1
<1>9. CASE Off(F, i) > n
  <2>1. ~(n >= p + 5 + m)
    BY <1>a, <1>9
  <2>2. CASE n = p + 3 /\ m = 0
    <3>1. Bulk(s, p, stale) = [next |-> n + 1, token |-> Unset]
      <4>1. p + 4 = n + 1
        BY <1>3, <2>2
      <4> QED
        BY <1>7, <2>1, <2>2, <4>1
    <3>2. Off(F, i) = n + 2
      BY <1>a, <2>2
    <3>3. Off(F, i) # Len(R)
      <4> SUFFICES ASSUME n + 2 = Len(R)
                   PROVE  FALSE
        BY <3>2
      <4>1. n >= 4 /\ n - 3 = p /\ n - 2 = p + 1 /\ n - 1 = p + 2 /\ p + 1 <= n /\ p + 2 <= n /\ p + 3 <= n
        BY <1>a, <2>2
      <4>2. Digit(m) = "0"
        BY <2>2 DEF Digit, Digits
      <4>3. s[n - 3] = "$" /\ s[n - 2] = "0" /\ s[n - 1] = "CR" /\ s[n] = "LF"
        BY <1>5, <2>2, <4>1, <4>2
      <4> QED
        BY <1>2, <4>1, <4>3
    <3>4. Off(F, i) > n => ~(Off(F, i) <= n)
      BY <1>a
    <3> QED
      BY <1>9, <3>1, <3>3, <3>4 DEF o, R, n, p, BulkGives
  <2>3. CASE ~(n = p + 3 /\ m = 0)
    <3>1. Bulk(s, p, stale) = [next |-> Again, token |-> Unset]
      BY <1>7, <2>1, <2>3
    <3>4. Off(F, i) > n => ~(Off(F, i) <= n)
      BY <1>a
    <3> QED
      BY <1>9, <3>1, <3>4 DEF o, n, p, BulkGives
  <2> QED
    BY <2>2, <2>3
<1>10. CASE Off(F, i) <= n
  <2>1. ~(Off(F, i) > n)
    BY <1>a, <1>10
  <2> QED
    BY <1>8, <1>10, <2>1 DEF o, t, n, p, BulkGives
<1>11. Off(F, i) > n \/ Off(F, i) <= n
  BY <1>a
<1> QED
  BY <1>9, <1>10, <1>11 DEF n

LEMMA OneTokenMore ==
  ASSUME NEW ts \in Seq(Seq(STRING)), NEW i \in 1..Len(ts)
  PROVE  Append(SubSeq(ts, 1, i - 1), ts[i]) = SubSeq(ts, 1, i)
<1> DEFINE T == Seq(STRING)
           n == Len(ts)
<1> DEFINE a == SubSeq(ts, 1, i - 1)
           b == SubSeq(ts, 1, i)
<1>0. i \in Nat /\ i >= 1 /\ i <= n /\ ts[i] \in T /\ \A j \in 1..n : ts[j] \in T
  BY LenProperties
<1>1. a \in Seq(T) /\ Len(a) = i - 1 /\ \A j \in 1..i - 1 : a[j] = ts[j]
  <2>1. /\ a \in Seq(T) /\ Len(a) = IF 1 <= i - 1 THEN i - 1 - 1 + 1 ELSE 0
        /\ \A j \in 1..i - 1 - 1 + 1 : a[j] = ts[1 + j - 1]
    <3>1. \A j \in 1..i - 1 : ts[j] \in T
      BY <1>0
    <3> HIDE DEF T
    <3> QED
      BY <1>0, <3>1, SubSeqProperties
  <2> QED
    BY <1>0, <2>1
<1>2. b \in Seq(T) /\ Len(b) = i /\ \A j \in 1..i : b[j] = ts[j]
  <2>1. /\ b \in Seq(T) /\ Len(b) = IF 1 <= i THEN i - 1 + 1 ELSE 0
        /\ \A j \in 1..i - 1 + 1 : b[j] = ts[1 + j - 1]
    <3>1. \A j \in 1..i : ts[j] \in T
      BY <1>0
    <3> HIDE DEF T
    <3> QED
      BY <1>0, <3>1, SubSeqProperties
  <2> QED
    BY <1>0, <2>1
<1> DEFINE c == Append(a, ts[i])
<1> HIDE DEF a, b, T
<1>3. /\ c \in Seq(T) /\ Len(c) = Len(a) + 1
      /\ \A j \in 1..Len(a) : c[j] = a[j]
      /\ c[Len(a) + 1] = ts[i]
  BY <1>0, <1>1, AppendProperties
<1> HIDE DEF c
<1>4. Len(c) = i
  BY <1>0, <1>1, <1>3
<1>5. \A j \in 1..Len(c) : c[j] = b[j]
  <2> TAKE j \in 1..Len(c)
  <2>1. j \in 1..i
    BY <1>4
  <2>2. CASE j = i
    <3>1. Len(a) + 1 = i
      BY <1>0, <1>1
    <3> QED
      BY <1>2, <1>3, <2>1, <2>2, <3>1
  <2>3. CASE j # i
    <3>1. j \in 1..i - 1
      BY <1>0, <2>1, <2>3
    <3> QED
      BY <1>1, <1>2, <1>3, <2>1, <3>1
  <2> QED
    BY <2>2, <2>3
<1> QED
  BY <1>2, <1>3, <1>4, <1>5, SeqEqual DEF a, b, c

\* C[i] is what the parser holds after i bulks: reads lists it as long as the bulks
\* are complete, and it stays at what the first incomplete one gives.
LEMMA WholeRequest ==
  ASSUME NEW ts, RequestOK(ts), NEW s, ReadOf(s, ts), NEW stale, Len(s) >= Len(Request(ts)),
         FirstBulk(s, stale) = [next |-> 5, tokens |-> <<>>], Argc(s, stale) = Len(ts),
         NEW F, Chain(F, BodyParts(ts), Len(ts), Letters), F[Len(ts)] = Body(ts)
  PROVE  AllBulks(s, stale) = [next |-> Len(Request(ts)) + 1, tokens |-> ts]
<1> DEFINE n == Len(ts)
           R == Request(ts)
           C == [i \in 0..n |-> [next |-> Off(F, i) + 1, tokens |-> SubSeq(ts, 1, i)]]
           T == Seq(STRING)
<1>0. n \in 1..9 /\ DOMAIN ts = 1..n /\ ts \in Seq(T)
  BY DEF RequestOK
<1>1. F[0] = <<>> /\ Off(F, 0) = 4
  <2>1. F[0] = <<>>
    BY DEF Chain
  <2> QED
    BY <2>1 DEF Off
<1>2. \A i \in 0..n : C[i] = [next |-> Off(F, i) + 1, tokens |-> SubSeq(ts, 1, i)]
  OBVIOUS
<1>3. C[0] = FirstBulk(s, stale)
  <2>1. SubSeq(ts, 1, 0) = <<>> /\ 0 \in 0..n /\ 4 + 1 = 5
    BY <1>0, SubSeqEmpty
  <2> HIDE DEF C
  <2> QED
    BY <1>1, <1>2, <2>1
<1> HIDE DEF C
<1>4. ASSUME NEW i \in 1..n
      PROVE  C[i] = NextBulk(s, stale, C[i - 1])
  <2>1. /\ Off(F, i - 1) \in Nat /\ Off(F, i) = Off(F, i - 1) + Len(ts[i]) + 6
        /\ Off(F, i) <= Len(R) /\ Len(ts[i]) \in Nat
    <3>1. PlaceIs(F, ts, i)
      BY BulkPlace
    <3> QED
      BY <3>1 DEF PlaceIs, TokenOK
  <2>2. Len(s) \in Nat /\ Len(R) \in Nat
    <3>1. s \in Seq(Letters)
      BY DEF ReadOf
    <3>2. RequestAs(R, ts)
      BY RequestIs
    <3> QED
      BY <3>1, <3>2, LenProperties DEF RequestAs
  <2>3. Off(F, i) <= Len(s) /\ Off(F, i - 1) < Len(s)
    BY <2>1, <2>2
  <2>4. Bulk(s, Off(F, i - 1) + 1, stale) = [next |-> Off(F, i) + 1, token |-> ts[i]]
    <3>1. BulkGives(Bulk(s, Off(F, i - 1) + 1, stale), ts, F, s, i)
      BY <2>3, BulkStep
    <3> QED
      BY <2>3, <3>1 DEF BulkGives
  <2>5. C[i - 1] = [next |-> Off(F, i - 1) + 1, tokens |-> SubSeq(ts, 1, i - 1)]
    <3>1. i - 1 \in 0..n
      BY <1>0
    <3> QED
      BY <1>2, <3>1
  <2>6. ~(Off(F, i - 1) + 1 < 0) /\ ~(Off(F, i - 1) + 1 > Len(s))
    BY <2>1, <2>2, <2>3
  <2>7. NextBulk(s, stale, C[i - 1]) =
          [next |-> Off(F, i) + 1, tokens |-> Append(SubSeq(ts, 1, i - 1), ts[i])]
    <3> DEFINE r == C[i - 1]
    <3>1. r.next = Off(F, i - 1) + 1 /\ r.tokens = SubSeq(ts, 1, i - 1)
      BY <2>5
    <3>2. ~(r.next < 0 \/ r.next > Len(s))
      BY <2>6, <3>1
    <3> HIDE DEF r
    <3>3. NextBulk(s, stale, r) = [next |-> Bulk(s, r.next, stale).next,
                                   tokens |-> Append(r.tokens, Bulk(s, r.next, stale).token)]
      BY <3>2, Zenon DEF NextBulk
    <3> DEFINE b == Bulk(s, r.next, stale)
    <3>4. b.next = Off(F, i) + 1 /\ b.token = ts[i]
      BY <2>4, <3>1
    <3> HIDE DEF b
    <3>5. NextBulk(s, stale, r) = [next |-> b.next, tokens |-> Append(r.tokens, b.token)]
      BY <3>3 DEF b
    <3> QED
      BY <3>1, <3>4, <3>5 DEF r
  <2>8. Append(SubSeq(ts, 1, i - 1), ts[i]) = SubSeq(ts, 1, i)
    BY <1>0, OneTokenMore
  <2>9. C[i] = [next |-> Off(F, i) + 1, tokens |-> SubSeq(ts, 1, i)]
    <3>1. i \in 0..n
      BY <1>0
    <3> QED
      BY <1>2, <3>1
  <2> QED
    BY <2>7, <2>8, <2>9
<1>5. AllBulks(s, stale) = C[n]
  <2>1. n \in Nat /\ Argc(s, stale) = n
    BY <1>0
  <2> HIDE DEF n
  <2> QED
    BY <1>3, <1>4, <2>1, BulksInOrder
<1>6. C[n] = [next |-> Off(F, n) + 1, tokens |-> SubSeq(ts, 1, n)]
  BY <1>0, <1>2
<1>7. Off(F, n) = Len(R)
  <2>1. RequestAs(R, ts)
    BY RequestIs
  <2> QED
    BY <2>1 DEF RequestAs, Off
<1>8. SubSeq(ts, 1, n) = ts
  <2> HIDE DEF T
  <2> QED
    BY <1>0, SubSeqFull
<1> QED
  BY <1>5, <1>6, <1>7, <1>8

LEMMA PartOfRequest ==
  ASSUME NEW ts, RequestOK(ts), NEW s, ReadOf(s, ts), NEW stale, Len(s) >= 4, Len(s) < Len(Request(ts)),
         FirstBulk(s, stale) = [next |-> 5, tokens |-> <<>>], Argc(s, stale) = Len(ts),
         NEW F, Chain(F, BodyParts(ts), Len(ts), Letters), F[Len(ts)] = Body(ts)
  PROVE  \/ AllBulks(s, stale).next = Again
         \/ AllBulks(s, stale).next \in Nat /\ Len(AllBulks(s, stale).tokens) # Len(ts)
<1> DEFINE n == Len(ts)
           R == Request(ts)
           T == Seq(STRING)
           S == Len(s)
<1>0. n \in 1..9 /\ n \in Nat /\ DOMAIN ts = 1..n /\ ts \in Seq(T) /\ Argc(s, stale) = n
  <2>1. n \in 1..9
    BY DEF RequestOK
  <2>2. n \in Nat
    BY <2>1
  <2> QED
    BY <2>1, <2>2 DEF RequestOK
<1>1. S \in Nat /\ Len(R) \in Nat /\ S >= 4 /\ S < Len(R)
  <2>1. s \in Seq(Letters)
    BY DEF ReadOf
  <2>2. RequestAs(R, ts)
    BY RequestIs
  <2> QED
    BY <2>1, <2>2, LenProperties DEF RequestAs
<1>2. \A i \in 1..n : /\ Off(F, i - 1) \in Nat /\ Off(F, i) \in Nat /\ Off(F, i) <= Len(R)
                      /\ Off(F, i - 1) < Off(F, i)
  <2> TAKE i \in 1..n
  <2>1. /\ Off(F, i - 1) \in Nat /\ Off(F, i) = Off(F, i - 1) + Len(ts[i]) + 6
        /\ Off(F, i) <= Len(R) /\ Len(ts[i]) \in Nat
    <3>1. PlaceIs(F, ts, i)
      BY BulkPlace
    <3> QED
      BY <3>1 DEF PlaceIs, TokenOK
  <2> QED
    BY <2>1
<1>3. Off(F, 0) = 4
  <2>1. F[0] = <<>>
    BY DEF Chain
  <2> QED
    BY <2>1 DEF Off
<1>4. Off(F, n) = Len(R)
  <2>1. RequestAs(R, ts)
    BY RequestIs
  <2> QED
    BY <2>1 DEF RequestAs, Off
<1> HIDE DEF n, R, S
<1> DEFINE Behind == {i \in 0..n : Off(F, i) > S}
<1>5. PICK k \in Behind : \A i \in Behind : k <= i
  <2>1. n \in Behind /\ Behind \subseteq Nat
    BY <1>0, <1>1, <1>4
  <2> HIDE DEF Behind
  <2> QED
    BY <2>1, LeastNat
<1>6. k \in 1..n /\ k - 1 \in 0..n /\ Off(F, k) > S /\ \A i \in 0..n : i < k => Off(F, i) <= S
  <2>1. k # 0
    BY <1>1, <1>3, <1>5
  <2>2. k \in 0..n /\ Off(F, k) > S
    BY <1>5
  <2>3. \A i \in 0..n : i < k => Off(F, i) <= S
    <3> SUFFICES ASSUME NEW i \in 0..n, i < k, ~(Off(F, i) <= S)
                 PROVE  FALSE
      OBVIOUS
    <3>1. Off(F, i) \in Nat
      <4>1. CASE i = 0
        BY <1>3, <4>1
      <4>2. CASE i # 0
        <5>1. i \in 1..n
          BY <4>2
        <5> QED
          BY <1>2, <5>1
      <4> QED
        BY <4>1, <4>2
    <3>2. i \in Behind
      BY <1>1, <3>1
    <3> QED
      BY <1>5, <2>2, <3>2
  <2> QED
    BY <1>0, <2>1, <2>2, <2>3
<1> HIDE DEF Behind
<1> DEFINE Whole(i) == [next |-> Off(F, i) + 1, tokens |-> SubSeq(ts, 1, i)]
           D == NextBulk(s, stale, Whole(k - 1))
           C == [i \in 0..n |-> IF i < k THEN Whole(i) ELSE D]
<1>7. \A i \in 0..n : Whole(i).next = Off(F, i) + 1 /\ Whole(i).tokens = SubSeq(ts, 1, i) /\ Len(SubSeq(ts, 1, i)) = i
  <2> TAKE i \in 0..n
  <2>1. Len(SubSeq(ts, 1, i)) = IF 1 <= i THEN i - 1 + 1 ELSE 0
    <3>1. i \in Int /\ 1 \in Int
      BY <1>0
    <3>2. \A j \in 1..i : ts[j] \in T
      BY <1>0
    <3> HIDE DEF T
    <3> QED
      BY <3>1, <3>2, SubSeqProperties
  <2> QED
    BY <1>0, <2>1
<1> HIDE DEF Whole
<1>8. /\ D.next < 0 \/ D.next > S
      /\ D.next = Again \/ (D.next \in Nat /\ Len(D.tokens) # n)
  <2> DEFINE w == Whole(k - 1)
             o == Off(F, k - 1)
  <2>1. w.next = o + 1 /\ Len(w.tokens) = k - 1 /\ o \in Nat /\ o <= S /\ k - 1 < n
    <3>1. k \in Nat /\ k - 1 < k /\ k - 1 < n
      BY <1>0, <1>6
    <3>2. o \in Nat
      BY <1>2, <1>6
    <3>3. o <= S
      BY <1>6, <3>1
    <3>4. w.next = o + 1 /\ w.tokens = SubSeq(ts, 1, k - 1) /\ Len(SubSeq(ts, 1, k - 1)) = k - 1
      BY <1>6, <1>7
    <3> HIDE DEF o, w
    <3> QED
      BY <3>1, <3>2, <3>3, <3>4
  <2>2. CASE o = S
    <3>1. w.next > S
      BY <1>1, <2>1, <2>2
    <3> HIDE DEF w
    <3>2. D = w
      BY <3>1 DEF NextBulk, w, S
    <3> HIDE DEF D
    <3> QED
      BY <2>1, <3>1, <3>2
  <2>3. CASE o < S
    <3> DEFINE b == Bulk(s, o + 1, stale)
    <3>1. BulkGives(b, ts, F, s, k)
      <4>1. k \in 1..Len(ts) /\ Off(F, k - 1) < Len(s)
        BY <1>6, <2>3 DEF n, S
      <4> QED
        BY <4>1, BulkStep
    <3>2. D = [next |-> b.next, tokens |-> Append(w.tokens, b.token)]
      <4>1. ~(w.next < 0 \/ w.next > S)
        BY <1>1, <2>1, <2>3
      <4> HIDE DEF w
      <4>2. D = [next |-> Bulk(s, w.next, stale).next,
                 tokens |-> Append(w.tokens, Bulk(s, w.next, stale).token)]
        BY <4>1, Zenon DEF NextBulk, D, w, S
      <4>3. w.next = o + 1
        BY <2>1
      <4> QED
        BY <4>2, <4>3
    <3> HIDE DEF b, w, D
    <3>3. \/ b = [next |-> Again, token |-> Unset]
          \/ b = [next |-> S + 1, token |-> Unset] /\ Off(F, k) # Len(R)
      BY <1>6, <3>1 DEF BulkGives, S, R
    <3>4. CASE b = [next |-> Again, token |-> Unset]
      <4>1. D.next = Again /\ Again < 0
        BY <3>2, <3>4 DEF Again
      <4> QED
        BY <4>1
    <3>5. CASE b = [next |-> S + 1, token |-> Unset] /\ Off(F, k) # Len(R)
      <4>1. D.next = S + 1 /\ D.tokens = Append(w.tokens, Unset)
        BY <3>2, <3>5
      <4>2. k # n
        BY <1>4, <3>5
      <4>3. Len(Append(w.tokens, Unset)) = k
        <5>1. w.tokens = SubSeq(ts, 1, k - 1)
          BY <1>6, <1>7 DEF w
        <5> DEFINE U == T \cup {Unset}
        <5>2. w.tokens \in Seq(U)
          <6>1. k - 1 \in Int /\ 1 \in Int /\ \A j \in 1..k - 1 : ts[j] \in U
            BY <1>0, <1>6
          <6> HIDE DEF U
          <6> QED
            BY <5>1, <6>1, SubSeqProperties
        <5>3. Unset \in U
          OBVIOUS
        <5> HIDE DEF U
        <5>4. Len(Append(w.tokens, Unset)) = Len(w.tokens) + 1
          BY <5>2, <5>3, AppendProperties
        <5> QED
          BY <1>0, <1>6, <2>1, <5>4
      <4> QED
        BY <1>0, <1>1, <1>6, <4>1, <4>2, <4>3
    <3> QED
      BY <3>3, <3>4, <3>5
  <2> QED
    BY <1>1, <2>1, <2>2, <2>3
<1> HIDE DEF D
<1>9. \A i \in 0..n : C[i] = IF i < k THEN Whole(i) ELSE D
  OBVIOUS
<1>a. C[0] = FirstBulk(s, stale)
  <2>1. SubSeq(ts, 1, 0) = <<>> /\ 0 \in 0..n /\ 4 + 1 = 5 /\ 0 < k
    BY <1>0, <1>6, SubSeqEmpty
  <2> HIDE DEF C
  <2> QED
    BY <1>3, <1>9, <2>1 DEF Whole
<1> HIDE DEF C
<1>b. ASSUME NEW i \in 1..n
      PROVE  C[i] = NextBulk(s, stale, C[i - 1])
  <2>0. i \in 0..n /\ i - 1 \in 0..n /\ i \in Nat /\ k \in Nat
    BY <1>0, <1>6
  <2>1. CASE i < k
    <3> DEFINE w == Whole(i - 1)
               o == Off(F, i - 1)
               b == Bulk(s, o + 1, stale)
    <3>1. Off(F, i) <= S /\ o < S /\ o \in Nat
      BY <1>1, <1>2, <1>6, <2>0, <2>1
    <3>2. b = [next |-> Off(F, i) + 1, token |-> ts[i]]
      <4>1. i \in 1..Len(ts) /\ Off(F, i - 1) < Len(s)
        BY <3>1 DEF n, S
      <4>2. BulkGives(b, ts, F, s, i)
        BY <4>1, BulkStep
      <4> HIDE DEF b
      <4> QED
        BY <3>1, <4>2 DEF BulkGives, S
    <3>3. w.next = o + 1 /\ w.tokens = SubSeq(ts, 1, i - 1)
      BY <1>7, <2>0
    <3>4. ~(w.next < 0 \/ w.next > S)
      BY <1>1, <3>1, <3>3
    <3> HIDE DEF w
    <3>5. NextBulk(s, stale, w) = [next |-> Bulk(s, w.next, stale).next,
                                   tokens |-> Append(w.tokens, Bulk(s, w.next, stale).token)]
      BY <3>4, Zenon DEF NextBulk, S
    <3>6. NextBulk(s, stale, w) = [next |-> b.next, tokens |-> Append(w.tokens, b.token)]
      BY <3>3, <3>5
    <3>7. b.next = Off(F, i) + 1 /\ b.token = ts[i]
      BY <3>2
    <3> HIDE DEF b
    <3>8. NextBulk(s, stale, w) = [next |-> Off(F, i) + 1, tokens |-> Append(SubSeq(ts, 1, i - 1), ts[i])]
      BY <3>3, <3>6, <3>7
    <3>9. Append(SubSeq(ts, 1, i - 1), ts[i]) = SubSeq(ts, 1, i)
      BY <1>0, OneTokenMore DEF n
    <3>10. C[i - 1] = w /\ C[i] = Whole(i)
      BY <1>9, <2>0, <2>1 DEF w
    <3> QED
      BY <3>8, <3>9, <3>10 DEF Whole
  <2>2. CASE i = k
    <3>1. C[i] = D /\ C[i - 1] = Whole(k - 1)
      BY <1>9, <2>0, <2>2
    <3> QED
      BY <3>1 DEF D
  <2>3. CASE i > k
    <3>1. C[i] = D /\ C[i - 1] = D
      BY <1>9, <2>0, <2>3
    <3>2. NextBulk(s, stale, D) = D
      BY <1>8 DEF NextBulk, S
    <3> QED
      BY <3>1, <3>2
  <2> QED
    BY <2>0, <2>1, <2>2, <2>3
<1>c. AllBulks(s, stale) = C[n]
  BY <1>0, <1>a, <1>b, BulksInOrder
<1>d. C[n] = D
  <2>1. n \in 0..n /\ ~(n < k)
    BY <1>0, <1>6
  <2> QED
    BY <1>9, <2>1
<1> QED
  BY <1>8, <1>c, <1>d DEF n, S

\* What the parser says of the beginning of a request: all of it, or that it wants more.
ParseGives(r, s, ts) ==
  /\ Len(s) >= Len(Request(ts)) => r = [next |-> Len(Request(ts)) + 1, tokens |-> ts]
  /\ Len(s) < Len(Request(ts)) => r.next = Again

\* Wherever a request is cut, two places excepted (ReadOf), and whatever byte is behind,
\* the parser takes all of it and its tokens, or asks for more (RedisProto::parse).
THEOREM ParseIs ==
  ASSUME NEW ts, RequestOK(ts), NEW s, ReadOf(s, ts), NEW stale
  PROVE  ParseGives(Parse(s, stale), s, ts)
<1> DEFINE n == Len(ts)
           R == Request(ts)
           L == Len(s)
           A == AllBulks(s, stale)
           M == MultiBulk(s, stale)
<1>0. n \in 1..9 /\ RequestAs(R, ts)
  BY RequestIs DEF RequestOK
<1>1. /\ Len(R) \in Nat /\ Len(R) >= 4
      /\ R[1] = "*" /\ R[2] = Digit(n) /\ R[3] = "CR" /\ R[4] = "LF"
  <2>1. /\ Len(Body(ts)) \in Nat /\ Len(R) = Len(Body(ts)) + 4
        /\ R[1] = "*" /\ R[2] = Digit(n) /\ R[3] = "CR" /\ R[4] = "LF"
    BY <1>0 DEF RequestAs
  <2> HIDE DEF R
  <2> QED
    BY <2>1
<1>2. /\ s \in Seq(Letters) /\ L >= 1
      /\ \A x \in 1..L : x <= Len(R) => s[x] = R[x]
      /\ L >= 3 => ~(s[L] = "CR" /\ s[L - 2] \in {"*", "$"})
  BY DEF ReadOf
<1>3. L \in Nat
  BY <1>2, LenProperties
<1> HIDE DEF R, L
<1>4. /\ s[1] = "*"
      /\ L >= 2 => s[2] = Digit(n)
      /\ L >= 3 => s[3] = "CR"
      /\ L >= 4 => s[4] = "LF"
  BY <1>1, <1>2, <1>3
<1>5. Parse(s, stale) = M
  <2>1. s[1] = "*" /\ ~(s[1] = "$") /\ ~(s[1] \in {"plus", "minus"}) /\ ~(s[1] = "colon")
    BY <1>4
  <2> QED
    BY <2>1 DEF Parse
<1>6. L # 3
  <2> SUFFICES ASSUME L = 3
               PROVE  FALSE
    OBVIOUS
  <2>1. s[L] = "CR" /\ s[L - 2] = "*" /\ L >= 3
    BY <1>4
  <2> QED
    BY <1>2, <2>1
<1>7. CASE L = 1
  <2>1. M = [next |-> Again, tokens |-> <<>>]
    <3>1. Len(s) = 1 /\ ~(Len(s) > 1)
      BY <1>7 DEF L
    <3> HIDE DEF A, M
    <3> QED
      BY <3>1, MultiBulkIs DEF M
  <2> QED
    BY <1>1, <1>5, <1>7, <2>1 DEF ParseGives, L, R
<1>8. L >= 2 => NumberLine(s, 2, stale) = [next |-> IF L = 2 THEN Again ELSE 5, num |-> n]
  <2> HAVE L >= 2
  <2>1. 2 \in 1..L /\ n \in 0..9 /\ 2 + 1 = 3 /\ 2 + 2 = 4 /\ 2 + 3 = 5
    BY <1>0, <1>3
  <2>2. /\ s[2] = Digit(n)
        /\ 2 + 1 <= L => s[2 + 1] = "CR"
        /\ 2 + 2 <= L => s[2 + 2] = "LF"
        /\ L # 2 + 1
    BY <1>3, <1>4, <1>6
  <2>3. NumberLine(s, 2, stale) = [next |-> IF L = 2 THEN Again ELSE 2 + 3, num |-> n]
    BY <1>2, <2>1, <2>2, NumberLineIs DEF L
  <2> QED
    BY <2>1, <2>3
<1>9. L >= 2 => FirstBulk(s, stale) = [next |-> IF L = 2 THEN Again ELSE 5, tokens |-> <<>>] /\ Argc(s, stale) = n
  BY <1>8 DEF FirstBulk, Argc
<1>a. CASE L = 2
  <2> DEFINE f == FirstBulk(s, stale)
             C == [i \in 0..n |-> f]
  <2>1. f.next = Again /\ Again < 0 /\ Argc(s, stale) = n
    BY <1>9, <1>a DEF Again
  <2>2. NextBulk(s, stale, f) = f
    <3> HIDE DEF f
    <3> QED
      BY <2>1 DEF NextBulk
  <2>3. n \in Nat /\ C[0] = f /\ C[n] = f /\ \A i \in 1..n : C[i] = f /\ C[i - 1] = f
    BY <1>0
  <2> HIDE DEF C, f
  <2>4. \A i \in 1..n : C[i] = NextBulk(s, stale, C[i - 1])
    BY <2>2, <2>3
  <2>5. A = C[n]
    <3>1. C[0] = FirstBulk(s, stale)
      BY <2>3 DEF f
    <3> HIDE DEF n
    <3> QED
      BY <2>1, <2>3, <2>4, <3>1, BulksInOrder
  <2>6. A.next = Again /\ A.next < 0
    BY <2>1, <2>3, <2>5
  <2>7. M.next = Again
    <3>1. ~(Len(s) = 1) /\ Len(s) > 1 /\ ~(A.next >= 0)
      BY <1>a, <2>6 DEF L, Again
    <3> HIDE DEF A
    <3>2. M = [next |-> A.next, tokens |-> <<>>]
      BY <2>6, <3>1, MultiBulkIs DEF A
    <3> QED
      BY <2>6, <3>2
  <2> HIDE DEF M
  <2> QED
    BY <1>1, <1>5, <1>a, <2>7 DEF ParseGives, L, R
<1>b. CASE L >= 4
  <2>1. FirstBulk(s, stale) = [next |-> 5, tokens |-> <<>>] /\ Argc(s, stale) = n
    BY <1>3, <1>9, <1>b
  <2>2. PICK F : Chain(F, BodyParts(ts), n, Letters) /\ F[n] = Body(ts)
    BY BodyChain
  <2>3. ~(Len(s) = 1) /\ Len(s) > 1
    BY <1>3, <1>b DEF L
  <2>4. CASE L >= Len(R)
    <3>1. A = [next |-> Len(R) + 1, tokens |-> ts]
      BY <2>1, <2>2, <2>4, WholeRequest DEF L, R
    <3>2. A.next = Len(R) + 1 /\ A.tokens = ts
      BY <3>1
    <3>3. ~(A.next < 0) /\ A.next >= 0 /\ Len(A.tokens) = Argc(s, stale)
      BY <1>1, <2>1, <3>2
    <3>4. M = A
      <4> HIDE DEF A, M
      <4> QED
        BY <2>3, <3>3, MultiBulkIs DEF A, M
    <3>5. ~(L < Len(R))
      BY <1>1, <1>3, <2>4
    <3> HIDE DEF A, M
    <3> QED
      BY <1>5, <3>1, <3>4, <3>5 DEF ParseGives, L, R
  <2>5. CASE L < Len(R)
    <3>1. A.next = Again \/ (A.next \in Nat /\ Len(A.tokens) # n)
      BY <1>b, <2>1, <2>2, <2>5, PartOfRequest DEF L, R
    <3>2. M.next = Again
      <4>1. CASE A.next = Again
        <5>1. A.next < 0 /\ ~(A.next >= 0)
          BY <4>1 DEF Again
        <5> HIDE DEF A
        <5>2. M = [next |-> A.next, tokens |-> <<>>]
          BY <2>3, <5>1, MultiBulkIs DEF A
        <5> HIDE DEF M
        <5> QED
          BY <4>1, <5>2
      <4>2. CASE A.next # Again
        <5>1. A.next \in Nat /\ Len(A.tokens) # Argc(s, stale)
          BY <2>1, <3>1, <4>2
        <5>2. ~(A.next < 0) /\ A.next >= 0
          BY <5>1
        <5> HIDE DEF A
        <5>3. M = [next |-> Again, tokens |-> <<>>]
          BY <2>3, <5>1, <5>2, MultiBulkIs DEF A
        <5> HIDE DEF M
        <5> QED
          BY <5>3
      <4> QED
        BY <4>1, <4>2
    <3>3. ~(L >= Len(R))
      BY <1>1, <1>3, <2>5
    <3> HIDE DEF M
    <3> QED
      BY <1>5, <3>2, <3>3 DEF ParseGives, L, R
  <2> QED
    BY <1>1, <1>3, <2>4, <2>5
<1> QED
  BY <1>3, <1>2, <1>6, <1>7, <1>a, <1>b

-----------------------------------------------------------------------------
(* Serving a connection *)

\* Where the k-th request of a client ends.
End(c, k) == Len(Stream(SubSeq(Script(c), 1, k)))

Halves == Nat \X {1, 2}

\* What a client has been promised and not been sent.
Owed(c) == SubSeq(sendBuff[c], sendBytes[c] + 1, Len(sendBuff[c]))

\* Where the parser stands: at the end of a request.
ParsedOK(c, n) ==
  /\ n \in 0..Len(Script(c)) /\ handled[c] = SubSeq(Script(c), 1, n)
  /\ parsed[c] \in Nat /\ taken[c] \in Nat /\ parsed[c] <= taken[c] /\ taken[c] <= Len(Bytes(c))
  /\ taken[c] = 0 \/ ~Unlucky(c, taken[c])
  /\ at[c] \in {"new", "read"} \cup Sending => parsed[c] = End(c, n)
  /\ at[c] = "new" => taken[c] = 0
  /\ at[c] = "read" /\ n < Len(Script(c)) => taken[c] < End(c, n + 1)
  /\ at[c] \in Sending => taken[c] = parsed[c]
  /\ at[c] = "handle" => n < Len(Script(c)) /\ request[c] = Script(c)[n + 1] /\ parsed[c] = End(c, n + 1)
  /\ at[c] = "closed" => c \in hungup

\* What has been sent, and what waits to be.
RepliesOK(c, n) ==
  /\ Begins(answered[c], Replies(n))
  /\ answered[c] \in Seq(Halves) /\ sendBuff[c] \in Seq(Halves)
  /\ sendBytes[c] \in 0..Len(sendBuff[c])
  /\ at[c] \in {"new", "read", "handle"} \cup Sending => answered[c] \o Owed(c) = Replies(n)
  /\ at[c] \in {"new", "read", "handle"} => sendBytes[c] = 0
  /\ at[c] \in {"finish", "push", "count", "counting"} => sendBytes[c] = Len(sendBuff[c])
  /\ at[c] \in {"new", "read"} /\ parsed[c] = taken[c] => sendBuff[c] = <<>>

\* Of n requests, those that have been run.
ServeOK(c) == \E n \in Nat : ParsedOK(c, n) /\ RepliesOK(c, n)

ServeTypeOK ==
  /\ scenario \in Scenarios
  /\ at \in [Clients -> Places]
  /\ hungup \subseteq Clients
  /\ DOMAIN taken = Clients /\ DOMAIN parsed = Clients /\ DOMAIN request = Clients
  /\ DOMAIN handled = Clients /\ DOMAIN answered = Clients
  /\ DOMAIN sendBuff = Clients /\ DOMAIN sendBytes = Clients

ServeInv == ServeTypeOK /\ \A c \in Clients \ unlucky : ServeOK(c)

-----------------------------------------------------------------------------
(* The requests of a client *)

LEMMA OwnRange ==
  ASSUME NEW A, NEW s \in Seq(A)
  PROVE  s \in Seq(Range(s))
<1> DEFINE n == Len(s)
<1>1. n \in Nat /\ s \in [1..n -> A] /\ DOMAIN s = 1..n
  BY LenProperties
<1>2. s \in [1..n -> Range(s)]
  BY <1>1 DEF Range
<1> HIDE DEF n
<1> QED
  BY <1>1, <1>2

LEMMA ScriptIs ==
  ASSUME scenario \in Scenarios, NEW c \in Clients
  PROVE  /\ ScriptOK(Script(c)) /\ Bytes(c) = Stream(Script(c)) /\ Script(c) \in Scripts
         /\ scenario.cuts[c] \subseteq 1..Len(Bytes(c))
<1>1. Script(c) \in Scripts
  BY DEF Scripts, Script
<1>2. Script(c) \in Seq(Seq(Seq(STRING)))
  BY <1>1, ScenarioAssumption
<1>3. Bytes(c) = Stream(Script(c))
  BY <1>1 DEF Bytes, StreamOf
<1>4. scenario.cuts[c] \subseteq 1..Len(Bytes(c))
  BY ScenarioAssumption DEF Bytes, Script
<1> DEFINE sc == Script(c)
           n == Len(sc)
<1>5. n \in Nat /\ DOMAIN sc = 1..n /\ \A i \in 1..n : sc[i] \in Seq(Seq(STRING))
  BY <1>2, LenProperties
<1>6. sc \in Seq(Range(sc))
  BY <1>2, OwnRange
<1>7. ASSUME NEW i \in 1..n
      PROVE  RequestOK(sc[i])
  <2> DEFINE ts == sc[i]
  <2>1. ts \in Seq(Seq(STRING)) /\ Len(ts) \in 1..9
    BY <1>1, <1>5, ScenarioAssumption
  <2>2. DOMAIN ts = 1..Len(ts)
    BY <2>1, LenProperties
  <2>3. \A j \in 1..Len(ts) : Len(ts[j]) \in 0..9
    BY <1>1, <1>5, <2>2, ScenarioAssumption
  <2>4. \A j \in 1..Len(ts) : ts[j] \in Seq(STRING)
    BY <2>1, ElementOfSeq
  <2> HIDE DEF ts
  <2> QED
    BY <2>1, <2>2, <2>3, <2>4 DEF RequestOK, TokenOK, ts
<1> QED
  BY <1>1, <1>3, <1>4, <1>6, <1>7 DEF ScriptOK

\* Where the k-th request ends, the next one begins.
NextEnd(c, k) ==
  LET R == Request(Script(c)[k + 1])
  IN /\ End(c, k) \in Nat /\ Len(R) \in Nat /\ Len(R) >= 4
     /\ End(c, k + 1) = End(c, k) + Len(R) /\ End(c, k + 1) <= Len(Bytes(c))
     /\ \A x \in 1..Len(R) : Bytes(c)[End(c, k) + x] = R[x]

LEMMA EndsAre ==
  ASSUME scenario \in Scenarios, NEW c \in Clients
  PROVE  /\ Len(Script(c)) \in Nat /\ Bytes(c) \in Seq(Letters) /\ Len(Bytes(c)) \in Nat
         /\ End(c, 0) = 0 /\ End(c, Len(Script(c))) = Len(Bytes(c))
         /\ \A k \in 0..Len(Script(c)) - 1 : NextEnd(c, k)
<1> DEFINE sc == Script(c)
           n == Len(sc)
           p == StreamParts(sc)
           B == Bytes(c)
<1>1. ScriptOK(sc) /\ B = Stream(sc)
  BY ScriptIs
<1>2. n \in Nat
  BY <1>1, LenProperties DEF ScriptOK
<1>3. PICK F : /\ Chain(F, p, n, Letters)
               /\ \A k \in 0..n : Stream(SubSeq(sc, 1, k)) = F[k]
               /\ F[n] = Stream(sc)
  BY <1>1, StreamIs
<1>4. \A k \in 0..n : End(c, k) = Len(F[k])
  BY <1>3 DEF End
<1>5. \A i \in 1..n : p[i] = Request(sc[i]) /\ RequestAs(p[i], sc[i])
  BY <1>1, RequestIs DEF StreamParts, ScriptOK
<1>6. End(c, 0) = 0
  <2>1. F[0] = <<>> /\ 0 \in 0..n
    BY <1>2, <1>3 DEF Chain
  <2> QED
    BY <1>4, <2>1
<1>7. End(c, n) = Len(B) /\ B \in Seq(Letters) /\ Len(B) \in Nat
  <2>1. n \in 0..n
    BY <1>2
  <2>2. F[n] \in Seq(Letters)
    BY <1>3, <2>1 DEF Chain
  <2>3. End(c, n) = Len(F[n]) /\ B = F[n]
    BY <1>1, <1>3, <1>4, <2>1
  <2> HIDE DEF n, B
  <2> QED
    BY <2>2, <2>3, LenProperties
<1>8. ASSUME NEW k \in 0..n - 1
      PROVE  NextEnd(c, k)
  <2> DEFINE i == k + 1
             R == Request(sc[i])
  <2>1. i \in 1..n /\ i - 1 = k /\ k \in 0..n /\ i \in 0..n
    BY <1>2
  <2>2. p[i] = R /\ RequestAs(R, sc[i])
    BY <1>5, <2>1
  <2>3. PartIn(F[n], F, p, i)
    <3> HIDE DEF n, p, i
    <3> QED
      BY <1>2, <1>3, <2>1, PartAt
  <2>4. Len(R) \in Nat /\ Len(R) >= 4
    <3>1. Len(Body(sc[i])) \in Nat /\ Len(R) = Len(Body(sc[i])) + 4
      BY <2>2 DEF RequestAs
    <3> HIDE DEF R
    <3> QED
      BY <3>1
  <2>5. F[n] = B /\ End(c, k) = Len(F[k]) /\ End(c, i) = Len(F[i])
    BY <1>1, <1>3, <1>4, <2>1
  <2> HIDE DEF i, R, B, n, p
  <2>6. /\ Len(F[i]) = Len(F[k]) + Len(R) /\ Len(F[k]) \in Nat /\ Len(F[i]) <= Len(B)
        /\ \A x \in 1..Len(R) : B[Len(F[k]) + x] = R[x]
    BY <2>1, <2>2, <2>3, <2>5 DEF PartIn
  <2> QED
    BY <2>4, <2>5, <2>6 DEF NextEnd, i, R, B
<1> QED
  BY <1>2, <1>6, <1>7, <1>8

LEMMA InParts ==
  ASSUME NEW sc \in Scripts, NEW i \in 1..Len(StreamOf[sc]), NEW j \in 1..Len(StreamOf[sc]),
         NEW s, s = SubSeq(StreamOf[sc], i, j), s # <<>>
  PROVE  s \in Parts
BY DEF Parts

\* What a client has sent behind a request is the beginning of the next one.
LEMMA ReadIs ==
  ASSUME scenario \in Scenarios, NEW c \in Clients, NEW k \in 0..Len(Script(c)) - 1,
         NEW to \in End(c, k) + 1..Len(Bytes(c)), ~Unlucky(c, to)
  PROVE  /\ ReadOf(SubSeq(Bytes(c), End(c, k) + 1, to), Script(c)[k + 1])
         /\ Len(SubSeq(Bytes(c), End(c, k) + 1, to)) = to - End(c, k)
         /\ SubSeq(Bytes(c), End(c, k) + 1, to) \in Parts
<1> DEFINE B == Bytes(c)
           a == End(c, k)
           s == SubSeq(B, a + 1, to)
           n == Len(s)
           R == Request(Script(c)[k + 1])
           N == Len(Script(c))
<1>1. /\ N \in Nat /\ B \in Seq(Letters) /\ Len(B) \in Nat
      /\ End(c, N) = Len(B) /\ \A j \in 0..N - 1 : NextEnd(c, j)
  BY EndsAre
<1>2. /\ a \in Nat /\ Len(R) \in Nat /\ Len(R) >= 4 /\ End(c, k + 1) = a + Len(R) /\ a + Len(R) <= Len(B)
      /\ \A x \in 1..Len(R) : B[a + x] = R[x]
  BY <1>1 DEF NextEnd
<1> HIDE DEF a, B, R, N
<1>3. to \in Nat /\ to > a /\ to <= Len(B) /\ to >= 1
  BY <1>1, <1>2 DEF a, B
<1>4. s \in Seq(Letters) /\ n = to - a /\ \A x \in 1..n : s[x] = B[a + x]
  <2>1. a + 1 \in Int /\ to \in Int /\ to - (a + 1) + 1 = to - a /\ a + 1 <= to
    BY <1>2, <1>3
  <2>2. \A i \in a + 1..to : B[i] \in Letters
    <3>1. \A i \in a + 1..to : i \in 1..Len(B)
      BY <1>1, <1>2, <1>3
    <3> QED
      BY <1>1, <3>1, ElementOfSeq
  <2>3. /\ s \in Seq(Letters) /\ Len(s) = IF a + 1 <= to THEN to - (a + 1) + 1 ELSE 0
        /\ \A i \in 1..to - (a + 1) + 1 : s[i] = B[a + 1 + i - 1]
    BY <2>1, <2>2, SubSeqProperties
  <2> HIDE DEF s
  <2>4. n = to - a
    BY <2>1, <2>3
  <2>5. \A x \in 1..n : s[x] = B[a + x]
    <3> TAKE x \in 1..n
    <3>1. a + 1 + x - 1 = a + x /\ x \in 1..to - (a + 1) + 1
      BY <1>2, <2>1, <2>4
    <3> QED
      BY <2>3, <3>1
  <2> QED
    BY <2>3, <2>4, <2>5
<1>5. s \in Parts
  <2>1. s # <<>>
    <3>1. n # 0
      BY <1>2, <1>3, <1>4
    <3> HIDE DEF s
    <3> QED
      BY <3>1, EmptySeq
  <2>2. Script(c) \in Scripts /\ B = StreamOf[Script(c)]
    BY ScriptIs DEF B, Bytes
  <2>3. a + 1 \in 1..Len(B) /\ to \in 1..Len(B)
    BY <1>1, <1>2, <1>3
  <2> HIDE DEF s
  <2>4. s = SubSeq(StreamOf[Script(c)], a + 1, to)
    BY <2>2 DEF s
  <2> QED
    BY <2>1, <2>2, <2>3, <2>4, InParts
<1> HIDE DEF s, n
<1>6. \A x \in 1..n : x <= Len(R) => s[x] = R[x]
  BY <1>2, <1>4
<1>7. n \in Nat /\ n >= 1
  BY <1>2, <1>3, <1>4
<1>8. n >= 3 => ~(s[n] = "CR" /\ s[n - 2] \in {"*", "$"})
  <2> SUFFICES ASSUME n >= 3, s[n] = "CR", s[n - 2] \in {"*", "$"}
               PROVE  FALSE
    OBVIOUS
  <2>1. n \in 1..n /\ n - 2 \in 1..n /\ a + n = to /\ a + (n - 2) = to - 2
    BY <1>2, <1>3, <1>4, <1>7
  <2>2. B[to] = "CR" /\ B[to - 2] \in {"*", "$"}
    BY <1>4, <2>1
  <2> QED
    BY <2>2 DEF Unlucky, B
<1>9. n >= 4 /\ n + 2 = Len(R) =>
        ~(s[n - 3] = "$" /\ s[n - 2] = "0" /\ s[n - 1] = "CR" /\ s[n] = "LF")
  <2> SUFFICES ASSUME n >= 4, n + 2 = Len(R), s[n - 3] = "$", s[n - 2] = "0", s[n - 1] = "CR", s[n] = "LF"
               PROVE  FALSE
    OBVIOUS
  <2>1. /\ n \in 1..n /\ n - 1 \in 1..n /\ n - 2 \in 1..n /\ n - 3 \in 1..n
        /\ a + n = to /\ a + (n - 1) = to - 1 /\ a + (n - 2) = to - 2 /\ a + (n - 3) = to - 3
        /\ to >= 4
    BY <1>2, <1>3, <1>4, <1>7
  <2>2. B[to - 3] = "$" /\ B[to - 2] = "0" /\ B[to - 1] = "CR" /\ B[to] = "LF"
    BY <1>4, <2>1
  <2> DEFINE u == SubSeq(B, to - 3, to)
             v == <<"$", "0", "CR", "LF">>
  <2>3. u = v
    <3>1. to - 3 \in Int /\ to \in Int /\ to - (to - 3) + 1 = 4 /\ to - 3 <= to
      BY <1>3
    <3>2. \A i \in to - 3..to : B[i] \in Letters
      <4>1. \A i \in to - 3..to : i \in 1..Len(B)
        BY <1>1, <1>3, <2>1
      <4> QED
        BY <1>1, <4>1, ElementOfSeq
    <3>3. /\ u \in Seq(Letters) /\ Len(u) = IF to - 3 <= to THEN to - (to - 3) + 1 ELSE 0
          /\ \A i \in 1..to - (to - 3) + 1 : u[i] = B[to - 3 + i - 1]
      BY <3>1, <3>2, SubSeqProperties
    <3> HIDE DEF u
    <3>4. Len(u) = 4
      BY <3>1, <3>3
    <3>5. u[1] = B[to - 3] /\ u[2] = B[to - 2] /\ u[3] = B[to - 1] /\ u[4] = B[to]
      <4>1. /\ 1 \in 1..4 /\ 2 \in 1..4 /\ 3 \in 1..4 /\ 4 \in 1..4
            /\ to - 3 + 1 - 1 = to - 3 /\ to - 3 + 2 - 1 = to - 2
            /\ to - 3 + 3 - 1 = to - 1 /\ to - 3 + 4 - 1 = to
        BY <1>3
      <4> QED
        BY <3>1, <3>3, <4>1
    <3>6. Len(v) = 4 /\ v[1] = "$" /\ v[2] = "0" /\ v[3] = "CR" /\ v[4] = "LF"
      OBVIOUS
    <3>7. v \in Seq(Letters)
      <4>1. Digit(0) = "0" /\ 0 \in 0..9
        BY DEF Digit, Digits
      <4>2. "0" \in Letters
        BY <4>1, DigitIs
      <4>3. "$" \in Letters /\ "CR" \in Letters /\ "LF" \in Letters
        BY DEF Letters
      <4> QED
        BY <4>2, <4>3
    <3> HIDE DEF v
    <3>8. \A i \in 1..4 : u[i] = v[i]
      BY <2>2, <3>5, <3>6
    <3> QED
      BY <3>3, <3>4, <3>6, <3>7, <3>8, SeqEqual
  <2>4. to + 2 = Len(B) \/ B[to + 3] = "*"
    <3>a. k \in 0..N - 1
      BY DEF N
    <3>b. k \in Nat /\ k + 1 <= N
      BY <1>1, <3>a
    <3>c. n = Len(R) - 2 /\ n = to - a
      BY <1>2, <1>4, <1>7
    <3>d. End(c, k + 1) = to + 2
      <4>1. End(c, k + 1) = a + Len(R)
        BY <1>2
      <4>2. a + Len(R) = to + 2
        <5>1. a \in Nat /\ Len(R) \in Nat
          BY <1>2
        <5>2. to \in Nat
          BY <1>3
        <5> QED
          BY <3>c, <5>1, <5>2
      <4> QED
        BY <4>1, <4>2
    <3>1. End(c, k + 1) = to + 2 /\ k \in Nat /\ k + 1 <= N
      BY <3>b, <3>d
    <3>2. CASE k + 1 = N
      BY <1>1, <3>1, <3>2
    <3>3. CASE k + 1 # N
      <4>1. k + 1 \in 0..N - 1
        BY <1>1, <3>1, <3>3
      <4>2. NextEnd(c, k + 1)
        BY <1>1, <4>1
      <4> DEFINE Q == Request(Script(c)[k + 1 + 1])
      <4>3. Len(Q) \in Nat /\ Len(Q) >= 4 /\ \A x \in 1..Len(Q) : B[End(c, k + 1) + x] = Q[x]
        BY <4>2 DEF NextEnd, B
      <4>4. Q[1] = "*"
        <5>1. ScriptOK(Script(c)) /\ k + 1 + 1 \in 1..N
          BY <1>1, <3>1, <4>1, ScriptIs
        <5>2. RequestOK(Script(c)[k + 1 + 1])
          BY <5>1 DEF ScriptOK, N
        <5> QED
          BY <5>2, RequestIs DEF RequestAs
      <4> HIDE DEF Q
      <4>5. 1 \in 1..Len(Q) /\ End(c, k + 1) + 1 = to + 3
        BY <1>3, <3>1, <4>3
      <4> QED
        BY <4>3, <4>4, <4>5
    <3> QED
      BY <3>2, <3>3
  <2> HIDE DEF u, v
  <2>5. Unlucky(c, to)
    BY <2>1, <2>3, <2>4 DEF Unlucky, B, u, v
  <2> QED
    BY <2>5
<1>10. ReadOf(s, Script(c)[k + 1])
  BY <1>4, <1>6, <1>7, <1>8, <1>9 DEF ReadOf, n, R
<1> QED
  BY <1>4, <1>5, <1>10 DEF s, n, a, B

-----------------------------------------------------------------------------
(* What a parse of a client's bytes leads to *)

\* Behind k requests, with the bytes up to to received: the next request is whole and
\* will be run, or more bytes are wanted.
ParsesOn(l, c, k, to) ==
  \/ /\ to >= End(c, k + 1) /\ Moves(c, "handle") /\ Takes(l, c)
     /\ parsed' = [parsed EXCEPT ![c] = End(c, k + 1)]
     /\ request' = [request EXCEPT ![c] = Script(c)[k + 1]]
  \/ /\ to < End(c, k + 1) /\ Moves(c, "read") /\ Leaves(l)
     /\ UNCHANGED <<parsed, request>>

LEMMA ParsesOnly ==
  ASSUME scenario \in Scenarios, NEW c \in Clients, NEW k \in 0..Len(Script(c)) - 1,
         NEW to \in End(c, k) + 1..Len(Bytes(c)), ~Unlucky(c, to),
         NEW l, Parses(l, c, End(c, k), to)
  PROVE  ParsesOn(l, c, k, to)
<1> DEFINE a == End(c, k)
           s == SubSeq(Bytes(c), a + 1, to)
           ts == Script(c)[k + 1]
           R == Request(ts)
<1>1. ReadOf(s, ts) /\ Len(s) = to - a /\ s \in Parts
  BY ReadIs
<1>2. RequestOK(ts)
  <2>1. ScriptOK(Script(c)) /\ Len(Script(c)) \in Nat
    BY ScriptIs, EndsAre
  <2>2. k + 1 \in 1..Len(Script(c))
    BY <2>1
  <2> QED
    BY <2>1, <2>2 DEF ScriptOK
<1>3. NextEnd(c, k) /\ Len(Bytes(c)) \in Nat
  BY EndsAre
<1>4. a \in Nat /\ Len(R) \in Nat /\ Len(R) >= 4 /\ End(c, k + 1) = a + Len(R)
  BY <1>3 DEF NextEnd
<1>5. to \in Nat
  BY <1>3, <1>4
<1> HIDE DEF s, R, ts
<1>6. PICK r \in ParseOf[s] :
        CASE r.next = Error -> /\ Moves(c, "closed") /\ Leaves(l)
                               /\ UNCHANGED <<parsed, request, key>>
          [] r.next = Again -> /\ Moves(c, "read") /\ Leaves(l)
                               /\ UNCHANGED <<parsed, request, key>>
          [] OTHER          -> /\ Moves(c, "handle") /\ Takes(l, c)
                               /\ parsed' = [parsed EXCEPT ![c] = a + r.next - 1]
                               /\ request' = [request EXCEPT ![c] = r.tokens]
                               /\ key' = [key EXCEPT ![c] =
                                    IF Len(r.tokens) > 1 /\ r.tokens[2] # Unset THEN r.tokens[2] ELSE Garbage]
  <2> HIDE DEF a
  <2> QED
    BY DEF Parses, s, a
<1>7. ParseOf[s] = {Parse(s, stale) : stale \in StaleBytes}
  BY <1>1 DEF ParseOf
<1>8. PICK stale \in StaleBytes : r = Parse(s, stale)
  BY <1>6, <1>7
<1>9. ParseGives(r, s, ts)
  BY <1>1, <1>2, <1>8, ParseIs
<1> HIDE DEF a
<1>10. CASE Len(s) >= Len(R)
  <2>1. r = [next |-> Len(R) + 1, tokens |-> ts]
    BY <1>9, <1>10 DEF ParseGives, R
  <2>2. r.next = Len(R) + 1 /\ r.tokens = ts
    BY <2>1
  <2>3. r.next # Error /\ r.next # Again /\ a + r.next - 1 = End(c, k + 1)
    BY <1>4, <2>2 DEF Error, Again
  <2>4. to >= End(c, k + 1)
    BY <1>1, <1>4, <1>5, <1>10
  <2>5. /\ Moves(c, "handle") /\ Takes(l, c)
        /\ parsed' = [parsed EXCEPT ![c] = a + r.next - 1]
        /\ request' = [request EXCEPT ![c] = r.tokens]
    BY <1>6, <2>3
  <2> QED
    BY <2>2, <2>3, <2>4, <2>5 DEF ParsesOn, ts
<1>11. CASE Len(s) < Len(R)
  <2>1. r.next = Again
    BY <1>9, <1>11 DEF ParseGives, R
  <2>2. r.next # Error
    BY <2>1 DEF Error, Again
  <2>3. to < End(c, k + 1)
    BY <1>1, <1>4, <1>5, <1>11
  <2>4. Moves(c, "read") /\ Leaves(l) /\ UNCHANGED <<parsed, request>>
    BY <1>6, <2>1, <2>2
  <2> QED
    BY <2>3, <2>4 DEF ParsesOn
<1>12. Len(s) >= Len(R) \/ Len(s) < Len(R)
  BY <1>1, <1>4, <1>5
<1> QED
  BY <1>10, <1>11, <1>12

-----------------------------------------------------------------------------
(* The replies to the first requests *)

LEMMA ReplyIs ==
  ASSUME NEW i \in Nat
  PROVE  Reply(i) \in Seq(Halves)
BY DEF Reply, Halves

Flatten(s, n) == CHOOSE f : f = [i \in 1..n |-> IF i = 1 THEN s[i] ELSE f[i - 1] \o s[i]]

LEMMA RepliesFold ==
  ASSUME NEW n \in Nat, n # 0
  PROVE  Replies(n) = Flatten([i \in 1..n |-> Reply(i)], n)[n]
<1> DEFINE s == [i \in 1..n |-> Reply(i)]
<1>1. Len(s) = n
  OBVIOUS
<1> HIDE DEF s
<1>2. FlattenSeq(s) = Flatten(s, n)[n]
  BY <1>1, Zenon DEF FlattenSeq, Flatten
<1> QED
  BY <1>2 DEF Replies, s

LEMMA RepliesChain ==
  ASSUME NEW n \in Nat
  PROVE  \E F : Chain(F, [i \in 1..n |-> Reply(i)], n, Halves) /\ F[n] = Replies(n)
<1> DEFINE p == [i \in 1..n |-> Reply(i)]
<1>1. \A i \in 1..n : p[i] \in Seq(Halves)
  BY ReplyIs
<1>2. PICK F : Chain(F, p, n, Halves)
  <2> HIDE DEF p
  <2>1. PICK h : ConcatFold(h, p, n)
    BY <1>1, ConcatExists
  <2> QED
    BY <1>1, <2>1, ConcatChain
<1>3. CASE n = 0
  <2>1. Replies(n) = <<>>
    <3>1. [i \in 1..0 |-> Reply(i)] = <<>>
      OBVIOUS
    <3> QED
      BY <1>3, <3>1 DEF Replies, FlattenSeq
  <2>2. F[n] = <<>>
    BY <1>2, <1>3 DEF Chain
  <2> QED
    BY <1>2, <2>1, <2>2
<1>4. CASE n # 0
  <2> DEFINE g == [i \in 1..n |-> F[i]]
             f == Flatten(p, n)
  <2>1. 1 \in 1..n /\ n \in 1..n /\ \A i \in 1..n : i # 1 => i - 1 \in 1..n
    BY <1>4
  <2>2. F[0] = <<>> /\ \A i \in 1..n : p[i] \in Seq(Halves) /\ F[i] = F[i - 1] \o p[i]
    BY <1>2 DEF Chain
  <2> HIDE DEF p
  <2>3. F[1] = p[1]
    <3>1. F[1] = F[0] \o p[1] /\ p[1] \in Seq(Halves)
      <4>1. 1 - 1 = 0
        OBVIOUS
      <4>2. F[1] = F[1 - 1] \o p[1] /\ p[1] \in Seq(Halves)
        BY <2>1, <2>2, Zenon
      <4> QED
        BY <4>1, <4>2
    <3>2. <<>> \o p[1] = p[1]
      BY <3>1, ConcatEmptySeq
    <3> QED
      BY <2>2, <3>1, <3>2
  <2>4. g = [i \in 1..n |-> IF i = 1 THEN p[i] ELSE g[i - 1] \o p[i]]
    <3>1. \A i \in 1..n : g[i] = IF i = 1 THEN p[i] ELSE g[i - 1] \o p[i]
      <4> TAKE i \in 1..n
      <4>1. CASE i = 1
        BY <2>3, <4>1
      <4>2. CASE i # 1
        <5>1. i - 1 \in 1..n
          BY <2>1, <4>2
        <5>2. g[i] = F[i] /\ g[i - 1] = F[i - 1]
          BY <5>1
        <5>3. F[i] = F[i - 1] \o p[i]
          BY <2>2
        <5> HIDE DEF g
        <5> QED
          BY <4>2, <5>2, <5>3
      <4> QED
        BY <4>1, <4>2
    <3>2. g = [i \in 1..n |-> g[i]]
      OBVIOUS
    <3> HIDE DEF g
    <3> QED
      BY <3>1, <3>2
  <2>5. f = [i \in 1..n |-> IF i = 1 THEN p[i] ELSE f[i - 1] \o p[i]]
    <3> HIDE DEF g
    <3> QED
      BY <2>4, Zenon DEF Flatten
  <2> HIDE DEF g, f
  <2> DEFINE G == [i \in 0..n |-> IF i = 0 THEN <<>> ELSE f[i]]
  <2>6. G[0] = <<>> /\ \A i \in 1..n : G[i] = f[i]
    BY <1>4
  <2>7. ASSUME NEW i \in 1..n
        PROVE  G[i] = G[i - 1] \o p[i]
    <3>1. CASE i = 1
      <4>1. f[1] = p[1]
        BY <2>1, <2>5
      <4>2. <<>> \o p[1] = p[1]
        BY <2>1, <2>2, ConcatEmptySeq
      <4>3. G[i] = f[1] /\ G[i - 1] = <<>>
        BY <2>6, <3>1
      <4> HIDE DEF G
      <4> QED
        BY <3>1, <4>1, <4>2, <4>3
    <3>2. CASE i # 1
      <4>1. i - 1 \in 1..n
        BY <2>1, <3>2
      <4>2. f[i] = f[i - 1] \o p[i]
        BY <2>5, <3>2
      <4> HIDE DEF G
      <4> QED
        BY <2>6, <4>1, <4>2
    <3> QED
      BY <3>1, <3>2
  <2> HIDE DEF G
  <2>8. \A i \in 0..n : G[i] \in Seq(Halves)
    <3> DEFINE Good == {i \in 0..n : G[i] \in Seq(Halves)}
    <3>1. 0 \in Good
      <4>1. <<>> \in Seq(Halves)
        BY EmptySeq
      <4>2. G[0] \in Seq(Halves)
        BY <2>6, <4>1
      <4>3. 0 \in 0..n
        OBVIOUS
      <4> QED
        BY <4>2, <4>3, Zenon
    <3>2. ASSUME NEW i \in 1..n, i - 1 \in Good
          PROVE  i \in Good
      <4>1. G[i - 1] \in Seq(Halves)
        BY <3>2, Zenon
      <4>2. p[i] \in Seq(Halves)
        BY <2>2, Zenon
      <4>3. G[i] \in Seq(Halves)
        BY <2>7, <4>1, <4>2, Joined
      <4>4. i \in 0..n
        OBVIOUS
      <4> QED
        BY <4>3, <4>4, Zenon
    <3> HIDE DEF Good
    <3>3. \A i \in 0..n : i \in Good
      BY <3>1, <3>2, UpTo
    <3> QED
      BY <3>3 DEF Good
  <2>9. Chain(G, p, n, Halves)
    BY <2>2, <2>6, <2>7, <2>8 DEF Chain
  <2>10. G[n] = Replies(n)
    <3>1. Replies(n) = Flatten([i \in 1..n |-> Reply(i)], n)[n]
      BY <1>4, RepliesFold
    <3> QED
      BY <2>1, <2>6, <3>1 DEF f, p
  <2> QED
    BY <2>9, <2>10 DEF p
<1> QED
  BY <1>3, <1>4

\* One more reply.
RepliesGrow(n) == /\ Replies(n) \in Seq(Halves) /\ Reply(n + 1) \in Seq(Halves)
                  /\ Replies(n + 1) = Replies(n) \o Reply(n + 1)

LEMMA RepliesAre ==
  Replies(0) = <<>> /\ \A n \in Nat : RepliesGrow(n)
<1>1. Replies(0) = <<>>
  <2>1. [i \in 1..0 |-> Reply(i)] = <<>>
    OBVIOUS
  <2> QED
    BY <2>1 DEF Replies, FlattenSeq
<1>2. ASSUME NEW n \in Nat
      PROVE  RepliesGrow(n)
  <2> DEFINE m == n + 1
             p == [i \in 1..m |-> Reply(i)]
             q == [i \in 1..n |-> Reply(i)]
  <2>1. m \in Nat /\ n \in 0..m /\ n \in 0..n /\ m \in 1..m /\ m - 1 = n
    OBVIOUS
  <2>2. PICK F : Chain(F, p, m, Halves) /\ F[m] = Replies(m)
    <3> HIDE DEF m
    <3> QED
      BY <2>1, RepliesChain
  <2>3. PICK G : Chain(G, q, n, Halves) /\ G[n] = Replies(n)
    BY RepliesChain
  <2>4. \A i \in 1..n : q[i] = p[i]
    OBVIOUS
  <2>5. p[m] = Reply(m)
    BY <2>1
  <2> HIDE DEF m, p, q
  <2>6. G[n] = F[n]
    <3>1. \A i \in 0..n : G[i] = F[i]
      BY <2>1, <2>2, <2>3, <2>4, ChainsAgree
    <3> QED
      BY <2>1, <3>1
  <2>7. F[m] = F[n] \o p[m] /\ F[n] \in Seq(Halves) /\ p[m] \in Seq(Halves)
    BY <2>1, <2>2 DEF Chain
  <2> QED
    BY <2>2, <2>3, <2>5, <2>6, <2>7 DEF RepliesGrow, m
<1> QED
  BY <1>1, <1>2

-----------------------------------------------------------------------------
(* What a step leaves as it is *)

Undisturbed(c) ==
  /\ at'[c] = at[c] /\ taken'[c] = taken[c] /\ parsed'[c] = parsed[c] /\ request'[c] = request[c]
  /\ handled'[c] = handled[c] /\ answered'[c] = answered[c]
  /\ sendBuff'[c] = sendBuff[c] /\ sendBytes'[c] = sendBytes[c]

LEMMA SameScenario ==
  ASSUME scenario' = scenario, NEW c
  PROVE  /\ Script(c)' = Script(c) /\ Bytes(c)' = Bytes(c)
         /\ \A i : Unlucky(c, i)' <=> Unlucky(c, i)
         /\ \A k : End(c, k)' = End(c, k)
<1>1. Script(c)' = Script(c)
  BY DEF Script
<1>2. Bytes(c)' = Bytes(c)
  BY <1>1 DEF Bytes
<1>3. \A i : Unlucky(c, i)' <=> Unlucky(c, i)
  BY <1>2 DEF Unlucky
<1>4. \A k : End(c, k)' = End(c, k)
  BY <1>1 DEF End
<1> QED
  BY <1>1, <1>2, <1>3, <1>4

LEMMA KeptOK ==
  ASSUME scenario' = scenario, hungup \subseteq hungup', NEW c, ServeOK(c), Undisturbed(c)
  PROVE  ServeOK(c)'
<1>1. PICK n \in Nat : ParsedOK(c, n) /\ RepliesOK(c, n)
  BY DEF ServeOK
<1>2. ParsedOK(c, n)'
  <2>1. /\ Script(c)' = Script(c) /\ Bytes(c)' = Bytes(c)
        /\ \A i : Unlucky(c, i)' <=> Unlucky(c, i)
        /\ \A k : End(c, k)' = End(c, k)
    BY SameScenario
  <2> QED
    BY <1>1, <2>1 DEF ParsedOK, Undisturbed
<1>3. RepliesOK(c, n)'
  <2>1. Owed(c)' = Owed(c)
    BY DEF Owed, Undisturbed
  <2> QED
    BY <1>1, <2>1 DEF RepliesOK, Undisturbed
<1> QED
  BY <1>2, <1>3 DEF ServeOK

\* Only c is changed.
OnlyOf(c) ==
  /\ scenario' = scenario /\ unlucky \subseteq unlucky' /\ hungup \subseteq hungup'
  /\ \A d \in Clients \ {c} : Undisturbed(d)

LEMMA OthersKept ==
  ASSUME ServeInv, NEW c \in Clients, OnlyOf(c), ServeTypeOK', c \notin unlucky' => ServeOK(c)'
  PROVE  ServeInv'
<1>1. ASSUME NEW d \in Clients, d \notin unlucky'
      PROVE  ServeOK(d)'
  <2>1. CASE d = c
    BY <1>1, <2>1
  <2>2. CASE d # c
    <3>1. ServeOK(d) /\ Undisturbed(d)
      BY <1>1, <2>2 DEF ServeInv, OnlyOf
    <3>2. scenario' = scenario /\ hungup \subseteq hungup'
      BY DEF OnlyOf
    <3> QED
      BY <3>1, <3>2, KeptOK
  <2> QED
    BY <2>1, <2>2
<1> QED
  BY <1>1 DEF ServeInv

LEMMA AllKept ==
  ASSUME ServeInv, UNCHANGED <<scenario, at, taken, parsed, request, handled, answered, sendBuff, sendBytes, unlucky>>,
         hungup \subseteq hungup', hungup' \subseteq Clients
  PROVE  ServeInv'
<1>1. ServeTypeOK'
  BY DEF ServeInv, ServeTypeOK
<1>2. ASSUME NEW d \in Clients, d \notin unlucky'
      PROVE  ServeOK(d)'
  <2>1. ServeOK(d) /\ Undisturbed(d)
    BY <1>2 DEF ServeInv, Undisturbed
  <2> QED
    BY <2>1, KeptOK
<1> QED
  BY <1>1, <1>2 DEF ServeInv

\* What is known of a client's requests and of those that have been run.
Known(c, n) ==
  /\ Len(Script(c)) \in Nat /\ Len(Bytes(c)) \in Nat /\ End(c, 0) = 0 /\ End(c, Len(Script(c))) = Len(Bytes(c))
  /\ End(c, n) \in Nat /\ n \in Nat /\ Len(handled[c]) = n
  /\ n < Len(Script(c)) => /\ End(c, n + 1) \in Nat /\ End(c, n + 1) <= Len(Bytes(c))
                           /\ End(c, n + 1) >= End(c, n) + 4

LEMMA KnownIs ==
  ASSUME scenario \in Scenarios, NEW c \in Clients, NEW n, ParsedOK(c, n)
  PROVE  Known(c, n)
<1> DEFINE N == Len(Script(c))
<1>1. /\ N \in Nat /\ Len(Bytes(c)) \in Nat /\ End(c, 0) = 0 /\ End(c, N) = Len(Bytes(c))
      /\ \A k \in 0..N - 1 : NextEnd(c, k)
  BY EndsAre
<1>2. n \in 0..N /\ handled[c] = SubSeq(Script(c), 1, n)
  BY DEF ParsedOK
<1>3. Len(handled[c]) = n
  <2>1. ScriptOK(Script(c))
    BY ScriptIs
  <2> QED
    BY <1>2, <2>1, FirstOnes
<1> HIDE DEF N
<1>4. n \in Nat /\ n <= N
  BY <1>1, <1>2
<1>5. n < N => /\ End(c, n) \in Nat /\ End(c, n + 1) \in Nat /\ End(c, n + 1) <= Len(Bytes(c))
               /\ End(c, n + 1) >= End(c, n) + 4
  <2> SUFFICES ASSUME n < N
               PROVE  /\ End(c, n) \in Nat /\ End(c, n + 1) \in Nat /\ End(c, n + 1) <= Len(Bytes(c))
                      /\ End(c, n + 1) >= End(c, n) + 4
    OBVIOUS
  <2>1. n \in 0..N - 1
    BY <1>1, <1>4
  <2>2. NextEnd(c, n)
    BY <1>1, <2>1
  <2> DEFINE R == Request(Script(c)[n + 1])
  <2>3. End(c, n) \in Nat /\ Len(R) \in Nat /\ Len(R) >= 4 /\ End(c, n + 1) = End(c, n) + Len(R) /\ End(c, n + 1) <= Len(Bytes(c))
    BY <2>2 DEF NextEnd
  <2> HIDE DEF R
  <2> QED
    BY <2>3
<1>6. End(c, n) \in Nat
  <2>1. CASE n < N
    BY <1>5, <2>1
  <2>2. CASE n = N
    BY <1>1, <2>2
  <2> QED
    BY <1>1, <1>4, <2>1, <2>2
<1> QED
  BY <1>1, <1>3, <1>4, <1>5, <1>6 DEF Known, N

-----------------------------------------------------------------------------
(* The steps that only move a connection on *)

MovesOn(c, p) ==
  \/ at[c] = "new" /\ p = "read"
  \/ p = "closed" /\ c \in hungup
  \/ at[c] \in {"send", "write"} /\ p \in {"send", "write"}
  \/ at[c] = "finish" /\ p \in {"push", "count"}
  \/ at[c] = "push" /\ p = "count"
  \/ at[c] = "count" /\ p = "counting"

LEMMA MovesKeep ==
  ASSUME ServeInv, NEW c \in Clients, NEW p \in Places, Moves(c, p), MovesOn(c, p),
         UNCHANGED <<scenario, taken, parsed, request, handled, answered, sendBuff, sendBytes, hungup, unlucky>>
  PROVE  ServeInv'
<1>1. ServeTypeOK
  BY DEF ServeInv
<1>2. ServeTypeOK' /\ at'[c] = p /\ \A d \in Clients \ {c} : at'[d] = at[d]
  BY <1>1 DEF ServeTypeOK, Moves
<1>3. OnlyOf(c)
  BY <1>2 DEF OnlyOf, Undisturbed
<1>4. ASSUME c \notin unlucky'
      PROVE  ServeOK(c)'
  <2>1. ServeOK(c)
    BY <1>4 DEF ServeInv
  <2>2. PICK n \in Nat : ParsedOK(c, n) /\ RepliesOK(c, n)
    BY <2>1 DEF ServeOK
  <2>3. Known(c, n)
    BY <1>1, <2>2, KnownIs DEF ServeTypeOK
  <2>4. /\ Script(c)' = Script(c) /\ Bytes(c)' = Bytes(c)
        /\ \A i : Unlucky(c, i)' <=> Unlucky(c, i)
        /\ \A k : End(c, k)' = End(c, k)
    BY SameScenario
  <2>5. Owed(c)' = Owed(c)
    BY DEF Owed
  <2>6. ParsedOK(c, n)'
    <3>1. /\ n \in 0..Len(Script(c)) /\ handled[c] = SubSeq(Script(c), 1, n)
          /\ parsed[c] \in Nat /\ taken[c] \in Nat /\ parsed[c] <= taken[c] /\ taken[c] <= Len(Bytes(c))
          /\ taken[c] = 0 \/ ~Unlucky(c, taken[c])
      BY <2>2 DEF ParsedOK
    <3>2. p \in {"read"} \cup Sending => parsed[c] = End(c, n)
      BY <2>2 DEF ParsedOK, MovesOn, Sending
    <3>3. p = "read" /\ n < Len(Script(c)) => taken[c] < End(c, n + 1)
      <4> SUFFICES ASSUME p = "read", n < Len(Script(c))
                   PROVE  taken[c] < End(c, n + 1)
        OBVIOUS
      <4>1. at[c] = "new"
        BY DEF MovesOn
      <4>2. taken[c] = 0
        BY <2>2, <4>1 DEF ParsedOK
      <4>3. End(c, n + 1) >= End(c, n) + 4 /\ End(c, n) \in Nat /\ End(c, n + 1) \in Nat
        BY <2>3 DEF Known
      <4> QED
        BY <4>2, <4>3
    <3>4. p \in Sending => taken[c] = parsed[c]
      BY <2>2 DEF ParsedOK, MovesOn, Sending
    <3>5. p = "closed" => c \in hungup
      BY DEF MovesOn
    <3>6. p # "new" /\ p # "handle"
      BY DEF MovesOn
    <3> QED
      BY <1>2, <2>4, <3>1, <3>2, <3>3, <3>4, <3>5, <3>6 DEF ParsedOK
  <2>7. RepliesOK(c, n)'
    <3>1. /\ Begins(answered[c], Replies(n))
          /\ answered[c] \in Seq(Halves) /\ sendBuff[c] \in Seq(Halves)
          /\ sendBytes[c] \in 0..Len(sendBuff[c])
      BY <2>2 DEF RepliesOK
    <3>2. p # "closed" => answered[c] \o Owed(c) = Replies(n)
      BY <2>2 DEF RepliesOK, MovesOn, Sending
    <3>3. p = "read" => sendBytes[c] = 0 /\ (parsed[c] = taken[c] => sendBuff[c] = <<>>)
      BY <2>2 DEF RepliesOK, MovesOn
    <3>4. p \in {"finish", "push", "count", "counting"} => sendBytes[c] = Len(sendBuff[c])
      BY <2>2 DEF RepliesOK, MovesOn
    <3>5. p \notin {"new", "handle", "finish"}
      BY DEF MovesOn
    <3> QED
      BY <1>2, <2>5, <3>1, <3>2, <3>3, <3>4, <3>5 DEF RepliesOK, Sending
  <2> QED
    BY <2>6, <2>7 DEF ServeOK
<1> QED
  BY <1>2, <1>3, <1>4, OthersKept

LEMMA MovingSteps ==
  ASSUME ServeInv, NEW c \in Clients, NEW l \in Loops,
         \/ Accept(c) \/ ReceiveEnd(l, c) \/ SendAgain(l, c) \/ Writable(l, c)
         \/ SendFails(l, c) \/ RecordKey(l, c) \/ PushKey(l, c) \/ CountBegin(l, c)
  PROVE  ServeInv'
<1>1. \E p \in Places :
        /\ Moves(c, p) /\ MovesOn(c, p)
        /\ UNCHANGED <<scenario, taken, parsed, request, handled, answered, sendBuff, sendBytes, hungup, unlucky>>
  <2> DEFINE Moved(p) == /\ Moves(c, p) /\ MovesOn(c, p)
                         /\ UNCHANGED <<scenario, taken, parsed, request, handled, answered, sendBuff, sendBytes,
                                        hungup, unlucky>>
  <2>p. /\ "read" \in Places /\ "closed" \in Places /\ "write" \in Places /\ "send" \in Places
        /\ "push" \in Places /\ "count" \in Places /\ "counting" \in Places
    BY DEF Places
  <2>1. CASE Accept(c)
    <3>1. Moved("read")
      BY <2>1 DEF Accept, MovesOn, buffers, replies
    <3> QED
      BY <2>p, <3>1
  <2>2. CASE ReceiveEnd(l, c)
    <3>1. Moved("closed")
      BY <2>2 DEF ReceiveEnd, MovesOn, buffers, replies, rest
    <3> QED
      BY <2>p, <3>1
  <2>3. CASE SendAgain(l, c)
    <3>1. Moved("write")
      BY <2>3 DEF SendAgain, Busy, MovesOn, buffers, replies, rest
    <3> QED
      BY <2>p, <3>1
  <2>4. CASE Writable(l, c)
    <3>1. Moved("send")
      BY <2>4 DEF Writable, Idle, MovesOn, buffers, replies, rest
    <3> QED
      BY <2>p, <3>1
  <2>5. CASE SendFails(l, c)
    <3>1. Moved("closed")
      BY <2>5 DEF SendFails, MovesOn, buffers, replies, rest
    <3> QED
      BY <2>p, <3>1
  <2>6. CASE RecordKey(l, c)
    <3>1. Moved("count") \/ Moved("push")
      BY <2>6 DEF RecordKey, Busy, MovesOn, buffers, replies, rest
    <3> QED
      BY <2>p, <3>1
  <2>7. CASE CountBegin(l, c)
    <3>1. Moved("counting")
      BY <2>7 DEF CountBegin, Busy, MovesOn, buffers, replies, rest
    <3> QED
      BY <2>p, <3>1
  <2>8. CASE PushKey(l, c)
    <3>1. Moved("count")
      BY <2>8 DEF PushKey, Busy, MovesOn, buffers, replies, rest
    <3> QED
      BY <2>p, <3>1
  <2> QED
    BY <2>1, <2>2, <2>3, <2>4, <2>5, <2>6, <2>7, <2>8
<1> QED
  BY <1>1, MovesKeep

-----------------------------------------------------------------------------
(* Receiving *)

ParsesMoves(c) ==
  /\ \E p \in Places : Moves(c, p)
  /\ \/ UNCHANGED <<parsed, request>>
     \/ \E x, y : parsed' = [parsed EXCEPT ![c] = x] /\ request' = [request EXCEPT ![c] = y]

LEMMA ParsesLead ==
  ASSUME NEW c, NEW l, NEW from, NEW to, Parses(l, c, from, to)
  PROVE  ParsesMoves(c)
<1>1. PICK r \in ParseOf[SubSeq(Bytes(c), from + 1, to)] :
        CASE r.next = Error -> /\ Moves(c, "closed") /\ Leaves(l)
                               /\ UNCHANGED <<parsed, request, key>>
          [] r.next = Again -> /\ Moves(c, "read") /\ Leaves(l)
                               /\ UNCHANGED <<parsed, request, key>>
          [] OTHER          -> /\ Moves(c, "handle") /\ Takes(l, c)
                               /\ parsed' = [parsed EXCEPT ![c] = from + r.next - 1]
                               /\ request' = [request EXCEPT ![c] = r.tokens]
                               /\ key' = [key EXCEPT ![c] =
                                    IF Len(r.tokens) > 1 /\ r.tokens[2] # Unset THEN r.tokens[2] ELSE Garbage]
  BY DEF Parses
<1>2. "closed" \in Places /\ "read" \in Places /\ "handle" \in Places
  BY DEF Places
<1> QED
  BY <1>1, <1>2 DEF ParsesMoves

LEMMA Receiving ==
  ASSUME ServeInv, NEW c \in Clients, NEW l \in Loops, Receive(l, c)
  PROVE  ServeInv'
<1>1. ServeTypeOK
  BY DEF ServeInv
<1>2. PICK to \in scenario.cuts[c] :
        /\ to > taken[c]
        /\ taken' = [taken EXCEPT ![c] = to]
        /\ unlucky' = IF Unlucky(c, to) THEN unlucky \cup {c} ELSE unlucky
        /\ Parses(l, c, parsed[c], to)
  BY DEF Receive
<1>3. /\ at[c] = "read" /\ scenario' = scenario /\ hungup' = hungup
      /\ UNCHANGED <<handled, answered, sendBuff, sendBytes>>
  BY DEF Receive, Idle, rest, replies
<1>4. ParsesMoves(c)
  BY <1>2, ParsesLead
<1>5. ServeTypeOK' /\ \A d \in Clients \ {c} : at'[d] = at[d] /\ parsed'[d] = parsed[d] /\ request'[d] = request[d]
  BY <1>1, <1>2, <1>3, <1>4 DEF ServeTypeOK, Moves, ParsesMoves
<1>6. OnlyOf(c)
  <2>1. \A d \in Clients \ {c} : taken'[d] = taken[d]
    BY <1>1, <1>2 DEF ServeTypeOK
  <2>2. unlucky \subseteq unlucky'
    BY <1>2
  <2> QED
    BY <1>3, <1>5, <2>1, <2>2 DEF OnlyOf, Undisturbed
<1>7. ASSUME c \notin unlucky'
      PROVE  ServeOK(c)'
  <2>1. c \notin unlucky /\ ~Unlucky(c, to)
    BY <1>2, <1>7
  <2>2. PICK n \in Nat : ParsedOK(c, n) /\ RepliesOK(c, n)
    BY <2>1 DEF ServeInv, ServeOK
  <2>3. Known(c, n)
    BY <1>1, <2>2, KnownIs DEF ServeTypeOK
  <2>4. /\ Script(c)' = Script(c) /\ Bytes(c)' = Bytes(c)
        /\ \A i : Unlucky(c, i)' <=> Unlucky(c, i)
        /\ \A k : End(c, k)' = End(c, k)
    BY <1>3, SameScenario
  <2>5. /\ n \in 0..Len(Script(c)) /\ handled[c] = SubSeq(Script(c), 1, n)
        /\ parsed[c] = End(c, n) /\ taken[c] \in Nat /\ parsed[c] <= taken[c]
    BY <1>3, <2>2 DEF ParsedOK
  <2>6. to \in 1..Len(Bytes(c)) /\ scenario \in Scenarios
    BY <1>1, <1>2, ScriptIs DEF ServeTypeOK
  <2>k. /\ Len(Script(c)) \in Nat /\ Len(Bytes(c)) \in Nat /\ End(c, Len(Script(c))) = Len(Bytes(c))
        /\ End(c, n) \in Nat
        /\ n < Len(Script(c)) => /\ End(c, n + 1) \in Nat /\ End(c, n + 1) <= Len(Bytes(c))
                                 /\ End(c, n + 1) >= End(c, n) + 4
    BY <2>3 DEF Known
  <2>7. to \in Nat /\ to <= Len(Bytes(c)) /\ to > End(c, n)
    BY <1>2, <2>5, <2>6, <2>k
  <2>8. n < Len(Script(c))
    <3> SUFFICES ASSUME n = Len(Script(c))
                 PROVE  FALSE
      BY <2>5, <2>k
    <3>1. End(c, n) = Len(Bytes(c))
      BY <2>k
    <3> QED
      BY <2>7, <2>k, <3>1
  <2>9. n \in 0..Len(Script(c)) - 1 /\ to \in End(c, n) + 1..Len(Bytes(c))
    BY <2>7, <2>8, <2>k
  <2>10. ParsesOn(l, c, n, to)
    BY <1>2, <2>1, <2>5, <2>6, <2>9, ParsesOnly
  <2>11. at'[c] \in {"read", "handle"} /\ taken'[c] = to /\ parsed'[c] <= to
    BY <1>1, <1>2, <2>5, <2>7, <2>10, <2>k DEF ServeTypeOK, ParsesOn, Moves
  <2>12. \/ at'[c] = "handle" /\ to >= End(c, n + 1) /\ parsed'[c] = End(c, n + 1) /\ request'[c] = Script(c)[n + 1]
         \/ at'[c] = "read" /\ to < End(c, n + 1) /\ parsed'[c] = End(c, n)
    BY <1>1, <2>5, <2>10 DEF ServeTypeOK, ParsesOn, Moves
  <2>13. ParsedOK(c, n)'
    <3>1. parsed'[c] \in Nat
      BY <2>8, <2>12, <2>k
    <3>2. at'[c] \notin Sending \cup {"new", "closed"}
      BY <2>11 DEF Sending
    <3>3. at'[c] = "read" => parsed'[c] = End(c, n) /\ to < End(c, n + 1)
      BY <2>12
    <3>4. at'[c] = "handle" => request'[c] = Script(c)[n + 1] /\ parsed'[c] = End(c, n + 1)
      BY <2>12
    <3> QED
      BY <1>3, <2>1, <2>4, <2>5, <2>7, <2>8, <2>11, <3>1, <3>2, <3>3, <3>4 DEF ParsedOK
  <2>14. RepliesOK(c, n)'
    <3>1. Owed(c)' = Owed(c)
      BY <1>3 DEF Owed
    <3>2. ~(at'[c] \in {"new", "read"} /\ parsed'[c] = taken'[c])
      BY <2>7, <2>11, <2>12
    <3>3. /\ Begins(answered[c], Replies(n))
          /\ answered[c] \in Seq(Halves) /\ sendBuff[c] \in Seq(Halves)
          /\ sendBytes[c] \in 0..Len(sendBuff[c]) /\ sendBytes[c] = 0
          /\ answered[c] \o Owed(c) = Replies(n)
      BY <1>3, <2>2 DEF RepliesOK
    <3>4. at'[c] \notin {"finish", "push", "count", "counting"}
      BY <2>11
    <3> QED
      BY <1>3, <3>1, <3>2, <3>3, <3>4 DEF RepliesOK
  <2> QED
    BY <2>13, <2>14 DEF ServeOK
<1> QED
  BY <1>5, <1>6, <1>7, OthersKept

-----------------------------------------------------------------------------
(* Sending, and the end of a batch *)

LEMMA Sends ==
  ASSUME ServeInv, NEW c \in Clients, NEW l \in Loops, Send(l, c)
  PROVE  ServeInv'
<1>1. ServeTypeOK
  BY DEF ServeInv
<1> DEFINE s == sendBuff[c]
           b == sendBytes[c]
<1>2. PICK k \in 1..Len(s) - b :
        /\ sendBytes' = [sendBytes EXCEPT ![c] = @ + k]
        /\ answered' = [answered EXCEPT ![c] = @ \o SubSeq(s, b + 1, b + k)]
        /\ Moves(c, IF b + k = Len(s) THEN "finish" ELSE "send")
  BY DEF Send
<1>3. /\ at[c] = "send" /\ scenario' = scenario /\ hungup' = hungup /\ unlucky' = unlucky
      /\ UNCHANGED <<handled, taken, parsed, request, sendBuff>>
  BY DEF Send, Busy, rest, buffers
<1>4. /\ ServeTypeOK' /\ at'[c] = IF b + k = Len(s) THEN "finish" ELSE "send"
      /\ sendBytes'[c] = b + k /\ answered'[c] = answered[c] \o SubSeq(s, b + 1, b + k)
      /\ \A d \in Clients \ {c} : at'[d] = at[d] /\ sendBytes'[d] = sendBytes[d] /\ answered'[d] = answered[d]
  BY <1>1, <1>2, <1>3 DEF ServeTypeOK, Moves, Places
<1>5. OnlyOf(c)
  BY <1>3, <1>4 DEF OnlyOf, Undisturbed
<1>6. ASSUME c \notin unlucky'
      PROVE  ServeOK(c)'
  <2>1. PICK n \in Nat : ParsedOK(c, n) /\ RepliesOK(c, n)
    BY <1>3, <1>6 DEF ServeInv, ServeOK
  <2>2. /\ Script(c)' = Script(c) /\ Bytes(c)' = Bytes(c)
        /\ \A i : Unlucky(c, i)' <=> Unlucky(c, i)
        /\ \A j : End(c, j)' = End(c, j)
    BY <1>3, SameScenario
  <2>3. at'[c] \in {"send", "finish"}
    BY <1>4
  <2>4. ParsedOK(c, n)'
    <3>1. /\ n \in 0..Len(Script(c)) /\ handled[c] = SubSeq(Script(c), 1, n)
          /\ parsed[c] \in Nat /\ taken[c] \in Nat /\ parsed[c] <= taken[c] /\ taken[c] <= Len(Bytes(c))
          /\ taken[c] = 0 \/ ~Unlucky(c, taken[c])
          /\ parsed[c] = End(c, n) /\ taken[c] = parsed[c]
      BY <1>3, <2>1 DEF ParsedOK, Sending
    <3> QED
      BY <1>3, <2>2, <2>3, <3>1 DEF ParsedOK
  <2>5. /\ answered[c] \in Seq(Halves) /\ s \in Seq(Halves) /\ b \in 0..Len(s)
        /\ answered[c] \o Owed(c) = Replies(n)
    BY <1>3, <2>1 DEF RepliesOK, Sending
  <2>6. Owed(c) = SubSeq(s, b + 1, Len(s)) /\ Owed(c)' = SubSeq(s, b + k + 1, Len(s))
    BY <1>3, <1>4 DEF Owed
  <2> DEFINE x == SubSeq(s, b + 1, b + k)
             y == SubSeq(s, b + k + 1, Len(s))
             a == answered[c]
  <2> HIDE DEF s, b
  <2>7. Len(s) \in Nat /\ b \in Nat /\ k \in Nat /\ k >= 1 /\ b + k <= Len(s)
    <3>1. Len(s) \in Nat
      BY <2>5, LenProperties
    <3> QED
      BY <2>5, <3>1
  <2>8. x \in Seq(Halves) /\ y \in Seq(Halves)
    <3>1. \A i \in 1..Len(s) : s[i] \in Halves
      BY <2>5, ElementOfSeq
    <3>2. /\ b + 1 \in Int /\ b + k \in Int /\ b + k + 1 \in Int /\ Len(s) \in Int
          /\ \A i \in b + 1..b + k : i \in 1..Len(s)
          /\ \A i \in b + k + 1..Len(s) : i \in 1..Len(s)
      BY <2>7
    <3> QED
      BY <3>1, <3>2, SubSeqProperties
  <2>9. x \o y = SubSeq(s, b + 1, Len(s))
    <3>1. b + 1 \in 1..Len(s) + 1 /\ b + k \in b + 1 - 1..Len(s) /\ Len(s) \in b + k..Len(s)
      BY <2>7
    <3> HIDE DEF x, y
    <3> QED
      BY <2>5, <3>1, ConcatAdjacentSubSeq DEF x, y
  <2> HIDE DEF x, y, a
  <2>10. (a \o x) \o y = Replies(n)
    <3>1. (a \o x) \o y = a \o (x \o y)
      <4>1. a \in Seq(Halves)
        BY <2>5 DEF a
      <4> QED
        BY <2>8, <4>1, ConcatAssociative
    <3> QED
      BY <2>5, <2>6, <2>9, <3>1 DEF a
  <2>11. a \o x \in Seq(Halves) /\ Begins(a \o x, Replies(n))
    <3>1. a \o x \in Seq(Halves)
      BY <2>5, <2>8, Joined DEF a
    <3>2. IsJoin((a \o x) \o y, a \o x, y)
      BY <2>8, <3>1, Joined
    <3> QED
      BY <2>10, <3>1, <3>2, JoinBegins
  <2>12. RepliesOK(c, n)'
    <3>1. answered'[c] = a \o x /\ Owed(c)' = y /\ sendBuff'[c] = s /\ sendBytes'[c] = b + k
      BY <1>3, <1>4, <2>6 DEF a, x, y, s, b
    <3>2. at'[c] = "finish" => b + k = Len(s)
      BY <1>4 DEF s, b
    <3>3. b + k \in 0..Len(s)
      BY <2>7
    <3> QED
      BY <2>3, <2>5, <2>10, <2>11, <3>1, <3>2, <3>3 DEF RepliesOK
  <2> QED
    BY <2>4, <2>12 DEF ServeOK
<1> QED
  BY <1>4, <1>5, <1>6, OthersKept

LEMMA CountEnds ==
  ASSUME ServeInv, NEW c \in Clients, NEW l \in Loops, CountEnd(l, c)
  PROVE  ServeInv'
<1>1. ServeTypeOK
  BY DEF ServeInv
<1>2. /\ at[c] = "counting" /\ scenario' = scenario /\ hungup' = hungup /\ unlucky' = unlucky
      /\ UNCHANGED <<handled, taken, request, answered>>
      /\ Moves(c, "read")
      /\ sendBuff' = [sendBuff EXCEPT ![c] = <<>>]
      /\ sendBytes' = [sendBytes EXCEPT ![c] = 0]
      /\ parsed' = [parsed EXCEPT ![c] = taken[c]]
  BY DEF CountEnd, Busy, rest
<1>3. /\ ServeTypeOK' /\ at'[c] = "read" /\ sendBuff'[c] = <<>> /\ sendBytes'[c] = 0 /\ parsed'[c] = taken[c]
      /\ \A d \in Clients \ {c} : /\ at'[d] = at[d] /\ sendBytes'[d] = sendBytes[d]
                                  /\ sendBuff'[d] = sendBuff[d] /\ parsed'[d] = parsed[d]
  BY <1>1, <1>2 DEF ServeTypeOK, Moves, Places
<1>4. OnlyOf(c)
  BY <1>2, <1>3 DEF OnlyOf, Undisturbed
<1>5. ASSUME c \notin unlucky'
      PROVE  ServeOK(c)'
  <2>1. PICK n \in Nat : ParsedOK(c, n) /\ RepliesOK(c, n)
    BY <1>2, <1>5 DEF ServeInv, ServeOK
  <2>2. /\ Script(c)' = Script(c) /\ Bytes(c)' = Bytes(c)
        /\ \A i : Unlucky(c, i)' <=> Unlucky(c, i)
        /\ \A j : End(c, j)' = End(c, j)
    BY <1>2, SameScenario
  <2>3. Known(c, n)
    BY <1>1, <2>1, KnownIs DEF ServeTypeOK
  <2>4. ParsedOK(c, n)'
    <3>1. /\ n \in 0..Len(Script(c)) /\ handled[c] = SubSeq(Script(c), 1, n)
          /\ parsed[c] \in Nat /\ taken[c] \in Nat /\ parsed[c] <= taken[c] /\ taken[c] <= Len(Bytes(c))
          /\ taken[c] = 0 \/ ~Unlucky(c, taken[c])
          /\ parsed[c] = End(c, n) /\ taken[c] = parsed[c]
      BY <1>2, <2>1 DEF ParsedOK, Sending
    <3>2. n < Len(Script(c)) => taken[c] < End(c, n + 1)
      <4>1. n < Len(Script(c)) => End(c, n + 1) \in Nat /\ End(c, n + 1) >= End(c, n) + 4
        BY <2>3 DEF Known
      <4> QED
        BY <3>1, <4>1
    <3>3. "read" \notin Sending
      BY DEF Sending
    <3>4. taken[c] <= taken[c]
      BY <3>1
    <3> QED
      BY <1>2, <1>3, <2>2, <3>1, <3>2, <3>3, <3>4 DEF ParsedOK
  <2>5. RepliesOK(c, n)'
    <3>1. /\ answered[c] \in Seq(Halves) /\ sendBuff[c] \in Seq(Halves) /\ sendBytes[c] = Len(sendBuff[c])
          /\ answered[c] \o Owed(c) = Replies(n) /\ Begins(answered[c], Replies(n))
      BY <1>2, <2>1 DEF RepliesOK, Sending
    <3>2. Owed(c) = <<>>
      <4>1. Len(sendBuff[c]) \in Nat
        BY <3>1, LenProperties
      <4> DEFINE m == Len(sendBuff[c])
      <4>2. Owed(c) = SubSeq(sendBuff[c], m + 1, m)
        BY <3>1 DEF Owed
      <4>3. m + 1 \in Int /\ m \in Int /\ m + 1 > m
        BY <4>1
      <4> HIDE DEF m
      <4> QED
        BY <4>2, <4>3, SubSeqEmpty
    <3>3. Owed(c)' = <<>>
      <4>1. Owed(c)' = SubSeq(<<>>, 0 + 1, Len(<<>>))
        BY <1>3 DEF Owed
      <4>2. Len(<<>>) = 0 /\ 0 + 1 > 0
        OBVIOUS
      <4> QED
        BY <4>1, <4>2, SubSeqEmpty
    <3>4. Len(<<>>) = 0 /\ <<>> \in Seq(Halves) /\ 0 \in 0..0
      BY EmptySeq
    <3> QED
      BY <1>2, <1>3, <3>1, <3>2, <3>3, <3>4 DEF RepliesOK
  <2> QED
    BY <2>4, <2>5 DEF ServeOK
<1> QED
  BY <1>3, <1>4, <1>5, OthersKept

-----------------------------------------------------------------------------
(* Running a request *)

\* What handling the next request does to a connection, and to no other.
HandledTo(l, c) ==
  \/ /\ KindOf(request[c][1]) \in {"replies", "unknown"}
     /\ sendBuff' = [sendBuff EXCEPT ![c] = @ \o Reply(Len(handled[c]) + 1)]
     /\ NextRequest(l, c)
  \/ /\ KindOf(request[c][1]) = "refuses"
     /\ sendBuff' = [sendBuff EXCEPT ![c] = @ \o Reply(Len(handled[c]) + 1)]
     /\ Moves(c, "stuck") /\ UNCHANGED <<parsed, request>>
  \/ /\ KindOf(request[c][1]) = "blocks" /\ sendBuff' = sendBuff
     /\ Moves(c, "blocked") /\ UNCHANGED <<parsed, request>>

LEMMA HandleIs ==
  ASSUME NEW c \in Clients, NEW l \in Loops, Handle(l, c)
  PROVE  /\ HandledTo(l, c)
         /\ at[c] = "handle" /\ handled' = [handled EXCEPT ![c] = Append(@, request[c])]
         /\ UNCHANGED <<scenario, hungup, unlucky, taken, sendBytes, answered>>
<1> DEFINE name == request[c][1]
           K == KindOf(name)
<1>1. /\ at[c] = "handle" /\ handled' = [handled EXCEPT ![c] = Append(@, request[c])]
      /\ UNCHANGED <<scenario, hungup, unlucky, taken, sendBytes, answered>>
  BY DEF Handle, Busy, rest
<1>2. K \in {"replies", "refuses", "blocks", "unknown"}
  <2>1. CASE name \in DOMAIN Commands
    <3>1. Commands[name] \in {"replies", "refuses", "blocks"}
      BY <2>1, ConnectionAssumption
    <3> HIDE DEF name
    <3> QED
      BY <2>1, <3>1 DEF KindOf
  <2>2. CASE name \notin DOMAIN Commands
    <3> HIDE DEF name
    <3> QED
      BY <2>2 DEF KindOf
  <2> QED
    BY <2>1, <2>2
<1>3. /\ sendBuff' = IF K = "blocks" THEN sendBuff
                     ELSE [sendBuff EXCEPT ![c] = @ \o Reply(Len(handled[c]) + 1)]
      /\ CASE K \in {"replies", "unknown"} -> NextRequest(l, c)
           [] K = "refuses" -> Moves(c, "stuck") /\ Leaves(l) /\ UNCHANGED <<parsed, request, key>>
           [] K = "blocks"  -> Moves(c, "blocked") /\ UNCHANGED <<running, parsed, request, key>>
  BY DEF Handle
<1> HIDE DEF K
<1>4. CASE K \in {"replies", "unknown"}
  <2>1. K # "refuses" /\ K # "blocks"
    BY <1>4
  <2>2. NextRequest(l, c)
    BY <1>3, <1>4, <2>1
  <2>3. sendBuff' = [sendBuff EXCEPT ![c] = @ \o Reply(Len(handled[c]) + 1)]
    BY <1>3, <2>1
  <2> QED
    BY <1>1, <1>4, <2>2, <2>3, Zenon DEF HandledTo, K
<1>5. CASE K = "refuses"
  <2>1. K \notin {"replies", "unknown"} /\ K # "blocks"
    BY <1>5
  <2>2. Moves(c, "stuck") /\ UNCHANGED <<parsed, request>>
    BY <1>3, <1>5, <2>1
  <2>3. sendBuff' = [sendBuff EXCEPT ![c] = @ \o Reply(Len(handled[c]) + 1)]
    BY <1>3, <2>1
  <2> QED
    BY <1>1, <1>5, <2>2, <2>3, Zenon DEF HandledTo, K
<1>6. CASE K = "blocks"
  <2>1. K \notin {"replies", "unknown"} /\ K # "refuses"
    BY <1>6
  <2>2. Moves(c, "blocked") /\ UNCHANGED <<parsed, request>>
    BY <1>3, <1>6, <2>1
  <2>3. sendBuff' = sendBuff
    BY <1>3, <1>6
  <2> QED
    BY <1>1, <1>6, <2>2, <2>3, Zenon DEF HandledTo, K
<1> QED
  BY <1>2, <1>4, <1>5, <1>6

LEMMA SeqOver ==
  ASSUME NEW A, NEW n \in Nat, NEW s, s \in Seq(Range(s)), Len(s) = n, \A i \in 1..n : s[i] \in A
  PROVE  s \in Seq(A)
<1>1. DOMAIN s = 1..n /\ s \in [1..n -> Range(s)]
  BY LenProperties
<1>2. s \in [1..n -> A]
  BY <1>1
<1> QED
  BY <1>2

\* One request more has been run.
LEMMA OneMoreHandled ==
  ASSUME scenario \in Scenarios, NEW c \in Clients, NEW n \in Nat, n < Len(Script(c)),
         NEW r, r = Script(c)[n + 1], NEW h, h = SubSeq(Script(c), 1, n)
  PROVE  Append(h, r) = SubSeq(Script(c), 1, n + 1)
<1> DEFINE sc == Script(c)
           R == Range(sc)
           m == n + 1
           u == SubSeq(sc, 1, m)
           v == Append(h, r)
<1>1. ScriptOK(sc) /\ Len(sc) \in Nat
  BY ScriptIs, EndsAre
<1>2. n \in 0..Len(sc) /\ m \in 0..Len(sc) /\ m \in 1..Len(sc) /\ m \in Nat
  BY <1>1
<1>3. /\ ScriptOK(h) /\ Len(h) = n /\ \A i \in 1..n : h[i] = sc[i]
      /\ ScriptOK(u) /\ Len(u) = m /\ \A i \in 1..m : u[i] = sc[i]
  BY <1>1, <1>2, FirstOnes
<1>4. sc \in Seq(R) /\ DOMAIN sc = 1..Len(sc)
  BY <1>1, LenProperties DEF ScriptOK
<1>5. \A i \in 1..Len(sc) : sc[i] \in R
  BY <1>4 DEF Range
<1> HIDE DEF sc, R, u
<1>6. h \in Seq(R)
  <2>1. h \in Seq(Range(h)) /\ Len(h) = n
    BY <1>3 DEF ScriptOK
  <2>2. \A i \in 1..n : h[i] \in R
    <3> TAKE i \in 1..n
    <3>1. i \in 1..Len(sc) /\ h[i] = sc[i]
      BY <1>1, <1>2, <1>3 DEF sc
    <3> QED
      BY <1>5, <3>1
  <2> QED
    BY <2>1, <2>2, SeqOver
<1>7. u \in Seq(R)
  <2>1. \A i \in 1..m : i \in 1..Len(sc)
    BY <1>1, <1>2 DEF sc
  <2> HIDE DEF m
  <2>2. u \in Seq(Range(u)) /\ Len(u) = m
    BY <1>3 DEF ScriptOK
  <2>3. \A i \in 1..m : u[i] \in R
    BY <1>3, <1>5, <2>1
  <2> QED
    BY <1>2, <2>2, <2>3, SeqOver
<1>8. r \in R
  BY <1>2, <1>5 DEF sc
<1>9. /\ v \in Seq(R) /\ Len(v) = Len(h) + 1
      /\ \A i \in 1..Len(h) : v[i] = h[i]
      /\ v[Len(h) + 1] = r
  BY <1>6, <1>8, AppendProperties
<1> HIDE DEF v
<1>10. Len(v) = Len(u) /\ \A i \in 1..Len(v) : v[i] = u[i]
  <2>1. Len(v) = m
    BY <1>3, <1>9
  <2>2. ASSUME NEW i \in 1..m
        PROVE  v[i] = u[i]
    <3>1. CASE i = m
      <4>1. v[i] = r
        BY <1>3, <1>9, <3>1
      <4>2. u[i] = r
        BY <1>2, <1>3, <3>1 DEF sc
      <4> QED
        BY <4>1, <4>2
    <3>2. CASE i # m
      <4>1. i \in 1..n
        BY <3>2
      <4> QED
        BY <1>3, <1>9, <2>2, <4>1
    <3> QED
      BY <3>1, <3>2
  <2> QED
    BY <1>3, <2>1, <2>2
<1>11. v = u
  BY <1>7, <1>9, <1>10, SeqEqual
<1> QED
  BY <1>11 DEF v, u, sc

LEMMA HandledType ==
  ASSUME ServeTypeOK, NEW c \in Clients, NEW l, HandledTo(l, c),
         handled' = [handled EXCEPT ![c] = Append(@, request[c])],
         UNCHANGED <<scenario, hungup, unlucky, taken, sendBytes, answered>>
  PROVE  ServeTypeOK' /\ OnlyOf(c)
<1>1. ParsesMoves(c)
  <2>1. CASE NextRequest(l, c)
    <3>1. CASE parsed[c] # taken[c]
      BY <2>1, <3>1, ParsesLead DEF NextRequest
    <3>2. CASE parsed[c] = taken[c]
      BY <2>1, <3>2 DEF NextRequest, ParsesMoves, Places
    <3> QED
      BY <3>1, <3>2
  <2>2. CASE Moves(c, "stuck") /\ UNCHANGED <<parsed, request>>
    BY <2>2 DEF ParsesMoves, Places
  <2>3. CASE Moves(c, "blocked") /\ UNCHANGED <<parsed, request>>
    BY <2>3 DEF ParsesMoves, Places
  <2> QED
    BY <2>1, <2>2, <2>3 DEF HandledTo
<1>2. sendBuff' = sendBuff \/ \E x : sendBuff' = [sendBuff EXCEPT ![c] = x]
  BY DEF HandledTo
<1>3. ServeTypeOK' /\ \A d \in Clients \ {c} : /\ at'[d] = at[d] /\ parsed'[d] = parsed[d]
                                              /\ request'[d] = request[d]
  BY <1>1, <1>2 DEF ServeTypeOK, ParsesMoves, Moves
<1>4. \A d \in Clients \ {c} : sendBuff'[d] = sendBuff[d] /\ handled'[d] = handled[d]
  BY <1>2 DEF ServeTypeOK
<1> QED
  BY <1>3, <1>4 DEF OnlyOf, Undisturbed

\* Where handling the next request leaves a connection.
HandledAt(c, m) ==
  \/ at'[c] = "handle" /\ m < Len(Script(c)) /\ parsed'[c] = End(c, m + 1) /\ parsed'[c] <= taken[c]
     /\ request'[c] = Script(c)[m + 1]
  \/ at'[c] = "read" /\ parsed'[c] = End(c, m) /\ parsed'[c] < taken[c]
     /\ (m < Len(Script(c)) => taken[c] < End(c, m + 1))
  \/ at'[c] = "send" /\ parsed'[c] = End(c, m) /\ taken[c] = parsed'[c]
  \/ at'[c] \in {"stuck", "blocked"} /\ parsed'[c] = End(c, m) /\ parsed'[c] <= taken[c]

LEMMA HandledGoesOn ==
  ASSUME ServeTypeOK, NEW c \in Clients, NEW l, HandledTo(l, c), NEW n \in Nat, ParsedOK(c, n), at[c] = "handle"
  PROVE  HandledAt(c, n + 1)
<1> DEFINE N == Len(Script(c))
           m == n + 1
           t == taken[c]
<1>1. /\ n < N /\ parsed[c] = End(c, m) /\ parsed[c] \in Nat /\ t \in Nat /\ parsed[c] <= t
      /\ t <= Len(Bytes(c)) /\ (t = 0 \/ ~Unlucky(c, t))
  BY DEF ParsedOK
<1>2. /\ N \in Nat /\ Len(Bytes(c)) \in Nat /\ End(c, N) = Len(Bytes(c)) /\ scenario \in Scenarios
  BY EndsAre DEF ServeTypeOK
<1>3. m \in Nat /\ m <= N
  BY <1>1, <1>2
<1>4. at \in [Clients -> Places] /\ DOMAIN parsed = Clients /\ DOMAIN request = Clients
  BY DEF ServeTypeOK
<1> HIDE DEF N, m, t
<1>5. CASE NextRequest(l, c)
  <2>1. CASE parsed[c] = t
    <3>1. Moves(c, "send") /\ parsed' = parsed
      BY <1>5, <2>1 DEF NextRequest, t
    <3>2. at'[c] = "send"
      BY <1>4, <3>1 DEF Moves
    <3> QED
      BY <1>1, <2>1, <3>1, <3>2 DEF HandledAt, m, t
  <2>2. CASE parsed[c] # t
    <3>1. Parses(l, c, End(c, m), t)
      BY <1>1, <1>5, <2>2 DEF NextRequest, t
    <3>2. t > End(c, m) /\ End(c, m) \in Nat
      BY <1>1, <2>2
    <3>3. m # N
      BY <1>1, <1>2, <3>2
    <3>4. m \in 0..N - 1 /\ t \in End(c, m) + 1..Len(Bytes(c)) /\ ~Unlucky(c, t)
      BY <1>1, <1>2, <1>3, <3>2, <3>3
    <3>5. ParsesOn(l, c, m, t)
      BY <1>2, <3>1, <3>4, ParsesOnly DEF N
    <3>6. m < N
      BY <1>2, <1>3, <3>3
    <3>7. CASE /\ t >= End(c, m + 1) /\ Moves(c, "handle")
               /\ parsed' = [parsed EXCEPT ![c] = End(c, m + 1)]
               /\ request' = [request EXCEPT ![c] = Script(c)[m + 1]]
      <4>1. at'[c] = "handle" /\ parsed'[c] = End(c, m + 1) /\ request'[c] = Script(c)[m + 1]
        BY <1>4, <3>7 DEF Moves
      <4>2. parsed'[c] <= t
        <5>1. NextEnd(c, m)
          BY <1>2, <3>4, EndsAre DEF N
        <5>2. End(c, m + 1) \in Nat
          BY <5>1 DEF NextEnd
        <5> QED
          BY <1>1, <3>7, <4>1, <5>2
      <4> QED
        BY <3>6, <4>1, <4>2 DEF HandledAt, N, m, t
    <3>8. CASE t < End(c, m + 1) /\ Moves(c, "read") /\ UNCHANGED <<parsed, request>>
      <4>1. at'[c] = "read" /\ parsed'[c] = End(c, m) /\ parsed'[c] < t
        BY <1>1, <1>4, <3>2, <3>8 DEF Moves
      <4> QED
        BY <3>8, <4>1 DEF HandledAt, N, m, t
    <3> QED
      BY <3>5, <3>7, <3>8 DEF ParsesOn
  <2> QED
    BY <2>1, <2>2
<1>6. CASE (Moves(c, "stuck") \/ Moves(c, "blocked")) /\ UNCHANGED <<parsed, request>>
  <2>1. at'[c] \in {"stuck", "blocked"} /\ parsed' = parsed
    BY <1>4, <1>6 DEF Moves
  <2> QED
    BY <1>1, <2>1 DEF HandledAt, m, t
<1> QED
  BY <1>5, <1>6 DEF HandledTo

LEMMA HandledParsed ==
  ASSUME scenario \in Scenarios, DOMAIN handled = Clients, NEW c \in Clients, NEW n \in Nat, ParsedOK(c, n), at[c] = "handle",
         HandledAt(c, n + 1), handled' = [handled EXCEPT ![c] = Append(@, request[c])],
         UNCHANGED <<scenario, hungup, taken>>
  PROVE  ParsedOK(c, n + 1)'
<1> DEFINE N == Len(Script(c))
           m == n + 1
           t == taken[c]
<1>1. /\ n < N /\ parsed[c] = End(c, m) /\ parsed[c] \in Nat /\ t \in Nat
      /\ t <= Len(Bytes(c)) /\ (t = 0 \/ ~Unlucky(c, t))
      /\ handled[c] = SubSeq(Script(c), 1, n) /\ request[c] = Script(c)[m]
  BY DEF ParsedOK
<1>2. N \in Nat /\ \A k \in 0..N - 1 : NextEnd(c, k)
  BY EndsAre
<1>3. /\ Script(c)' = Script(c) /\ Bytes(c)' = Bytes(c)
      /\ \A i : Unlucky(c, i)' <=> Unlucky(c, i)
      /\ \A j : End(c, j)' = End(c, j)
  BY SameScenario
<1>4. handled'[c] = SubSeq(Script(c), 1, m)
  <2>1. handled'[c] = Append(handled[c], request[c])
    OBVIOUS
  <2> QED
    BY <1>1, <2>1, OneMoreHandled
<1>5. m \in 0..N
  BY <1>1, <1>2
<1>6. m < N => End(c, m + 1) \in Nat
  <2> SUFFICES ASSUME m < N
               PROVE  End(c, m + 1) \in Nat
    OBVIOUS
  <2>1. m \in 0..N - 1
    BY <1>2, <1>5
  <2>2. NextEnd(c, m)
    BY <1>2, <2>1
  <2> HIDE DEF m
  <2> DEFINE L == Len(Request(Script(c)[m + 1]))
  <2>3. End(c, m + 1) = End(c, m) + L /\ End(c, m) \in Nat /\ L \in Nat
    BY <2>2 DEF NextEnd
  <2> HIDE DEF L
  <2> QED
    BY <2>3
<1> HIDE DEF m, N
<1>7. /\ at'[c] \in {"handle", "read", "send", "stuck", "blocked"}
      /\ parsed'[c] \in Nat /\ parsed'[c] <= t
      /\ at'[c] \in {"read", "send"} => parsed'[c] = End(c, m)
      /\ at'[c] = "read" /\ m < N => t < End(c, m + 1)
      /\ at'[c] = "send" => t = parsed'[c]
      /\ at'[c] = "handle" => m < N /\ request'[c] = Script(c)[m + 1] /\ parsed'[c] = End(c, m + 1)
  <2>1. HandledAt(c, m)
    BY DEF m
  <2> QED
    BY <1>1, <1>6, <2>1 DEF HandledAt, N
<1>8. ParsedOK(c, m)'
  BY <1>1, <1>3, <1>4, <1>5, <1>7 DEF ParsedOK, Sending, N
<1> QED
  BY <1>8 DEF m

LEMMA BeginsJoin ==
  ASSUME NEW s, NEW t, NEW u, NEW x, Begins(s, t), IsJoin(u, t, x), Len(s) \in Nat
  PROVE  Begins(s, u)
BY DEF Begins, IsJoin

LEMMA ThreeJoined ==
  ASSUME NEW s \in Seq(Halves), NEW t \in Seq(Halves), NEW u \in Seq(Halves)
  PROVE  (s \o t) \o u = s \o (t \o u)
BY ConcatAssociative

\* Nothing of what waits has been sent while a request is run.
LEMMA HandledReplies ==
  ASSUME ServeTypeOK, NEW c \in Clients, NEW l, HandledTo(l, c), NEW n \in Nat, RepliesOK(c, n), at[c] = "handle",
         HandledAt(c, n + 1), Len(handled[c]) = n,
         taken[c] \in Nat, End(c, n + 1) \in Nat,
         UNCHANGED <<taken, sendBytes, answered>>
  PROVE  RepliesOK(c, n + 1)'
<1> DEFINE m == n + 1
           s == sendBuff[c]
           a == answered[c]
           r == Reply(m)
<1>1. /\ Begins(a, Replies(n)) /\ a \in Seq(Halves) /\ s \in Seq(Halves)
      /\ sendBytes[c] = 0 /\ a \o Owed(c) = Replies(n)
  BY DEF RepliesOK
<1>2. Replies(n) \in Seq(Halves) /\ r \in Seq(Halves) /\ Replies(m) = Replies(n) \o r
  BY RepliesAre DEF RepliesGrow
<1>a. Len(a) \in Nat /\ Len(s) \in Nat
  BY <1>1, LenProperties
<1>b. a \in Seq(Halves) /\ s \in Seq(Halves) /\ r \in Seq(Halves)
  BY <1>1, <1>2
<1> HIDE DEF r, s, a
<1>3. Begins(a, Replies(m))
  <2>1. IsJoin(Replies(n) \o r, Replies(n), r)
    BY <1>2, Joined
  <2> HIDE DEF m
  <2>2. IsJoin(Replies(m), Replies(n), r)
    BY <1>2, <2>1
  <2> QED
    BY <1>1, <1>a, <2>2, BeginsJoin
<1>4. Owed(c) = s
  <2>1. Owed(c) = SubSeq(s, 1, Len(s))
    <3>1. sendBytes[c] + 1 = 1
      BY <1>1
    <3> QED
      BY <3>1 DEF Owed, s
  <2> QED
    BY <1>1, <2>1, SubSeqFull
<1>5. a \o (s \o r) = Replies(m)
  <2>1. (a \o s) \o r = a \o (s \o r)
    BY <1>b, ThreeJoined
  <2> HIDE DEF m
  <2> QED
    BY <1>1, <1>2, <1>4, <2>1
<1>6. CASE sendBuff'[c] = s \o r
  <2> DEFINE u == s \o r
  <2>1. u \in Seq(Halves)
    BY <1>1, <1>2, Joined
  <2>2. Len(u) \in Nat
    BY <2>1, LenProperties
  <2>3. Owed(c)' = u
    <3>1. sendBytes'[c] = 0 /\ sendBuff'[c] = u
      BY <1>1, <1>6
    <3> HIDE DEF u
    <3>2. Owed(c)' = SubSeq(u, 0 + 1, Len(u))
      BY <3>1 DEF Owed
    <3>3. 0 + 1 = 1
      OBVIOUS
    <3> QED
      BY <2>1, <3>2, <3>3, SubSeqFull
  <2>4. at'[c] \notin {"new", "finish", "push", "count", "counting"}
    BY DEF HandledAt
  <2>5. ~(at'[c] \in {"new", "read"} /\ parsed'[c] = taken[c])
    <3> SUFFICES ASSUME at'[c] = "read"
                 PROVE  parsed'[c] # taken[c]
      BY <2>4
    <3>1. parsed'[c] = End(c, n + 1) /\ parsed'[c] < taken[c]
      BY DEF HandledAt
    <3> QED
      BY <3>1
  <2> HIDE DEF u
  <2>6. answered'[c] = a /\ sendBytes'[c] = 0 /\ sendBuff'[c] = u /\ 0 \in 0..Len(u) /\ a \o u = Replies(m)
    BY <1>1, <1>5, <1>6, <2>2 DEF u, a
  <2>7. RepliesOK(c, m)'
    BY <1>1, <1>3, <2>1, <2>3, <2>4, <2>5, <2>6 DEF RepliesOK
  <2> QED
    BY <2>7 DEF m
<1>7. CASE sendBuff'[c] = s /\ at'[c] = "blocked"
  <2>1. answered'[c] = a /\ sendBytes'[c] = 0 /\ 0 \in 0..Len(s)
    BY <1>1, <1>a DEF a
  <2>2. RepliesOK(c, m)'
    BY <1>1, <1>3, <1>7, <2>1 DEF RepliesOK, Sending
  <2> QED
    BY <2>2 DEF m
<1>8. sendBuff'[c] = s \o r \/ (sendBuff'[c] = s /\ at'[c] = "blocked")
  <2>1. DOMAIN sendBuff = Clients /\ at \in [Clients -> Places]
    BY DEF ServeTypeOK
  <2>2. CASE sendBuff' = [sendBuff EXCEPT ![c] = @ \o Reply(Len(handled[c]) + 1)]
    BY <2>1, <2>2 DEF s, r
  <2>3. CASE sendBuff' = sendBuff /\ Moves(c, "blocked")
    BY <2>1, <2>3 DEF s, Moves
  <2> QED
    BY <2>2, <2>3 DEF HandledTo
<1> QED
  BY <1>6, <1>7, <1>8

LEMMA Handles ==
  ASSUME ServeInv, NEW c \in Clients, NEW l \in Loops, Handle(l, c)
  PROVE  ServeInv'
<1>1. ServeTypeOK /\ scenario \in Scenarios /\ DOMAIN handled = Clients
  BY DEF ServeInv, ServeTypeOK
<1>2. /\ HandledTo(l, c)
      /\ at[c] = "handle" /\ handled' = [handled EXCEPT ![c] = Append(@, request[c])]
      /\ UNCHANGED <<scenario, hungup, unlucky, taken, sendBytes, answered>>
  BY HandleIs
<1>3. ServeTypeOK' /\ OnlyOf(c)
  BY <1>1, <1>2, HandledType
<1>4. ASSUME c \notin unlucky'
      PROVE  ServeOK(c)'
  <2>1. PICK n \in Nat : ParsedOK(c, n) /\ RepliesOK(c, n)
    BY <1>2, <1>4 DEF ServeInv, ServeOK
  <2>2. Len(handled[c]) = n
    BY <1>1, <2>1, KnownIs DEF Known
  <2>3. HandledAt(c, n + 1)
    BY <1>1, <1>2, <2>1, HandledGoesOn
  <2>4. ParsedOK(c, n + 1)'
    BY <1>1, <1>2, <2>1, <2>3, HandledParsed
  <2>5. RepliesOK(c, n + 1)'
    <3>1. taken[c] \in Nat /\ End(c, n + 1) \in Nat
      BY <1>2, <2>1 DEF ParsedOK
    <3> QED
      BY <1>1, <1>2, <2>1, <2>2, <2>3, <3>1, HandledReplies
  <2>6. n + 1 \in Nat
    OBVIOUS
  <2> QED
    BY <2>4, <2>5, <2>6 DEF ServeOK
<1> QED
  BY <1>3, <1>4, OthersKept

-----------------------------------------------------------------------------
(* However requests are cut, each is run once, whole and in order *)

LEMMA ServeInit ==
  ASSUME Init
  PROVE  ServeInv
<1>1. ServeTypeOK
  BY DEF Init, ServeTypeOK, Places
<1>2. ASSUME NEW c \in Clients
      PROVE  ServeOK(c)
  <2>1. /\ scenario \in Scenarios /\ at[c] = "new" /\ taken[c] = 0 /\ parsed[c] = 0 /\ handled[c] = <<>>
        /\ answered[c] = <<>> /\ sendBuff[c] = <<>> /\ sendBytes[c] = 0
    BY DEF Init
  <2>2. Len(Script(c)) \in Nat /\ Len(Bytes(c)) \in Nat /\ End(c, 0) = 0
    BY <2>1, EndsAre
  <2>3. SubSeq(Script(c), 1, 0) = <<>>
    BY SubSeqEmpty
  <2>4. ParsedOK(c, 0)
    <3>1. 0 \in 0..Len(Script(c)) /\ 0 <= Len(Bytes(c))
      BY <2>2
    <3> QED
      BY <2>1, <2>2, <2>3, <3>1 DEF ParsedOK, Sending
  <2>5. RepliesOK(c, 0)
    <3>1. Replies(0) = <<>> /\ <<>> \in Seq(Halves) /\ Len(<<>>) = 0
      BY RepliesAre, EmptySeq
    <3>2. Owed(c) = <<>>
      <4>1. Owed(c) = SubSeq(<<>>, 0 + 1, 0)
        BY <2>1, <3>1 DEF Owed
      <4>2. 0 + 1 > 0
        OBVIOUS
      <4> QED
        BY <4>1, <4>2, SubSeqEmpty
    <3>3. <<>> \o <<>> = <<>>
      BY <3>1, ConcatEmptySeq
    <3>4. Begins(<<>>, <<>>)
      BY <3>1 DEF Begins
    <3> QED
      BY <2>1, <3>1, <3>2, <3>3, <3>4 DEF RepliesOK, Sending
  <2> QED
    BY <2>4, <2>5 DEF ServeOK
<1> QED
  BY <1>1, <1>2 DEF ServeInv

LEMMA ServeStep ==
  ASSUME ServeInv, [Next]_vars
  PROVE  ServeInv'
<1>1. CASE UNCHANGED vars
  <2>1. UNCHANGED <<scenario, at, taken, parsed, request, handled, answered, sendBuff, sendBytes, unlucky, hungup>>
    BY <1>1 DEF vars, rest, buffers, replies
  <2>2. hungup \subseteq Clients
    BY DEF ServeInv, ServeTypeOK
  <2> QED
    BY <2>1, <2>2, AllKept
<1>2. CASE Monitor
  <2>1. UNCHANGED <<scenario, at, taken, parsed, request, handled, answered, sendBuff, sendBytes, unlucky, hungup>>
    BY <1>2 DEF Monitor, rest, buffers, replies
  <2>2. hungup \subseteq Clients
    BY DEF ServeInv, ServeTypeOK
  <2> QED
    BY <2>1, <2>2, AllKept
<1>3. ASSUME NEW c \in Clients, Hangup(c)
      PROVE  ServeInv'
  <2>1. /\ UNCHANGED <<scenario, at, taken, parsed, request, handled, answered, sendBuff, sendBytes, unlucky>>
        /\ hungup' = hungup \cup {c}
    BY <1>3 DEF Hangup, rest, buffers, replies
  <2>2. hungup \subseteq Clients
    BY DEF ServeInv, ServeTypeOK
  <2> QED
    BY <2>1, <2>2, AllKept
<1>4. ASSUME NEW c \in Clients, Accept(c)
      PROVE  ServeInv'
  <2>1. PICK l \in Loops : TRUE
    BY ConnectionAssumption
  <2> QED
    BY <1>4, MovingSteps
<1>5. ASSUME NEW c \in Clients, NEW l \in Loops,
             \/ ReceiveEnd(l, c) \/ SendAgain(l, c) \/ Writable(l, c)
             \/ SendFails(l, c) \/ RecordKey(l, c) \/ PushKey(l, c) \/ CountBegin(l, c)
      PROVE  ServeInv'
  BY <1>5, MovingSteps
<1>6. ASSUME NEW c \in Clients, NEW l \in Loops, Receive(l, c)
      PROVE  ServeInv'
  BY <1>6, Receiving
<1>7. ASSUME NEW c \in Clients, NEW l \in Loops, Handle(l, c)
      PROVE  ServeInv'
  BY <1>7, Handles
<1>8. ASSUME NEW c \in Clients, NEW l \in Loops, Send(l, c)
      PROVE  ServeInv'
  BY <1>8, Sends
<1>9. ASSUME NEW c \in Clients, NEW l \in Loops, CountEnd(l, c)
      PROVE  ServeInv'
  BY <1>9, CountEnds
<1> QED
  BY <1>1, <1>2, <1>3, <1>4, <1>5, <1>6, <1>7, <1>8, <1>9 DEF Next, Activity, Serve

\* What each connection has received, parsed, run and sent goes together (ServeInv).
THEOREM ServeInvariant == Spec => []ServeInv
<1>1. Init => ServeInv
  BY ServeInit
<1>2. ServeInv /\ [Next]_vars => ServeInv'
  BY ServeStep
<1> QED
  BY <1>1, <1>2, PTL DEF Spec

LEMMA BeginsPrefix ==
  ASSUME NEW A, NEW s \in Seq(A), NEW t \in Seq(A), Begins(s, t)
  PROVE  IsPrefix(s, t)
<1> DEFINE n == Len(s)
           u == SubSeq(t, 1, n)
<1>1. n \in Nat /\ Len(t) \in Nat /\ n <= Len(t) /\ \A x \in 1..n : t[x] = s[x]
  BY LenProperties DEF Begins
<1>2. SubSeq(s, 1, n) = s
  BY SubSeqFull
<1> HIDE DEF n
<1>3. \A i \in 1..n : t[i] \in A
  <2>1. \A i \in 1..n : i \in 1..Len(t)
    BY <1>1
  <2> QED
    BY <2>1, ElementOfSeq
<1>4. /\ u \in Seq(A) /\ Len(u) = IF 1 <= n THEN n - 1 + 1 ELSE 0
      /\ \A i \in 1..n - 1 + 1 : u[i] = t[1 + i - 1]
  <2>1. 1 \in Int /\ n \in Int
    BY <1>1
  <2> QED
    BY <1>3, <2>1, SubSeqProperties
<1> HIDE DEF u
<1>5. Len(u) = n /\ \A i \in 1..n : u[i] = t[i]
  <2>1. n - 1 + 1 = n /\ \A i \in 1..n : 1 + i - 1 = i
    BY <1>1
  <2> QED
    BY <1>1, <1>4, <2>1
<1>6. u = s
  <2>1. Len(s) = n /\ Len(u) = Len(s)
    BY <1>5 DEF n
  <2>2. \A i \in 1..Len(s) : u[i] = s[i]
    BY <1>1, <1>5, <2>1
  <2> QED
    BY <1>4, <2>1, <2>2, SeqEqual
<1> QED
  BY <1>1, <1>2, <1>6 DEF IsPrefix, u, n

LEMMA ServeInOrder ==
  ASSUME ServeInv
  PROVE  AnsweredInOrder
<1> SUFFICES ASSUME NEW c \in Clients \ unlucky
             PROVE  /\ IsPrefix(handled[c], Script(c))
                    /\ IsPrefix(answered[c], Replies(Len(handled[c])))
                    /\ at[c] = "closed" => c \in hungup
  BY DEF AnsweredInOrder
<1>1. scenario \in Scenarios /\ c \in Clients
  BY DEF ServeInv, ServeTypeOK
<1>2. PICK n \in Nat : ParsedOK(c, n) /\ RepliesOK(c, n)
  BY DEF ServeInv, ServeOK
<1>3. Len(handled[c]) = n
  BY <1>1, <1>2, KnownIs DEF Known
<1>4. IsPrefix(handled[c], Script(c))
  <2> DEFINE sc == Script(c)
             h == handled[c]
  <2>1. h = SubSeq(sc, 1, n) /\ n \in 0..Len(sc)
    BY <1>2 DEF ParsedOK
  <2>2. ScriptOK(sc) /\ Len(sc) \in Nat
    BY <1>1, ScriptIs, EndsAre
  <2>3. ScriptOK(h)
    BY <2>1, <2>2, FirstOnes
  <2>4. h \in Seq(Range(h))
    BY <2>3 DEF ScriptOK
  <2> HIDE DEF h, sc
  <2>5. SubSeq(h, 1, Len(h)) = h
    BY <2>4, SubSeqFull
  <2>6. Len(h) = n /\ n <= Len(sc)
    BY <1>3, <2>1, <2>2 DEF h
  <2>7. IsPrefix(h, sc)
    BY <2>1, <2>5, <2>6 DEF IsPrefix
  <2> QED
    BY <2>7 DEF h, sc
<1>5. IsPrefix(answered[c], Replies(Len(handled[c])))
  <2>1. Begins(answered[c], Replies(n)) /\ answered[c] \in Seq(Halves)
    BY <1>2 DEF RepliesOK
  <2>2. Replies(n) \in Seq(Halves)
    BY RepliesAre DEF RepliesGrow
  <2>3. IsPrefix(answered[c], Replies(n))
    BY <2>1, <2>2, BeginsPrefix
  <2> QED
    BY <1>3, <2>3
<1>6. at[c] = "closed" => c \in hungup
  BY <1>2 DEF ParsedOK
<1> QED
  BY <1>4, <1>5, <1>6

LEMMA ServeAll ==
  ASSUME ServeInv
  PROVE  NoneForgotten
<1> SUFFICES ASSUME NEW c \in Clients \ unlucky, at[c] = "read"
             PROVE  /\ Len(handled[c]) < Len(Script(c)) =>
                         Len(Stream(SubSeq(Script(c), 1, Len(handled[c]) + 1))) > taken[c]
                    /\ parsed[c] = taken[c] => answered[c] = Replies(Len(handled[c]))
  BY DEF NoneForgotten
<1>1. scenario \in Scenarios /\ c \in Clients
  BY DEF ServeInv, ServeTypeOK
<1>2. PICK n \in Nat : ParsedOK(c, n) /\ RepliesOK(c, n)
  BY DEF ServeInv, ServeOK
<1>3. Known(c, n)
  BY <1>1, <1>2, KnownIs
<1>4. Len(handled[c]) = n
  BY <1>3 DEF Known
<1>5. n < Len(Script(c)) => Len(Stream(SubSeq(Script(c), 1, n + 1))) > taken[c]
  <2> SUFFICES ASSUME n < Len(Script(c))
               PROVE  End(c, n + 1) > taken[c]
    BY DEF End
  <2>1. End(c, n + 1) \in Nat
    BY <1>3 DEF Known
  <2>2. taken[c] < End(c, n + 1) /\ taken[c] \in Nat
    BY <1>2 DEF ParsedOK
  <2> QED
    BY <2>1, <2>2
<1>6. parsed[c] = taken[c] => answered[c] = Replies(n)
  <2> SUFFICES ASSUME parsed[c] = taken[c]
               PROVE  answered[c] = Replies(n)
    OBVIOUS
  <2>1. /\ answered[c] \in Seq(Halves) /\ answered[c] \o Owed(c) = Replies(n)
        /\ sendBuff[c] = <<>> /\ sendBytes[c] = 0
    BY <1>2 DEF RepliesOK
  <2>2. Owed(c) = <<>>
    <3>1. Owed(c) = SubSeq(<<>>, 0 + 1, Len(<<>>))
      BY <2>1 DEF Owed
    <3>2. Len(<<>>) = 0 /\ 0 + 1 > 0
      OBVIOUS
    <3> QED
      BY <3>1, <3>2, SubSeqEmpty
  <2> QED
    BY <2>1, <2>2, ConcatEmptySeq
<1> QED
  BY <1>4, <1>5, <1>6

\* Requests are run once each, whole and in order, their replies go out in that order,
\* and no connection is closed that its client keeps, wherever TCP cuts the bytes.
THEOREM RunInOrder == Spec => []AnsweredInOrder
<1>1. Spec => []ServeInv
  BY ServeInvariant
<1>2. ServeInv => AnsweredInOrder
  BY ServeInOrder
<1> QED
  BY <1>1, <1>2, PTL

\* A connection waits for input only when it has run and answered what has come in whole.
THEOREM AllRun == Spec => []NoneForgotten
<1>1. Spec => []ServeInv
  BY ServeInvariant
<1>2. ServeInv => NoneForgotten
  BY ServeAll
<1> QED
  BY <1>1, <1>2, PTL

-----------------------------------------------------------------------------
(* The history of the keys counted *)

\* The last time a key was counted.
IsLast(h, k, i) == i \in 1..Len(h) /\ h[i] = k /\ \A j \in 1..Len(h) : h[j] = k => j <= i

LEMMA HistoryIs ==
  ASSUME NEW U, NEW h \in Seq(U)
  PROVE  Len(h) \in Nat /\ DOMAIN h = 1..Len(h) /\ h \in [1..Len(h) -> U]
BY LenProperties

LEMMA LastAtIs ==
  ASSUME NEW U, NEW h \in Seq(U), NEW k \in Range(h)
  PROVE  IsLast(h, k, LastAt(h, k))
<1> DEFINE n == Len(h)
           T == {i \in 1..n : h[i] = k}
<1>1. n \in Nat /\ DOMAIN h = 1..n
  BY HistoryIs
<1>2. T \in SUBSET (1..n) /\ T # {}
  BY <1>1 DEF Range
<1>3. Max(T) \in T /\ \A i \in T : i <= Max(T)
  BY <1>1, <1>2, LargestOf
<1>4. \E i \in DOMAIN h : h[i] = k /\ \A j \in DOMAIN h : h[j] = k => j <= i
  BY <1>1, <1>3
<1> QED
  BY <1>1, <1>4 DEF LastAt, IsLast

LEMMA OnlyLast ==
  ASSUME NEW U, NEW h \in Seq(U), NEW k, NEW i, IsLast(h, k, i)
  PROVE  k \in Range(h) /\ LastAt(h, k) = i
<1>1. Len(h) \in Nat /\ DOMAIN h = 1..Len(h)
  BY HistoryIs
<1>2. k \in Range(h)
  BY <1>1 DEF Range, IsLast
<1>3. IsLast(h, k, LastAt(h, k))
  BY <1>2, LastAtIs
<1> QED
  BY <1>1, <1>2, <1>3 DEF IsLast

\* A key more: it is the last one now, and was counted since every other one.
LEMMA LastCounted ==
  ASSUME NEW U, NEW h \in Seq(U), NEW x \in U
  PROVE  /\ Range(Append(h, x)) = Range(h) \cup {x}
         /\ LastAt(Append(h, x), x) = Len(h) + 1
         /\ Since(Append(h, x), x) = {}
<1> DEFINE n == Len(h)
           g == Append(h, x)
<1>1. n \in Nat /\ DOMAIN h = 1..n
  BY HistoryIs
<1>2. /\ g \in Seq(U) /\ Len(g) = n + 1
      /\ \A i \in 1..n : g[i] = h[i]
      /\ g[n + 1] = x
  BY AppendProperties
<1>3. DOMAIN g = 1..n + 1
  BY <1>2, HistoryIs
<1> HIDE DEF n, g
<1>4. Range(g) = Range(h) \cup {x}
  <2>1. 1..n + 1 = (1..n) \cup {n + 1}
    BY <1>1
  <2> QED
    BY <1>1, <1>2, <1>3, <2>1 DEF Range
<1>5. IsLast(g, x, n + 1)
  BY <1>1, <1>2 DEF IsLast
<1>6. LastAt(g, x) = n + 1
  BY <1>2, <1>5, OnlyLast
<1>7. LastAt(g, x) + 1..Len(g) = {}
  BY <1>1, <1>2, <1>6
<1>8. Since(g, x) = {}
  BY <1>7 DEF Since
<1> QED
  BY <1>4, <1>6, <1>8 DEF g, n

LEMMA OthersCounted ==
  ASSUME NEW U, NEW h \in Seq(U), NEW x \in U, NEW k \in Range(h), k # x
  PROVE  /\ LastAt(Append(h, x), k) = LastAt(h, k)
         /\ Since(Append(h, x), k) = Since(h, k) \cup {x}
<1> DEFINE n == Len(h)
           g == Append(h, x)
           m == LastAt(h, k)
<1>1. n \in Nat /\ DOMAIN h = 1..n
  BY HistoryIs
<1>2. /\ g \in Seq(U) /\ Len(g) = n + 1
      /\ \A i \in 1..n : g[i] = h[i]
      /\ g[n + 1] = x
  BY AppendProperties
<1>3. m \in 1..n /\ h[m] = k /\ \A j \in 1..n : h[j] = k => j <= m
  BY LastAtIs DEF IsLast
<1> HIDE DEF n, g, m
<1>4. \A j \in 1..n + 1 : g[j] = k => j <= m
  <2> TAKE j \in 1..n + 1
  <2>1. CASE j = n + 1
    BY <1>2, <2>1
  <2>2. CASE j \in 1..n
    BY <1>2, <1>3, <2>2
  <2> QED
    BY <1>1, <2>1, <2>2
<1>5. IsLast(g, k, m)
  BY <1>1, <1>2, <1>3, <1>4 DEF IsLast
<1>6. LastAt(g, k) = m
  BY <1>2, <1>5, OnlyLast
<1>7. m + 1..n + 1 = (m + 1..n) \cup {n + 1} /\ m + 1..n \subseteq 1..n
  BY <1>1, <1>3
<1>8. Since(g, k) = {g[i] : i \in m + 1..n + 1}
  BY <1>2, <1>6 DEF Since
<1>9. {g[i] : i \in m + 1..n + 1} = {h[i] : i \in m + 1..n} \cup {x}
  BY <1>2, <1>7
<1>10. Since(h, k) = {h[i] : i \in m + 1..n}
  BY DEF Since, m, n
<1> QED
  BY <1>6, <1>8, <1>9, <1>10 DEF g, m

LEMMA ImageFinite ==
  ASSUME NEW I, IsFiniteSet(I), NEW h
  PROVE  IsFiniteSet({h[i] : i \in I})
<1> DEFINE f == [i \in I |-> h[i]]
           T == {h[i] : i \in I}
<1>1. f \in Surjection(I, T)
  BY DEF Surjection
<1> HIDE DEF f, T
<1>2. IsFiniteSet(T)
  BY <1>1, FS_Surjection
<1> QED
  BY <1>2 DEF T

LEMMA SinceFinite ==
  ASSUME NEW U, NEW h \in Seq(U), NEW k \in Range(h)
  PROVE  IsFiniteSet(Since(h, k)) /\ Cardinality(Since(h, k)) \in Nat
<1> DEFINE I == LastAt(h, k) + 1..Len(h)
<1>1. LastAt(h, k) + 1 \in Int /\ Len(h) \in Int
  BY LastAtIs, HistoryIs DEF IsLast
<1>2. IsFiniteSet(I)
  BY <1>1, FS_Interval
<1>3. IsFiniteSet({h[i] : i \in I})
  <2> HIDE DEF I
  <2> QED
    BY <1>2, ImageFinite
<1>4. IsFiniteSet(Since(h, k))
  BY <1>3 DEF Since
<1> QED
  BY <1>4, FS_CardinalityType

\* Of two keys, the one counted later was counted since the other one.
LEMMA LaterIsSince ==
  ASSUME NEW U, NEW h \in Seq(U), NEW a \in Range(h), NEW b \in Range(h),
         LastAt(h, a) > LastAt(h, b)
  PROVE  a \in Since(h, b)
<1>1. IsLast(h, a, LastAt(h, a)) /\ IsLast(h, b, LastAt(h, b)) /\ Len(h) \in Nat
  BY LastAtIs, HistoryIs
<1>2. LastAt(h, a) \in LastAt(h, b) + 1..Len(h) /\ h[LastAt(h, a)] = a
  BY <1>1 DEF IsLast
<1> QED
  BY <1>2 DEF Since

LEMMA RangeFinite ==
  ASSUME NEW U, NEW h \in Seq(U)
  PROVE  IsFiniteSet(Range(h)) /\ Cardinality(Range(h)) \in Nat
<1> DEFINE I == 1..Len(h)
<1>1. Len(h) \in Nat /\ DOMAIN h = I
  BY HistoryIs
<1>2. IsFiniteSet(I)
  BY <1>1, FS_Interval
<1>3. IsFiniteSet({h[i] : i \in I})
  <2> HIDE DEF I
  <2> QED
    BY <1>2, ImageFinite
<1>4. IsFiniteSet(Range(h))
  BY <1>1, <1>3 DEF Range
<1> QED
  BY <1>4, FS_CardinalityType

LEMMA TimesIs ==
  ASSUME NEW U, NEW h \in Seq(U), NEW x \in U, NEW k
  PROVE  /\ Times(h, k) \in Nat
         /\ k \notin Range(h) => Times(h, k) = 0
         /\ Times(Append(h, x), k) = Times(h, k) + (IF k = x THEN 1 ELSE 0)
<1> DEFINE n == Len(h)
           g == Append(h, x)
           T == {i \in 1..n : h[i] = k}
<1>1. n \in Nat /\ DOMAIN h = 1..n
  BY HistoryIs
<1>2. /\ g \in Seq(U) /\ Len(g) = n + 1
      /\ \A i \in 1..n : g[i] = h[i]
      /\ g[n + 1] = x
  BY AppendProperties
<1>3. DOMAIN g = 1..n + 1
  BY <1>2, HistoryIs
<1>4. Times(h, k) = Cardinality(T)
  BY <1>1 DEF Times
<1>5. IsFiniteSet(T) /\ n + 1 \notin T
  <2>1. IsFiniteSet(1..n)
    BY <1>1, FS_Interval
  <2>2. T \in SUBSET (1..n)
    OBVIOUS
  <2> QED
    BY <1>1, <2>1, <2>2, FS_Subset
<1>6. Cardinality(T) \in Nat
  BY <1>5, FS_CardinalityType
<1>7. k \notin Range(h) => T = {}
  BY <1>1 DEF Range
<1> HIDE DEF n, g
<1>8. {i \in 1..n + 1 : g[i] = k} = IF k = x THEN T \cup {n + 1} ELSE T
  <2>1. 1..n + 1 = (1..n) \cup {n + 1}
    BY <1>1
  <2> QED
    BY <1>2, <2>1
<1>9. Times(g, k) = Cardinality({i \in 1..n + 1 : g[i] = k})
  BY <1>3 DEF Times
<1>10. Cardinality(T \cup {n + 1}) = Cardinality(T) + 1
  <2> HIDE DEF T
  <2> QED
    BY <1>5, FS_AddElement
<1>11. Times(g, k) = Times(h, k) + (IF k = x THEN 1 ELSE 0)
  <2> HIDE DEF T
  <2>1. CASE k = x
    BY <1>4, <1>8, <1>9, <1>10, <2>1
  <2>2. CASE k # x
    <3>1. Times(g, k) = Times(h, k)
      BY <1>4, <1>8, <1>9, <2>2
    <3> QED
      BY <1>4, <1>6, <2>2, <3>1
  <2> QED
    BY <2>1, <2>2
<1> QED
  BY <1>4, <1>6, <1>7, <1>11, FS_EmptySet DEF g
-----------------------------------------------------------------------------
(* The list without some of its nodes *)

\* The places from 1 to m of what is left of n places, in order.
PlacesLeft(e, n, gone, m) ==
  /\ m \in Nat /\ m = n - Cardinality(gone)
  /\ e \in [1..m -> (1..n) \ gone]
  /\ \A i, j \in 1..m : i < j => e[i] < e[j]
  /\ \A p \in (1..n) \ gone : \E i \in 1..m : e[i] = p

LEMMA PlacesExist ==
  ASSUME NEW n \in Nat, NEW gone \in SUBSET (1..n)
  PROVE  LET m == n - Cardinality(gone)
             e == [i \in 1..m |-> CHOOSE j \in (1..n) \ gone :
                                    Cardinality({k \in 1..j : k \notin gone}) = i]
         IN PlacesLeft(e, n, gone, m)
<1> DEFINE m == n - Cardinality(gone)
           R == (1..n) \ gone
           Up(j) == {k \in 1..j : k \notin gone}
           r == [j \in R |-> Cardinality(Up(j))]
           e == [i \in 1..m |-> CHOOSE j \in R : Cardinality(Up(j)) = i]
<1>1. /\ IsFiniteSet(1..n) /\ Cardinality(1..n) = n
      /\ IsFiniteSet(gone) /\ Cardinality(gone) \in Nat /\ Cardinality(gone) <= n
  <2>1. IsFiniteSet(1..n) /\ Cardinality(1..n) = n
    BY FS_Interval
  <2> DEFINE S == 1..n
  <2>2. IsFiniteSet(S) /\ Cardinality(S) = n /\ gone \in SUBSET S
    BY <2>1
  <2>3. IsFiniteSet(gone) /\ Cardinality(gone) <= n
    <3> HIDE DEF S
    <3> QED
      BY <2>2, FS_Subset
  <2> QED
    BY <2>1, <2>3, FS_CardinalityType
<1>2. IsFiniteSet(R) /\ Cardinality(R) = m
  <2> DEFINE S == 1..n
  <2>1. S \cap gone = gone
    OBVIOUS
  <2>2. IsFiniteSet(S) /\ Cardinality(S) = n
    BY <1>1
  <2>3. IsFiniteSet(S \ gone) /\ Cardinality(S \ gone) = Cardinality(S) - Cardinality(S \cap gone)
    <3> HIDE DEF S
    <3> QED
      BY <2>2, FS_Difference
  <2> QED
    BY <2>1, <2>2, <2>3
<1>3. m \in Nat
  BY <1>1
<1>4. \A j \in R : Up(j) \subseteq R /\ j \in Up(j)
  OBVIOUS
<1>5. \A j \in R : \A k \in R : j < k => Up(j) \subseteq Up(k) /\ k \notin Up(j)
  OBVIOUS
<1> HIDE DEF Up
<1>6. \A j \in R : /\ IsFiniteSet(Up(j)) /\ Cardinality(Up(j)) \in Nat
                   /\ Cardinality(Up(j)) <= m /\ Cardinality(Up(j)) # 0
  <2> HIDE DEF R, m
  <2> TAKE j \in R
  <2>1. IsFiniteSet(Up(j)) /\ Cardinality(Up(j)) <= m
    BY <1>2, <1>4, FS_Subset
  <2>2. Cardinality(Up(j)) \in Nat
    BY <2>1, FS_CardinalityType
  <2>3. Cardinality(Up(j)) # 0
    BY <1>4, <2>1, FS_EmptySet
  <2> QED
    BY <2>1, <2>2, <2>3
<1>7. r \in [R -> 1..m]
  <2> HIDE DEF R, m
  <2> QED
    BY <1>3, <1>6
<1>8. \A j, k \in R : j < k => r[j] < r[k]
  <2> TAKE j, k \in R
  <2> HAVE j < k
  <2>1. Up(j) \subseteq Up(k) /\ k \in Up(k) /\ k \notin Up(j)
    BY <1>4, <1>5
  <2>2. Cardinality(Up(j)) <= Cardinality(Up(k)) /\ Cardinality(Up(j)) # Cardinality(Up(k))
    BY <1>6, <2>1, FS_Subset
  <2>3. r[j] = Cardinality(Up(j)) /\ r[k] = Cardinality(Up(k))
    OBVIOUS
  <2> QED
    BY <1>6, <2>2, <2>3
<1>9. \A j, k \in R : r[j] = r[k] => j = k
  <2>1. \A j \in R : j \in Nat /\ r[j] \in Nat
    BY <1>3, <1>7
  <2> HIDE DEF R, r
  <2> QED
    BY <1>8, <2>1
<1>10. r \in Injection(R, 1..m)
  BY <1>7, <1>9 DEF Injection, IsInjective
<1>11. IsFiniteSet(1..m) /\ Cardinality(1..m) = m
  BY <1>3, FS_Interval
<1>12. r \in Surjection(R, 1..m)
  <2> HIDE DEF r, R, m
  <2> QED
    BY <1>2, <1>10, <1>11, FS_Injection
<1>13. \A i \in 1..m : e[i] \in R /\ r[e[i]] = i
  <2> TAKE i \in 1..m
  <2>1. \E j \in R : r[j] = i
    BY <1>12 DEF Surjection
  <2>2. \E j \in R : Cardinality(Up(j)) = i
    BY <2>1
  <2>3. e[i] = CHOOSE j \in R : Cardinality(Up(j)) = i
    OBVIOUS
  <2> HIDE DEF R, e
  <2>4. e[i] \in R /\ Cardinality(Up(e[i])) = i
    BY <2>2, <2>3
  <2> QED
    BY <2>4 DEF r
<1>14. e \in [1..m -> R]
  BY <1>13
<1>15. \A i, j \in 1..m : i < j => e[i] < e[j]
  <2> TAKE i, j \in 1..m
  <2> HAVE i < j
  <2>1. e[i] \in R /\ r[e[i]] = i /\ e[j] \in R /\ r[e[j]] = j
    BY <1>13
  <2>2. e[i] \in Nat /\ e[j] \in Nat
    BY <2>1
  <2>3. ~(e[j] < e[i])
    <3> HIDE DEF R, r, e, m
    <3> QED
      BY <1>3, <1>8, <2>1
  <2> HIDE DEF r, e
  <2> QED
    BY <1>3, <2>1, <2>2, <2>3
<1>16. \A p \in R : \E i \in 1..m : e[i] = p
  <2> TAKE p \in R
  <2>1. r[p] \in 1..m
    BY <1>7
  <2>2. e[r[p]] \in R /\ r[e[r[p]]] = r[p]
    BY <1>13, <2>1
  <2>3. e[r[p]] = p
    <3> HIDE DEF R, r, e
    <3> QED
      BY <1>9, <2>2
  <2> QED
    BY <2>1, <2>3
<1>17. e = [i \in 1..m |-> CHOOSE j \in (1..n) \ gone : Cardinality({k \in 1..j : k \notin gone}) = i]
  BY DEF Up
<1> HIDE DEF e
<1>18. PlacesLeft(e, n, gone, m)
  BY <1>3, <1>14, <1>15, <1>16 DEF PlacesLeft
<1> QED
  BY <1>17, <1>18

\* The list that is left: what was at those places.
KeptAs(kept, list, n, gone, e, m) ==
  PlacesLeft(e, n, gone, m) /\ kept = [i \in 1..m |-> list[e[i]]]

LEMMA KeptIs ==
  ASSUME NEW list, Len(list) \in Nat, DOMAIN list = 1..Len(list), NEW gone \in SUBSET DOMAIN list
  PROVE  \E e, m : KeptAs(Kept(list, gone), list, Len(list), gone, e, m)
<1> DEFINE n == Len(list)
           m == n - Cardinality(gone)
           f(i) == CHOOSE j \in (1..n) \ gone : Cardinality({k \in 1..j : k \notin gone}) = i
           e == [i \in 1..m |-> f(i)]
<1>1. PlacesLeft(e, n, gone, m)
  BY PlacesExist
<1>2. Kept(list, gone) = [i \in 1..m |-> list[f(i)]]
  BY DEF Kept
<1>3. \A i \in 1..m : e[i] = f(i)
  <2> HIDE DEF f
  <2> QED
    OBVIOUS
<1>4. Kept(list, gone) = [i \in 1..m |-> list[e[i]]]
  <2> HIDE DEF f, e, m
  <2> QED
    BY <1>2, <1>3
<1> HIDE DEF e, m
<1> QED
  BY <1>1, <1>4 DEF KeptAs

LEMMA UnusedIs ==
  ASSUME NEW list, NEW n \in Nat, Len(list) = n, DOMAIN list = 1..n
  PROVE  Unused(list) \in Nat /\ \A i \in 1..n : list[i].node # Unused(list)
<1> DEFINE f == [i \in 1..n |-> list[i].node]
<1>1. Nodes(list) = {list[i].node : i \in 1..n}
  BY DEF Nodes, Range
<1>2. f \in Surjection(1..n, Nodes(list))
  BY <1>1 DEF Surjection
<1>3. IsFiniteSet(1..n) /\ Cardinality(1..n) = n /\ Cardinality(1..n + 1) = n + 1
  BY FS_Interval
<1>4. IsFiniteSet(Nodes(list)) /\ Cardinality(Nodes(list)) <= n
  <2> HIDE DEF f
  <2> QED
    BY <1>2, <1>3, FS_Surjection
<1>5. Cardinality(Nodes(list)) \in Nat
  BY <1>4, FS_CardinalityType
<1>6. ~(1..n + 1 \subseteq Nodes(list))
  <2> SUFFICES ASSUME 1..n + 1 \subseteq Nodes(list)
               PROVE  FALSE
    OBVIOUS
  <2>1. Cardinality(1..n + 1) <= Cardinality(Nodes(list))
    BY <1>4, FS_Subset
  <2> QED
    BY <1>3, <1>4, <1>5, <2>1
<1>7. Unused(list) \in 1..n + 1 /\ Unused(list) \notin Nodes(list)
  BY <1>6 DEF Unused
<1> QED
  BY <1>1, <1>7
-----------------------------------------------------------------------------
(* The list, the map and the history *)

\* The keys ks of the nodes of a list, one for each, those counted later in front.
InOrderOf(h, ks, n) ==
  /\ n \in Nat /\ DOMAIN ks = 1..n
  /\ \A i \in 1..n : ks[i] \in Range(h)
  /\ \A i, j \in 1..n : i < j => LastAt(h, ks[i]) > LastAt(h, ks[j])

\* The map leads from each key to its node.
MapsTo(map, list, ks, n) ==
  /\ Len(list) = n /\ DOMAIN list = 1..n
  /\ \A i, j \in 1..n : list[i].node = list[j].node => i = j
  /\ DOMAIN map = {ks[i] : i \in 1..n}
  /\ \A i \in 1..n : map[ks[i]] = list[i].node

\* A node counts the times of its key.
CountsOf(list, h, ks, n) ==
  \A i \in 1..n : /\ list[i].cnt \in Nat /\ list[i].cnt <= Times(h, ks[i])
                  /\ Cardinality(Range(h)) <= MaxKeyCnt => list[i].cnt = Times(h, ks[i])

Fits(list, map, h, ks, n) ==
  InOrderOf(h, ks, n) /\ MapsTo(map, list, ks, n) /\ CountsOf(list, h, ks, n)

\* What is left of the list, with a node for the key counted now in front of it.
Pushed(ks, e, m, x) == [i \in 1..m + 1 |-> IF i = 1 THEN x ELSE ks[e[i - 1]]]

LEMMA PushedIs ==
  ASSUME NEW m \in Nat, NEW ks, NEW e, NEW x
  PROVE  /\ DOMAIN Pushed(ks, e, m, x) = 1..m + 1
         /\ Pushed(ks, e, m, x)[1] = x
         /\ \A i \in 2..m + 1 : Pushed(ks, e, m, x)[i] = ks[e[i - 1]]
BY DEF Pushed

LEMMA PushedInOrder ==
  ASSUME NEW U, NEW h \in Seq(U), NEW x \in U, NEW n, NEW ks, InOrderOf(h, ks, n),
         NEW gone, NEW e, NEW m, PlacesLeft(e, n, gone, m),
         \A p \in (1..n) \ gone : ks[p] # x
  PROVE  InOrderOf(Append(h, x), Pushed(ks, e, m, x), m + 1)
<1> DEFINE g == Append(h, x)
           qs == Pushed(ks, e, m, x)
<1>1. /\ m \in Nat /\ DOMAIN qs = 1..m + 1 /\ qs[1] = x
      /\ \A i \in 2..m + 1 : qs[i] = ks[e[i - 1]] /\ i - 1 \in 1..m
  <2>1. m \in Nat
    BY DEF PlacesLeft
  <2>2. DOMAIN qs = 1..m + 1 /\ qs[1] = x /\ \A i \in 2..m + 1 : qs[i] = ks[e[i - 1]]
    BY <2>1, PushedIs
  <2> HIDE DEF qs
  <2> QED
    BY <2>1, <2>2
<1>2. \A i \in 1..m : /\ e[i] \in 1..n /\ ks[e[i]] \in Range(h) /\ ks[e[i]] # x
  BY DEF PlacesLeft, InOrderOf
<1>3. Range(g) = Range(h) \cup {x} /\ LastAt(g, x) = Len(h) + 1
  BY LastCounted
<1>4. \A k \in Range(h) : k # x => LastAt(g, k) = LastAt(h, k)
  BY OthersCounted
<1>5. \A k \in Range(h) : LastAt(h, k) \in 1..Len(h) /\ Len(h) \in Nat
  BY LastAtIs, HistoryIs DEF IsLast
<1> HIDE DEF g, qs
<1>6. \A i \in 2..m + 1 : qs[i] \in Range(h) /\ qs[i] # x
  BY <1>1, <1>2
<1>7. \A i \in 1..m + 1 : i = 1 \/ i \in 2..m + 1
  BY <1>1
<1>8. \A i \in 1..m + 1 : qs[i] \in Range(g)
  BY <1>1, <1>3, <1>6, <1>7
<1>9. ASSUME NEW i \in 1..m + 1, NEW j \in 1..m + 1, i < j
      PROVE  LastAt(g, qs[i]) > LastAt(g, qs[j])
  <2>1. j \in 2..m + 1 /\ j - 1 \in 1..m
    BY <1>1, <1>9
  <2>2. LastAt(g, qs[j]) = LastAt(h, qs[j]) /\ LastAt(h, qs[j]) \in 1..Len(h) /\ Len(h) \in Nat
    BY <1>4, <1>5, <1>6, <2>1
  <2>3. CASE i = 1
    <3>1. LastAt(g, qs[i]) = Len(h) + 1
      BY <1>1, <1>3, <2>3
    <3> QED
      BY <2>2, <3>1
  <2>4. CASE i \in 2..m + 1
    <3>1. i - 1 \in 1..m /\ i - 1 < j - 1
      BY <1>1, <1>9, <2>1, <2>4
    <3>2. e[i - 1] < e[j - 1] /\ e[i - 1] \in 1..n /\ e[j - 1] \in 1..n
      BY <1>2, <2>1, <3>1 DEF PlacesLeft
    <3>3. LastAt(h, ks[e[i - 1]]) > LastAt(h, ks[e[j - 1]])
      BY <3>2 DEF InOrderOf
    <3>4. qs[i] = ks[e[i - 1]] /\ qs[j] = ks[e[j - 1]]
      BY <1>1, <2>1, <2>4
    <3>5. LastAt(g, qs[i]) = LastAt(h, qs[i])
      BY <1>4, <1>6, <2>4
    <3> QED
      BY <2>2, <3>3, <3>4, <3>5
  <2> QED
    BY <1>7, <2>3, <2>4
<1>10. m + 1 \in Nat
  BY <1>1
<1> QED
  BY <1>1, <1>8, <1>9, <1>10 DEF InOrderOf, g, qs

\* Its node: the kept ones and one that is not among them.
Put(node, cnt, kept) == <<[node |-> node, cnt |-> cnt]>> \o kept

PutGives(list, node, cnt, kept, m) ==
  /\ list \in Seq([node : Nat, cnt : Nat])
  /\ Len(list) = m + 1 /\ DOMAIN list = 1..m + 1
  /\ list[1] = [node |-> node, cnt |-> cnt]
  /\ \A i \in 2..m + 1 : list[i] = kept[i - 1]

LEMMA PutIs ==
  ASSUME NEW m \in Nat, NEW kept \in Seq([node : Nat, cnt : Nat]), Len(kept) = m,
         NEW node \in Nat, NEW cnt \in Nat
  PROVE  PutGives(Put(node, cnt, kept), node, cnt, kept, m)
<1> DEFINE A == [node : Nat, cnt : Nat]
           a == [node |-> node, cnt |-> cnt]
           s == <<a>> \o kept
<1>1. <<a>> \in Seq(A) /\ Len(<<a>>) = 1 /\ <<a>>[1] = a
  OBVIOUS
<1>2. kept \in Seq(A)
  OBVIOUS
<1> HIDE DEF A, a
<1>3. /\ s \in Seq(A) /\ Len(s) = 1 + m
      /\ \A i \in 1..1 + m : s[i] = IF i <= 1 THEN <<a>>[i] ELSE kept[i - 1]
  <2> DEFINE t == <<a>>
  <2>1. t \in Seq(A) /\ Len(t) = 1
    BY <1>1
  <2> HIDE DEF t
  <2>2. /\ t \o kept \in Seq(A) /\ Len(t \o kept) = Len(t) + Len(kept)
        /\ \A i \in 1..Len(t) + Len(kept) : (t \o kept)[i] = IF i <= Len(t) THEN t[i] ELSE kept[i - Len(t)]
    BY <1>2, <2>1, ConcatProperties
  <2> QED
    BY <2>1, <2>2 DEF t
<1>4. DOMAIN s = 1..m + 1
  BY <1>3, LenProperties
<1> HIDE DEF s
<1>5. s[1] = a
  BY <1>1, <1>3
<1>6. \A i \in 2..m + 1 : s[i] = kept[i - 1]
  BY <1>3
<1> QED
  BY <1>3, <1>4, <1>5, <1>6 DEF PutGives, Put, s, A, a

\* The key has a node of its own now.
NodeGiven(map, list, ks, left, kept, m, x, node) ==
  /\ \A i \in 1..m : kept[i].node # node
  /\ DOMAIN map = {ks[p] : p \in left} \cup {x}
  /\ map[x] = node
  /\ \A p \in left : ks[p] # x /\ map[ks[p]] = list[p].node

\* Its count.
CountGiven(h, x, cnt) ==
  /\ cnt <= Times(Append(h, x), x)
  /\ Cardinality(Range(Append(h, x))) <= MaxKeyCnt => cnt = Times(Append(h, x), x)

LEMMA PushedMaps ==
  ASSUME NEW n, NEW ks, NEW list, NEW map, MapsTo(map, list, ks, n),
         NEW gone, NEW e, NEW m, NEW kept \in Seq([node : Nat, cnt : Nat]),
         KeptAs(kept, list, n, gone, e, m),
         NEW x, NEW node \in Nat, NEW cnt \in Nat, NEW map2,
         NodeGiven(map2, list, ks, (1..n) \ gone, kept, m, x, node)
  PROVE  MapsTo(map2, Put(node, cnt, kept), Pushed(ks, e, m, x), m + 1)
<1> DEFINE list2 == Put(node, cnt, kept)
           qs == Pushed(ks, e, m, x)
<1>0. PlacesLeft(e, n, gone, m) /\ kept = [i \in 1..m |-> list[e[i]]]
  BY DEF KeptAs
<1>1. m \in Nat
  BY <1>0 DEF PlacesLeft
<1>2. Len(kept) = m /\ DOMAIN kept = 1..m
  <2>1. DOMAIN kept = 1..m
    BY <1>0
  <2> QED
    BY <1>1, <2>1, LenProperties
<1>3. /\ DOMAIN qs = 1..m + 1 /\ qs[1] = x
      /\ \A i \in 2..m + 1 : qs[i] = ks[e[i - 1]]
  BY <1>1, PushedIs
<1>4. /\ Len(list2) = m + 1 /\ DOMAIN list2 = 1..m + 1
      /\ list2[1] = [node |-> node, cnt |-> cnt]
      /\ \A i \in 2..m + 1 : list2[i] = kept[i - 1]
  <2>1. PutGives(list2, node, cnt, kept, m)
    BY <1>1, <1>2, PutIs
  <2> HIDE DEF list2
  <2> QED
    BY <2>1 DEF PutGives
<1>5. \A i \in 1..m : e[i] \in (1..n) \ gone /\ kept[i] = list[e[i]]
  BY <1>0 DEF PlacesLeft
<1>5a. /\ \A i \in 1..m : kept[i].node # node
       /\ DOMAIN map2 = {ks[p] : p \in (1..n) \ gone} \cup {x}
       /\ map2[x] = node
       /\ \A p \in (1..n) \ gone : ks[p] # x /\ map2[ks[p]] = list[p].node
  BY DEF NodeGiven
<1> HIDE DEF list2, qs
<1>6. \A i \in 1..m + 1 : i = 1 \/ (i \in 2..m + 1 /\ i - 1 \in 1..m)
  BY <1>1
<1>7. \A i \in 2..m + 1 : i - 1 \in 1..m /\ list2[i].node = list[e[i - 1]].node /\ e[i - 1] \in 1..n
  <2>1. \A i \in 2..m + 1 : i - 1 \in 1..m
    BY <1>1
  <2> QED
    BY <1>4, <1>5, <2>1
<1>8. list2[1].node = node /\ \A i \in 2..m + 1 : list2[i].node # node
  <2>1. list2[1].node = node
    BY <1>4
  <2>2. ASSUME NEW i \in 2..m + 1
        PROVE  list2[i].node # node
    <3>1. i - 1 \in 1..m
      BY <1>7
    <3>2. kept[i - 1].node # node
      BY <1>5a, <3>1
    <3> QED
      BY <1>4, <3>2
  <2> QED
    BY <2>1, <2>2
<1>9. ASSUME NEW i \in 1..m + 1, NEW j \in 1..m + 1, list2[i].node = list2[j].node
      PROVE  i = j
  <2>1. CASE i \in 2..m + 1 /\ j \in 2..m + 1
    <3>1. e[i - 1] = e[j - 1]
      <4>1. e[i - 1] \in 1..n /\ e[j - 1] \in 1..n
        BY <1>7, <2>1
      <4>2. list[e[i - 1]].node = list[e[j - 1]].node
        BY <1>7, <1>9, <2>1
      <4> QED
        BY <4>1, <4>2 DEF MapsTo
    <3>2. ~(i - 1 < j - 1) /\ ~(j - 1 < i - 1)
      <4>1. e[i - 1] \in (1..n) \ gone /\ i - 1 \in 1..m /\ j - 1 \in 1..m
        BY <1>5, <1>7, <2>1
      <4>2. i - 1 < j - 1 => e[i - 1] < e[j - 1]
        BY <1>0, <4>1 DEF PlacesLeft
      <4>3. j - 1 < i - 1 => e[j - 1] < e[i - 1]
        BY <1>0, <4>1 DEF PlacesLeft
      <4> QED
        BY <3>1, <4>1, <4>2, <4>3
    <3> QED
      BY <1>1, <2>1, <3>2
  <2> QED
    BY <1>6, <1>8, <1>9, <2>1
<1>10. DOMAIN map2 = {qs[i] : i \in 1..m + 1}
  <2>1. ASSUME NEW k \in DOMAIN map2
        PROVE  \E i \in 1..m + 1 : qs[i] = k
    <3>1. CASE k = x
      <4>1. 1 \in 1..m + 1
        BY <1>1
      <4> QED
        BY <1>3, <3>1, <4>1
    <3>2. CASE k # x
      <4>1. PICK p \in (1..n) \ gone : k = ks[p]
        BY <1>5a, <2>1, <3>2
      <4>2. PICK i \in 1..m : e[i] = p
        BY <1>0 DEF PlacesLeft
      <4>3. i + 1 \in 2..m + 1 /\ (i + 1) - 1 = i /\ i + 1 \in 1..m + 1
        BY <1>1
      <4>4. qs[i + 1] = ks[e[(i + 1) - 1]]
        BY <1>3, <4>3
      <4> QED
        BY <4>1, <4>2, <4>3, <4>4
    <3> QED
      BY <3>1, <3>2
  <2>2. ASSUME NEW i \in 1..m + 1
        PROVE  qs[i] \in DOMAIN map2
    <3>1. CASE i = 1
      BY <1>3, <1>5a, <3>1
    <3>2. CASE i \in 2..m + 1 /\ i - 1 \in 1..m
      <4>1. e[i - 1] \in (1..n) \ gone /\ qs[i] = ks[e[i - 1]]
        BY <1>3, <1>5, <3>2
      <4> QED
        BY <1>5a, <4>1
    <3> QED
      BY <1>6, <3>1, <3>2
  <2> DEFINE D == DOMAIN map2
  <2>3. /\ \A k \in D : \E i \in 1..m + 1 : qs[i] = k
        /\ \A i \in 1..m + 1 : qs[i] \in D
    BY <2>1, <2>2
  <2>4. D = {qs[i] : i \in 1..m + 1}
    <3> HIDE DEF D
    <3> QED
      BY <2>3
  <2> QED
    BY <2>4
<1>11. \A i \in 1..m + 1 : map2[qs[i]] = list2[i].node
  <2> TAKE i \in 1..m + 1
  <2>1. CASE i = 1
    BY <1>3, <1>5a, <1>8, <2>1
  <2>2. CASE i \in 2..m + 1
    <3>1. i - 1 \in 1..m /\ e[i - 1] \in (1..n) \ gone /\ qs[i] = ks[e[i - 1]]
      BY <1>3, <1>5, <1>7, <2>2
    <3>2. map2[ks[e[i - 1]]] = list[e[i - 1]].node
      BY <1>5a, <3>1
    <3> QED
      BY <1>7, <2>2, <3>1, <3>2
  <2> QED
    BY <1>6, <2>1, <2>2
<1> QED
  BY <1>4, <1>9, <1>10, <1>11 DEF MapsTo, list2, qs

LEMMA PushedCounts ==
  ASSUME NEW U, NEW h \in Seq(U), NEW x \in U, NEW n, NEW ks, NEW list,
         InOrderOf(h, ks, n), CountsOf(list, h, ks, n),
         NEW gone, NEW e, NEW m, NEW kept \in Seq([node : Nat, cnt : Nat]),
         KeptAs(kept, list, n, gone, e, m),
         NEW node \in Nat, NEW cnt \in Nat,
         \A p \in (1..n) \ gone : ks[p] # x,
         CountGiven(h, x, cnt)
  PROVE  CountsOf(Put(node, cnt, kept), Append(h, x), Pushed(ks, e, m, x), m + 1)
<1> DEFINE list2 == Put(node, cnt, kept)
           qs == Pushed(ks, e, m, x)
           g == Append(h, x)
<1>0. PlacesLeft(e, n, gone, m) /\ kept = [i \in 1..m |-> list[e[i]]]
  BY DEF KeptAs
<1>1. m \in Nat
  BY <1>0 DEF PlacesLeft
<1>2. Len(kept) = m /\ DOMAIN kept = 1..m
  <2>1. DOMAIN kept = 1..m
    BY <1>0
  <2> QED
    BY <1>1, <2>1, LenProperties
<1>3. /\ DOMAIN qs = 1..m + 1 /\ qs[1] = x
      /\ \A i \in 2..m + 1 : qs[i] = ks[e[i - 1]]
  BY <1>1, PushedIs
<1>4. /\ list2[1] = [node |-> node, cnt |-> cnt]
      /\ \A i \in 2..m + 1 : list2[i] = kept[i - 1]
  <2>1. PutGives(list2, node, cnt, kept, m)
    BY <1>1, <1>2, PutIs
  <2> HIDE DEF list2
  <2> QED
    BY <2>1 DEF PutGives
<1>5. \A i \in 1..m : e[i] \in (1..n) \ gone /\ kept[i] = list[e[i]]
  BY <1>0 DEF PlacesLeft
<1>6. \A k : k # x => Times(g, k) = Times(h, k)
  <2> TAKE k
  <2> HAVE k # x
  <2>1. Times(h, k) \in Nat /\ Times(g, k) = Times(h, k) + (IF k = x THEN 1 ELSE 0)
    BY TimesIs
  <2> QED
    BY <2>1
<1>7. Cardinality(Range(g)) <= MaxKeyCnt => Cardinality(Range(h)) <= MaxKeyCnt
  <2>1. g \in Seq(U) /\ Range(h) \subseteq Range(g)
    BY AppendProperties, LastCounted
  <2>2. IsFiniteSet(Range(g)) /\ Cardinality(Range(g)) \in Nat /\ Cardinality(Range(h)) \in Nat
    BY <2>1, RangeFinite
  <2>3. Cardinality(Range(h)) <= Cardinality(Range(g))
    BY <2>1, <2>2, FS_Subset
  <2> QED
    BY <2>2, <2>3, TopKeysAssumption
<1>8. list2[1].cnt = cnt
  BY <1>4
<1>9. /\ cnt <= Times(g, x)
      /\ Cardinality(Range(g)) <= MaxKeyCnt => cnt = Times(g, x)
  BY DEF CountGiven
<1> HIDE DEF list2, qs, g
<1>10. \A i \in 1..m + 1 : i = 1 \/ (i \in 2..m + 1 /\ i - 1 \in 1..m)
  BY <1>1
<1> SUFFICES ASSUME NEW i \in 1..m + 1
             PROVE  /\ list2[i].cnt \in Nat /\ list2[i].cnt <= Times(g, qs[i])
                    /\ Cardinality(Range(g)) <= MaxKeyCnt => list2[i].cnt = Times(g, qs[i])
  BY DEF CountsOf, list2, qs, g
<1>11. CASE i = 1
  BY <1>3, <1>8, <1>9, <1>11
<1>12. CASE i \in 2..m + 1 /\ i - 1 \in 1..m
  <2> DEFINE p == e[i - 1]
  <2>1. p \in (1..n) \ gone /\ list2[i] = list[p] /\ qs[i] = ks[p]
    BY <1>3, <1>4, <1>5, <1>12
  <2>2. ks[p] # x
    BY <2>1
  <2>3. Times(g, qs[i]) = Times(h, ks[p])
    BY <1>6, <2>1, <2>2
  <2> HIDE DEF p
  <2>4. /\ list[p].cnt \in Nat /\ list[p].cnt <= Times(h, ks[p])
        /\ Cardinality(Range(h)) <= MaxKeyCnt => list[p].cnt = Times(h, ks[p])
    BY <2>1 DEF CountsOf
  <2> QED
    BY <1>7, <2>1, <2>3, <2>4
<1> QED
  BY <1>10, <1>11, <1>12

LEMMA KeptTyped ==
  ASSUME NEW A, NEW list \in Seq(A), NEW gone, NEW e, NEW m, NEW kept,
         KeptAs(kept, list, Len(list), gone, e, m)
  PROVE  kept \in Seq(A) /\ Len(kept) = m /\ DOMAIN kept = 1..m
<1>1. m \in Nat /\ \A i \in 1..m : e[i] \in 1..Len(list)
  BY DEF KeptAs, PlacesLeft
<1>2. \A i \in 1..m : list[e[i]] \in A
  BY <1>1, ElementOfSeq
<1>3. kept \in [1..m -> A]
  BY <1>2 DEF KeptAs
<1>4. kept \in Seq(A)
  BY <1>1, <1>3, SeqDef
<1>5. DOMAIN kept = 1..m
  BY <1>3
<1> QED
  BY <1>1, <1>4, <1>5, LenProperties

LEMMA KeysDiffer ==
  ASSUME NEW U, NEW h \in Seq(U), NEW ks, NEW n, InOrderOf(h, ks, n),
         NEW i \in 1..n, NEW j \in 1..n, ks[i] = ks[j]
  PROVE  i = j
<1>1. LastAt(h, ks[i]) \in 1..Len(h) /\ Len(h) \in Nat /\ n \in Nat
  BY LastAtIs, HistoryIs DEF IsLast, InOrderOf
<1>2. i < j => LastAt(h, ks[i]) > LastAt(h, ks[j])
  BY DEF InOrderOf
<1>3. j < i => LastAt(h, ks[j]) > LastAt(h, ks[i])
  BY DEF InOrderOf
<1> QED
  BY <1>1, <1>2, <1>3

\* Some keys of the list, one for each place.
AsMany(ks, p) == LET S == {ks[i] : i \in 1..p} IN IsFiniteSet(S) /\ Cardinality(S) = p

LEMMA KeysOf ==
  ASSUME NEW U, NEW h \in Seq(U), NEW ks, NEW n, InOrderOf(h, ks, n), NEW p \in Nat, p <= n
  PROVE  AsMany(ks, p)
<1> DEFINE S == {ks[i] : i \in 1..p}
           f == [i \in 1..p |-> ks[i]]
<1>1. \A i \in 1..p : i \in 1..n
  BY DEF InOrderOf
<1>2. \A i, j \in 1..p : ks[i] = ks[j] => i = j
  BY <1>1, KeysDiffer
<1>3. f \in Injection(1..p, S) /\ f \in Surjection(1..p, S)
  BY <1>2 DEF Injection, Surjection, IsInjective
<1>4. f \in Bijection(1..p, S)
  BY <1>3 DEF Bijection
<1> HIDE DEF f, S
<1>5. ExistsBijection(1..p, S)
  BY <1>4 DEF ExistsBijection
<1>6. Cardinality(S) = p
  BY <1>5, FS_CountingElements
<1>7. IsFiniteSet(S)
  BY <1>5, FS_NatBijection
<1> QED
  BY <1>6, <1>7 DEF AsMany, S

\* The keys that are spared: the last ones, and all of them while there are no more
\* than the list can hold.
Spared(map, h) ==
  /\ \A k \in Range(h) : Cardinality(Since(h, k)) <= MaxKeyCnt - Slack => k \in DOMAIN map
  /\ Cardinality(Range(h)) <= MaxKeyCnt => Range(h) \subseteq DOMAIN map

TopInv ==
  /\ allKeys \in Seq(TopNames) /\ counted \in Seq(TopNames)
  /\ keyCntList \in Seq([node : Nat, cnt : Nat]) /\ Len(keyCntList) <= MaxKeyCnt
  /\ Spared(keyCntMap, counted)
  /\ \E ks : Fits(keyCntList, keyCntMap, counted, ks, Len(keyCntList))

LEMMA SinceGrows ==
  ASSUME NEW U, NEW h \in Seq(U), NEW x \in U, NEW k \in Range(h), k # x
  PROVE  /\ Cardinality(Since(Append(h, x), k)) \in Nat
         /\ Cardinality(Since(h, k)) \in Nat
         /\ Cardinality(Since(h, k)) <= Cardinality(Since(Append(h, x), k))
<1>1. Append(h, x) \in Seq(U) /\ k \in Range(Append(h, x))
  BY AppendProperties, LastCounted
<1>2. Since(h, k) \subseteq Since(Append(h, x), k)
  BY OthersCounted
<1>3. /\ IsFiniteSet(Since(Append(h, x), k)) /\ Cardinality(Since(Append(h, x), k)) \in Nat
      /\ Cardinality(Since(h, k)) \in Nat
  BY <1>1, SinceFinite
<1> QED
  BY <1>2, <1>3, FS_Subset

\* A key behind as many others as are spared, and one more that is counted now, is not
\* spared any longer.
LEMMA NotSpared ==
  ASSUME NEW U, NEW h \in Seq(U), NEW ks, NEW n, InOrderOf(h, ks, n), NEW x \in U,
         \A i \in 1..n : ks[i] # x, NEW p \in 1..n
  PROVE  Cardinality(Since(Append(h, x), ks[p])) >= p
<1> DEFINE S == {ks[i] : i \in 1..p - 1}
           k == ks[p]
           Z == Since(Append(h, x), k)
<1>1. n \in Nat /\ p - 1 \in Nat /\ p - 1 <= n /\ \A i \in 1..p - 1 : i \in 1..n /\ i < p
  BY DEF InOrderOf
<1>2. IsFiniteSet(S) /\ Cardinality(S) = p - 1
  <2>1. AsMany(ks, p - 1)
    BY <1>1, KeysOf
  <2> QED
    BY <2>1 DEF AsMany
<1>3. k \in Range(h) /\ k # x /\ \A i \in 1..p - 1 : ks[i] \in Range(h)
  BY <1>1 DEF InOrderOf
<1>4. \A i \in 1..p - 1 : ks[i] \in Since(h, k)
  <2> TAKE i \in 1..p - 1
  <2>1. LastAt(h, ks[i]) > LastAt(h, k)
    BY <1>1 DEF InOrderOf
  <2> QED
    BY <1>3, <2>1, LaterIsSince
<1>5. Z = Since(h, k) \cup {x}
  BY <1>3, OthersCounted
<1>6. x \notin S
  BY <1>1
<1>7. S \cup {x} \subseteq Z
  BY <1>4, <1>5
<1>8. Append(h, x) \in Seq(U) /\ k \in Range(Append(h, x))
  BY <1>3, AppendProperties, LastCounted
<1>9. IsFiniteSet(Z) /\ Cardinality(Z) \in Nat
  BY <1>8, SinceFinite
<1> HIDE DEF S, Z
<1>10. Cardinality(S \cup {x}) = p - 1 + 1
  BY <1>2, <1>6, FS_AddElement
<1>11. Cardinality(S \cup {x}) <= Cardinality(Z)
  BY <1>7, <1>9, FS_Subset
<1> QED
  BY <1>1, <1>9, <1>10, <1>11 DEF Z, k
-----------------------------------------------------------------------------
(* A new key *)

\* What delListMap leaves.
Leaving(gone, e, m, ks, n) ==
  /\ gone \subseteq 1..n /\ m < MaxKeyCnt
  /\ KeptAs(DelListMap.list, keyCntList, n, gone, e, m)
  /\ DOMAIN DelListMap.map = {ks[p] : p \in (1..n) \ gone}
  /\ \A p \in (1..n) \ gone : DelListMap.map[ks[p]] = keyCntList[p].node
  /\ \A p \in gone : p > MaxKeyCnt - Slack
  /\ gone # {} => n = MaxKeyCnt

LEMMA NothingDeleted ==
  ASSUME TopInv, NEW ks, Fits(keyCntList, keyCntMap, counted, ks, Len(keyCntList)),
         Len(keyCntList) < MaxKeyCnt
  PROVE  \E gone, e, m : Leaving(gone, e, m, ks, Len(keyCntList))
<1> DEFINE n == Len(keyCntList)
           e == [i \in 1..n |-> i]
<1>1. n \in Nat /\ DOMAIN keyCntList = 1..n /\ n < MaxKeyCnt
      /\ keyCntList \in [1..n -> [node : Nat, cnt : Nat]]
  BY LenProperties DEF TopInv
<1>2. DelListMap.list = keyCntList /\ DelListMap.map = keyCntMap
  BY DEF DelListMap
<1>3. n - Cardinality({}) = n /\ (1..n) \ {} = 1..n
  BY <1>1, FS_EmptySet
<1>4. PlacesLeft(e, n, {}, n)
  <2>1. e \in [1..n -> 1..n] /\ (\A i, j \in 1..n : i < j => e[i] < e[j])
        /\ \A p \in 1..n : \E i \in 1..n : e[i] = p
    OBVIOUS
  <2> HIDE DEF e, n
  <2> QED
    BY <1>1, <1>3, <2>1 DEF PlacesLeft
<1>5. keyCntList = [i \in 1..n |-> keyCntList[e[i]]]
  <2>1. \A i \in 1..n : e[i] = i
    OBVIOUS
  <2> HIDE DEF e, n
  <2> QED
    BY <1>1, <2>1
<1>6. DOMAIN keyCntMap = {ks[p] : p \in 1..n} /\ \A p \in 1..n : keyCntMap[ks[p]] = keyCntList[p].node
  BY DEF Fits, MapsTo
<1> HIDE DEF e, n
<1>7. Leaving({}, e, n, ks, n)
  BY <1>1, <1>2, <1>3, <1>4, <1>5, <1>6 DEF Leaving, KeptAs
<1> QED
  BY <1>7 DEF n

LEMMA SomeDeleted ==
  ASSUME TopInv, NEW ks, Fits(keyCntList, keyCntMap, counted, ks, Len(keyCntList)),
         ~(Len(keyCntList) < MaxKeyCnt)
  PROVE  \E gone, e, m : Leaving(gone, e, m, ks, Len(keyCntList))
<1> DEFINE n == Len(keyCntList)
           gone == Oldest(keyCntList)
           out == {keyCntList[i].node : i \in gone}
<1>1. n \in Nat /\ DOMAIN keyCntList = 1..n /\ n = MaxKeyCnt
  BY LenProperties, TopKeysAssumption DEF TopInv
<1>2. gone \subseteq 1..n /\ gone # {} /\ \A p \in gone : p > MaxKeyCnt - Slack
  BY <1>1, TopKeysAssumption DEF Oldest, OldOnes
<1>3. PICK e, m : KeptAs(Kept(keyCntList, gone), keyCntList, n, gone, e, m)
  <2> HIDE DEF gone
  <2>1. Len(keyCntList) \in Nat /\ DOMAIN keyCntList = 1..Len(keyCntList) /\ gone \in SUBSET DOMAIN keyCntList
    BY <1>1, <1>2
  <2> QED
    BY <2>1, KeptIs
<1>4. DelListMap.list = Kept(keyCntList, gone) /\ DelListMap.map = WithoutNodes(keyCntMap, out)
  BY DEF DelListMap
<1> HIDE DEF gone
<1>5. m < MaxKeyCnt
  <2>1. IsFiniteSet(1..n)
    BY <1>1, FS_Interval
  <2>2. IsFiniteSet(gone)
    BY <1>2, <2>1, FS_Subset
  <2>3. Cardinality(gone) \in Nat /\ Cardinality(gone) # 0
    BY <1>2, <2>2, FS_CardinalityType, FS_EmptySet
  <2>4. m = n - Cardinality(gone)
    BY <1>3 DEF KeptAs, PlacesLeft
  <2> QED
    BY <1>1, <2>3, <2>4
<1>6. /\ \A i, j \in 1..n : keyCntList[i].node = keyCntList[j].node => i = j
      /\ DOMAIN keyCntMap = {ks[i] : i \in 1..n}
      /\ \A i \in 1..n : keyCntMap[ks[i]] = keyCntList[i].node
  BY DEF Fits, MapsTo
<1> HIDE DEF n
<1>7. \A p \in 1..n : keyCntMap[ks[p]] \in out <=> p \in gone
  BY <1>2, <1>6
<1> HIDE DEF out
<1>8. DOMAIN WithoutNodes(keyCntMap, out) = {k \in DOMAIN keyCntMap : keyCntMap[k] \notin out}
      /\ \A k \in DOMAIN keyCntMap : keyCntMap[k] \notin out => WithoutNodes(keyCntMap, out)[k] = keyCntMap[k]
  BY DEF WithoutNodes
<1>9. {k \in DOMAIN keyCntMap : keyCntMap[k] \notin out} = {ks[p] : p \in (1..n) \ gone}
  BY <1>6, <1>7
<1>10. \A p \in (1..n) \ gone : WithoutNodes(keyCntMap, out)[ks[p]] = keyCntList[p].node
  <2> TAKE p \in (1..n) \ gone
  <2>1. ks[p] \in DOMAIN keyCntMap /\ keyCntMap[ks[p]] \notin out
    BY <1>6, <1>7
  <2> QED
    BY <1>6, <1>8, <2>1
<1>11. Leaving(gone, e, m, ks, n)
  BY <1>1, <1>2, <1>3, <1>4, <1>5, <1>8, <1>9, <1>10 DEF Leaving
<1> QED
  BY <1>11 DEF n

\* What is counted anew is in front, and nothing else has changed its order.
LEMMA NewFits ==
  ASSUME TopInv, NEW x \in TopNames, NewKey(x), counted' = Append(counted, x),
         NEW ks, Fits(keyCntList, keyCntMap, counted, ks, Len(keyCntList)),
         NEW gone, NEW e, NEW m, Leaving(gone, e, m, ks, Len(keyCntList))
  PROVE  /\ keyCntList' \in Seq([node : Nat, cnt : Nat]) /\ Len(keyCntList') = m + 1
         /\ Fits(keyCntList', keyCntMap', counted', Pushed(ks, e, m, x), m + 1)
<1> DEFINE n == Len(keyCntList)
           kept == DelListMap.list
           node == Unused(kept)
<1>1. /\ x \notin DOMAIN keyCntMap
      /\ keyCntList' = Put(node, 1, kept)
      /\ keyCntMap' = [k \in DOMAIN DelListMap.map \cup {x} |-> IF k = x THEN node ELSE DelListMap.map[k]]
  BY DEF NewKey, Put
<1>2. InOrderOf(counted, ks, n) /\ MapsTo(keyCntMap, keyCntList, ks, n) /\ CountsOf(keyCntList, counted, ks, n)
  BY DEF Fits
<1>3. KeptAs(kept, keyCntList, n, gone, e, m)
  BY DEF Leaving
<1>4. keyCntList \in Seq([node : Nat, cnt : Nat]) /\ counted \in Seq(TopNames)
  BY DEF TopInv
<1> HIDE DEF kept
<1>5. kept \in Seq([node : Nat, cnt : Nat]) /\ Len(kept) = m /\ DOMAIN kept = 1..m /\ m \in Nat
  <2>1. m \in Nat
    BY <1>3 DEF KeptAs, PlacesLeft
  <2>2. kept \in Seq([node : Nat, cnt : Nat]) /\ Len(kept) = m /\ DOMAIN kept = 1..m
    <3> DEFINE A == [node : Nat, cnt : Nat]
    <3>1. keyCntList \in Seq(A)
      BY <1>4
    <3> HIDE DEF A
    <3>2. kept \in Seq(A) /\ Len(kept) = m /\ DOMAIN kept = 1..m
      BY <1>3, <3>1, KeptTyped
    <3> QED
      BY <3>2 DEF A
  <2> QED
    BY <2>1, <2>2
<1>6. node \in Nat /\ \A i \in 1..m : kept[i].node # node
  BY <1>5, UnusedIs
<1> HIDE DEF node, n
<1>7. \A p \in 1..n : ks[p] # x
  BY <1>1, <1>2 DEF MapsTo
<1>8. /\ DOMAIN keyCntMap' = {ks[p] : p \in (1..n) \ gone} \cup {x}
      /\ keyCntMap'[x] = node
      /\ \A p \in (1..n) \ gone : keyCntMap'[ks[p]] = keyCntList[p].node
  <2> DEFINE K == DOMAIN DelListMap.map
             f == [k \in K \cup {x} |-> IF k = x THEN node ELSE DelListMap.map[k]]
  <2>1. K = {ks[p] : p \in (1..n) \ gone} /\ \A p \in (1..n) \ gone : DelListMap.map[ks[p]] = keyCntList[p].node
    BY DEF Leaving, n
  <2>2. keyCntMap' = f
    BY <1>1
  <2> HIDE DEF K
  <2>3. DOMAIN f = K \cup {x} /\ f[x] = node
    OBVIOUS
  <2>4. \A p \in (1..n) \ gone : f[ks[p]] = keyCntList[p].node
    <3> TAKE p \in (1..n) \ gone
    <3>1. ks[p] \in K /\ ks[p] # x
      BY <1>7, <2>1
    <3>2. f[ks[p]] = DelListMap.map[ks[p]]
      BY <3>1
    <3> QED
      BY <2>1, <3>2
  <2> QED
    BY <2>1, <2>2, <2>3, <2>4
<1>9. /\ 1 <= Times(Append(counted, x), x)
      /\ Cardinality(Range(Append(counted, x))) <= MaxKeyCnt => 1 = Times(Append(counted, x), x)
  <2> DEFINE g == Append(counted, x)
  <2>1. /\ Times(counted, x) \in Nat /\ Times(g, x) = Times(counted, x) + 1
        /\ x \notin Range(counted) => Times(counted, x) = 0
    BY <1>4, TimesIs
  <2>2. Range(counted) \subseteq Range(g) /\ g \in Seq(TopNames)
    BY <1>4, AppendProperties, LastCounted
  <2>3. /\ IsFiniteSet(Range(g)) /\ Cardinality(Range(g)) \in Nat
        /\ Cardinality(Range(counted)) \in Nat
    BY <1>4, <2>2, RangeFinite
  <2>4. Cardinality(Range(counted)) <= Cardinality(Range(g))
    BY <2>2, <2>3, FS_Subset
  <2>5. Cardinality(Range(g)) <= MaxKeyCnt => x \notin Range(counted)
    <3>1. Cardinality(Range(counted)) <= MaxKeyCnt => Range(counted) \subseteq DOMAIN keyCntMap
      BY DEF TopInv, Spared
    <3> QED
      BY <1>1, <2>3, <2>4, <3>1, TopKeysAssumption
  <2> HIDE DEF g
  <2>6. Times(g, x) \in Nat /\ 1 <= Times(g, x)
    BY <2>1
  <2>7. Cardinality(Range(g)) <= MaxKeyCnt => 1 = Times(g, x)
    BY <2>1, <2>5
  <2> QED
    BY <2>6, <2>7 DEF g
<1>10. 1 \in Nat /\ \A p \in (1..n) \ gone : ks[p] # x
  BY <1>7
<1>11. InOrderOf(Append(counted, x), Pushed(ks, e, m, x), m + 1)
  <2>1. InOrderOf(counted, ks, n) /\ PlacesLeft(e, n, gone, m)
    BY <1>2, <1>3 DEF n, KeptAs
  <2> QED
    BY <1>4, <1>10, <2>1, PushedInOrder
<1>12. MapsTo(keyCntMap', Put(node, 1, kept), Pushed(ks, e, m, x), m + 1)
  <2> DEFINE map2 == keyCntMap'
  <2>1. NodeGiven(map2, keyCntList, ks, (1..n) \ gone, kept, m, x, node)
    BY <1>6, <1>8, <1>10 DEF NodeGiven
  <2> HIDE DEF map2
  <2>2. MapsTo(keyCntMap, keyCntList, ks, n) /\ KeptAs(kept, keyCntList, n, gone, e, m)
    BY <1>2, <1>3 DEF n
  <2>3. MapsTo(map2, Put(node, 1, kept), Pushed(ks, e, m, x), m + 1)
    BY <1>5, <1>6, <1>10, <2>1, <2>2, PushedMaps
  <2> QED
    BY <2>3 DEF map2
<1>13. CountsOf(Put(node, 1, kept), Append(counted, x), Pushed(ks, e, m, x), m + 1)
  <2>1. InOrderOf(counted, ks, n) /\ CountsOf(keyCntList, counted, ks, n)
        /\ KeptAs(kept, keyCntList, n, gone, e, m)
    BY <1>2, <1>3 DEF n
  <2>2. CountGiven(counted, x, 1)
    BY <1>9 DEF CountGiven
  <2> QED
    BY <1>4, <1>5, <1>6, <1>10, <2>1, <2>2, PushedCounts
<1>14. PutGives(Put(node, 1, kept), node, 1, kept, m)
  BY <1>5, <1>6, <1>10, PutIs
<1> QED
  BY <1>1, <1>11, <1>12, <1>13, <1>14 DEF Fits, PutGives

\* A new key drives out only keys that need not be spared.
LEMMA NewSpared ==
  ASSUME TopInv, NEW x \in TopNames, NewKey(x), counted' = Append(counted, x),
         NEW ks, Fits(keyCntList, keyCntMap, counted, ks, Len(keyCntList)),
         NEW gone, NEW e, NEW m, Leaving(gone, e, m, ks, Len(keyCntList))
  PROVE  Spared(keyCntMap', counted')
<1> DEFINE n == Len(keyCntList)
           h == counted
           g == Append(counted, x)
           left == {ks[p] : p \in (1..n) \ gone}
<1>1. x \notin DOMAIN keyCntMap /\ DOMAIN keyCntMap' = left \cup {x}
  BY DEF NewKey, Leaving
<1>2. InOrderOf(h, ks, n) /\ DOMAIN keyCntMap = {ks[i] : i \in 1..n} /\ n \in Nat
  BY DEF Fits, MapsTo, InOrderOf
<1>3. h \in Seq(TopNames) /\ n <= MaxKeyCnt
      /\ (\A k \in Range(h) : Cardinality(Since(h, k)) <= MaxKeyCnt - Slack => k \in DOMAIN keyCntMap)
      /\ (Cardinality(Range(h)) <= MaxKeyCnt => Range(h) \subseteq DOMAIN keyCntMap)
  BY DEF TopInv, Spared
<1>4. gone \subseteq 1..n /\ (\A p \in gone : p > MaxKeyCnt - Slack) /\ (gone # {} => n = MaxKeyCnt)
  BY DEF Leaving
<1>5. \A i \in 1..n : ks[i] # x
  BY <1>1, <1>2
<1>6. g \in Seq(TopNames) /\ Range(g) = Range(h) \cup {x}
  BY <1>3, AppendProperties, LastCounted
<1>7. ASSUME NEW k \in Range(g), Cardinality(Since(g, k)) <= MaxKeyCnt - Slack
      PROVE  k \in left \cup {x}
  <2> SUFFICES ASSUME k # x
               PROVE  k \in left
    OBVIOUS
  <2>1. k \in Range(h)
    BY <1>6
  <2>2. /\ Cardinality(Since(g, k)) \in Nat /\ Cardinality(Since(h, k)) \in Nat
        /\ Cardinality(Since(h, k)) <= Cardinality(Since(g, k))
    BY <1>3, <2>1, SinceGrows
  <2>3. Cardinality(Since(h, k)) <= MaxKeyCnt - Slack
    BY <1>7, <2>2, TopKeysAssumption
  <2>4. PICK p \in 1..n : k = ks[p]
    BY <1>2, <1>3, <2>1, <2>3
  <2>5. Cardinality(Since(g, k)) >= p
    BY <1>2, <1>3, <1>5, <2>4, NotSpared
  <2>6. ~(p > MaxKeyCnt - Slack)
    BY <1>2, <1>7, <2>2, <2>5, TopKeysAssumption
  <2>7. p \notin gone
    BY <1>4, <2>6
  <2> QED
    BY <2>4, <2>7
<1>8. ASSUME Cardinality(Range(g)) <= MaxKeyCnt
      PROVE  Range(g) \subseteq left \cup {x}
  <2>1. /\ IsFiniteSet(Range(g)) /\ Cardinality(Range(g)) \in Nat
        /\ IsFiniteSet(Range(h)) /\ Cardinality(Range(h)) \in Nat
    BY <1>3, <1>6, RangeFinite
  <2>2. Cardinality(Range(h)) <= Cardinality(Range(g))
    BY <1>6, <2>1, FS_Subset
  <2>3. Range(h) \subseteq DOMAIN keyCntMap
    BY <1>3, <1>8, <2>1, <2>2, TopKeysAssumption
  <2>4. x \notin Range(h)
    BY <1>1, <2>3
  <2>5. Cardinality(Range(g)) = Cardinality(Range(h)) + 1
    <3> HIDE DEF g, h
    <3> QED
      BY <1>6, <2>1, <2>4, FS_AddElement
  <2>6. n <= Cardinality(Range(h))
    <3> DEFINE S == {ks[i] : i \in 1..n}
    <3>1. IsFiniteSet(S) /\ Cardinality(S) = n
      <4> HIDE DEF n, h
      <4>1. InOrderOf(h, ks, n) /\ h \in Seq(TopNames) /\ n \in Nat /\ n <= n
        BY <1>2, <1>3
      <4>2. AsMany(ks, n)
        BY <4>1, KeysOf
      <4> QED
        BY <4>2 DEF AsMany
    <3>2. S \subseteq Range(h)
      BY <1>2 DEF InOrderOf
    <3> HIDE DEF S
    <3> QED
      BY <2>1, <3>1, <3>2, FS_Subset
  <2>7. gone = {}
    BY <1>2, <1>4, <1>8, <2>1, <2>5, <2>6, TopKeysAssumption
  <2>8. left = DOMAIN keyCntMap
    BY <1>2, <2>7
  <2> QED
    BY <1>6, <2>3, <2>8
<1> QED
  BY <1>1, <1>7, <1>8 DEF Spared

-----------------------------------------------------------------------------
(* A known key *)

LEMMA KnownPlace ==
  ASSUME TopInv, NEW x \in DOMAIN keyCntMap,
         NEW ks, Fits(keyCntList, keyCntMap, counted, ks, Len(keyCntList))
  PROVE  LET i == NodeOf(keyCntList, x, keyCntMap)
         IN i \in 1..Len(keyCntList) /\ ks[i] = x
<1> DEFINE n == Len(keyCntList)
           i == NodeOf(keyCntList, x, keyCntMap)
<1>1. DOMAIN keyCntList = 1..n
  BY LenProperties DEF TopInv
<1>2. /\ \A j, k \in 1..n : keyCntList[j].node = keyCntList[k].node => j = k
      /\ DOMAIN keyCntMap = {ks[j] : j \in 1..n}
      /\ \A j \in 1..n : keyCntMap[ks[j]] = keyCntList[j].node
  BY DEF Fits, MapsTo
<1>3. PICK p \in 1..n : ks[p] = x
  BY <1>2
<1>4. \E j \in DOMAIN keyCntList : keyCntList[j].node = keyCntMap[x]
  BY <1>1, <1>2, <1>3
<1>5. i \in DOMAIN keyCntList /\ keyCntList[i].node = keyCntMap[x]
  BY <1>4 DEF NodeOf
<1> HIDE DEF i
<1>6. i = p
  BY <1>1, <1>2, <1>3, <1>5
<1> QED
  BY <1>3, <1>6 DEF i

LEMMA KnownFits ==
  ASSUME TopInv, NEW x \in TopNames, KnownKey(x), counted' = Append(counted, x),
         NEW ks, Fits(keyCntList, keyCntMap, counted, ks, Len(keyCntList))
  PROVE  \E e, m :
           /\ keyCntList' \in Seq([node : Nat, cnt : Nat]) /\ Len(keyCntList') = m + 1
           /\ m + 1 = Len(keyCntList) /\ DOMAIN keyCntMap' = DOMAIN keyCntMap
           /\ Fits(keyCntList', keyCntMap', counted', Pushed(ks, e, m, x), m + 1)
<1> DEFINE n == Len(keyCntList)
           i == NodeOf(keyCntList, x, keyCntMap)
           gone == {i}
           kept == Kept(keyCntList, gone)
           node == Unused(kept)
           cnt == keyCntList[i].cnt + 1
<1>1. /\ x \in DOMAIN keyCntMap
      /\ keyCntList' = Put(node, cnt, kept)
      /\ keyCntMap' = [keyCntMap EXCEPT ![x] = node]
  BY DEF KnownKey, Put
<1>2. InOrderOf(counted, ks, n) /\ MapsTo(keyCntMap, keyCntList, ks, n) /\ CountsOf(keyCntList, counted, ks, n)
  BY DEF Fits
<1>3. /\ keyCntList \in Seq([node : Nat, cnt : Nat]) /\ counted \in Seq(TopNames)
      /\ n \in Nat /\ DOMAIN keyCntList = 1..n
  BY LenProperties DEF TopInv
<1>4. i \in 1..n /\ ks[i] = x
  BY <1>1, KnownPlace
<1> HIDE DEF i
<1>5. PICK e, m : KeptAs(kept, keyCntList, n, gone, e, m)
  <2> HIDE DEF gone
  <2>1. Len(keyCntList) \in Nat /\ DOMAIN keyCntList = 1..Len(keyCntList) /\ gone \in SUBSET DOMAIN keyCntList
    BY <1>3, <1>4 DEF gone
  <2> QED
    BY <2>1, KeptIs
<1>6. m \in Nat /\ m + 1 = n
  <2>1. m \in Nat /\ m = n - Cardinality(gone)
    BY <1>5 DEF KeptAs, PlacesLeft
  <2>2. Cardinality(gone) = 1
    BY FS_Singleton
  <2> HIDE DEF n, gone
  <2> QED
    BY <1>3, <2>1, <2>2
<1> HIDE DEF kept
<1>7. kept \in Seq([node : Nat, cnt : Nat]) /\ Len(kept) = m /\ DOMAIN kept = 1..m
  <2> DEFINE A == [node : Nat, cnt : Nat]
  <2>1. keyCntList \in Seq(A)
    BY <1>3
  <2> HIDE DEF A, gone
  <2>2. kept \in Seq(A) /\ Len(kept) = m /\ DOMAIN kept = 1..m
    BY <1>5, <2>1, KeptTyped
  <2> QED
    BY <2>2 DEF A
<1>8. node \in Nat /\ \A j \in 1..m : kept[j].node # node
  BY <1>6, <1>7, UnusedIs
<1> HIDE DEF node, n
<1>9. /\ DOMAIN keyCntMap = {ks[p] : p \in 1..n}
      /\ \A p \in 1..n : keyCntMap[ks[p]] = keyCntList[p].node
  BY <1>2 DEF MapsTo
<1>10. \A p \in (1..n) \ gone : ks[p] # x
  BY <1>2, <1>3, <1>4, KeysDiffer
<1>11. DOMAIN keyCntMap' = DOMAIN keyCntMap
  BY <1>1
<1>12. NodeGiven(keyCntMap', keyCntList, ks, (1..n) \ gone, kept, m, x, node)
  <2>1. DOMAIN keyCntMap' = {ks[p] : p \in (1..n) \ gone} \cup {x}
    <3>1. {ks[p] : p \in 1..n} = {ks[p] : p \in (1..n) \ gone} \cup {x}
      BY <1>4
    <3> QED
      BY <1>9, <1>11, <3>1
  <2>2. keyCntMap'[x] = node
    BY <1>1
  <2>3. \A p \in (1..n) \ gone : keyCntMap'[ks[p]] = keyCntList[p].node
    <3> TAKE p \in (1..n) \ gone
    <3>1. ks[p] \in DOMAIN keyCntMap /\ ks[p] # x
      BY <1>9, <1>10
    <3>2. keyCntMap'[ks[p]] = keyCntMap[ks[p]]
      BY <1>1, <3>1
    <3> QED
      BY <1>9, <3>2
  <2> QED
    BY <1>8, <1>10, <2>1, <2>2, <2>3 DEF NodeGiven
<1>13. cnt \in Nat /\ CountGiven(counted, x, cnt)
  <2> DEFINE g == Append(counted, x)
             c == keyCntList[i].cnt
  <2>1. Times(counted, x) \in Nat /\ Times(g, x) = Times(counted, x) + 1
    BY <1>3, TimesIs
  <2>2. /\ c \in Nat /\ c <= Times(counted, x)
        /\ Cardinality(Range(counted)) <= MaxKeyCnt => c = Times(counted, x)
    BY <1>2, <1>4 DEF CountsOf
  <2>3. Range(counted) \subseteq Range(g) /\ g \in Seq(TopNames)
    BY <1>3, AppendProperties, LastCounted
  <2>4. /\ IsFiniteSet(Range(g)) /\ Cardinality(Range(g)) \in Nat
        /\ Cardinality(Range(counted)) \in Nat
    BY <1>3, <2>3, RangeFinite
  <2>5. Cardinality(Range(counted)) <= Cardinality(Range(g))
    BY <2>3, <2>4, FS_Subset
  <2> HIDE DEF g, c
  <2>6. c + 1 \in Nat /\ c + 1 <= Times(g, x)
    BY <2>1, <2>2
  <2>7. Cardinality(Range(g)) <= MaxKeyCnt => c + 1 = Times(g, x)
    BY <2>1, <2>2, <2>4, <2>5, TopKeysAssumption
  <2> QED
    BY <2>6, <2>7 DEF CountGiven, g, c
<1> HIDE DEF cnt, gone
<1>14. InOrderOf(Append(counted, x), Pushed(ks, e, m, x), m + 1)
  <2>1. PlacesLeft(e, n, gone, m)
    BY <1>5 DEF KeptAs
  <2> QED
    BY <1>2, <1>3, <1>10, <2>1, PushedInOrder
<1>15. MapsTo(keyCntMap', Put(node, cnt, kept), Pushed(ks, e, m, x), m + 1)
  <2> DEFINE map2 == keyCntMap'
  <2>1. NodeGiven(map2, keyCntList, ks, (1..n) \ gone, kept, m, x, node)
    BY <1>12
  <2> HIDE DEF map2
  <2>2. MapsTo(map2, Put(node, cnt, kept), Pushed(ks, e, m, x), m + 1)
    BY <1>2, <1>5, <1>7, <1>8, <1>13, <2>1, PushedMaps
  <2> QED
    BY <2>2 DEF map2
<1>16. CountsOf(Put(node, cnt, kept), Append(counted, x), Pushed(ks, e, m, x), m + 1)
  BY <1>2, <1>3, <1>5, <1>7, <1>8, <1>10, <1>13, PushedCounts
<1>17. PutGives(Put(node, cnt, kept), node, cnt, kept, m)
  BY <1>6, <1>7, <1>8, <1>13, PutIs
<1> QED
  BY <1>1, <1>6, <1>11, <1>14, <1>15, <1>16, <1>17 DEF Fits, PutGives, n

LEMMA KnownSpared ==
  ASSUME TopInv, NEW x \in DOMAIN keyCntMap, x \in TopNames, counted' = Append(counted, x),
         DOMAIN keyCntMap' = DOMAIN keyCntMap
  PROVE  Spared(keyCntMap', counted')
<1> DEFINE h == counted
           g == Append(counted, x)
<1>1. h \in Seq(TopNames) /\ Spared(keyCntMap, h)
  BY DEF TopInv
<1>2. g \in Seq(TopNames) /\ Range(g) = Range(h) \cup {x}
  BY <1>1, AppendProperties, LastCounted
<1>3. ASSUME NEW k \in Range(g), Cardinality(Since(g, k)) <= MaxKeyCnt - Slack
      PROVE  k \in DOMAIN keyCntMap
  <2> SUFFICES ASSUME k # x
               PROVE  k \in DOMAIN keyCntMap
    OBVIOUS
  <2>1. k \in Range(h)
    BY <1>2
  <2>2. /\ Cardinality(Since(g, k)) \in Nat /\ Cardinality(Since(h, k)) \in Nat
        /\ Cardinality(Since(h, k)) <= Cardinality(Since(g, k))
    BY <1>1, <2>1, SinceGrows
  <2>3. Cardinality(Since(h, k)) <= MaxKeyCnt - Slack
    BY <1>3, <2>2, TopKeysAssumption
  <2> QED
    BY <1>1, <2>1, <2>3 DEF Spared
<1>4. ASSUME Cardinality(Range(g)) <= MaxKeyCnt
      PROVE  Range(g) \subseteq DOMAIN keyCntMap
  <2>1. /\ IsFiniteSet(Range(g)) /\ Cardinality(Range(g)) \in Nat /\ Cardinality(Range(h)) \in Nat
    BY <1>1, <1>2, RangeFinite
  <2>2. Cardinality(Range(h)) <= Cardinality(Range(g))
    BY <1>2, <2>1, FS_Subset
  <2>3. Cardinality(Range(h)) <= MaxKeyCnt
    BY <1>4, <2>1, <2>2, TopKeysAssumption
  <2> QED
    BY <1>1, <1>2, <2>3 DEF Spared
<1> QED
  BY <1>3, <1>4 DEF Spared
-----------------------------------------------------------------------------
(* Every step *)

LEMMA TopStart == TopInit => TopInv
<1> SUFFICES ASSUME TopInit
             PROVE  TopInv
  OBVIOUS
<1>1. allKeys = <<>> /\ keyCntList = <<>> /\ keyCntMap = <<>> /\ counted = <<>>
  BY DEF TopInit
<1>2. Range(<<>>) = {}
  BY DEF Range
<1>3. Spared(keyCntMap, counted)
  BY <1>1, <1>2 DEF Spared
<1>4. Fits(keyCntList, keyCntMap, counted, <<>>, 0)
  <2>1. InOrderOf(counted, <<>>, 0)
    BY DEF InOrderOf
  <2>2. MapsTo(keyCntMap, keyCntList, <<>>, 0)
    BY <1>1 DEF MapsTo
  <2>3. CountsOf(keyCntList, counted, <<>>, 0)
    BY DEF CountsOf
  <2> QED
    BY <2>1, <2>2, <2>3 DEF Fits
<1>5. Len(keyCntList) = 0 /\ 0 <= MaxKeyCnt
  BY <1>1, TopKeysAssumption
<1>6. \E ks : Fits(keyCntList, keyCntMap, counted, ks, Len(keyCntList))
  BY <1>4, <1>5
<1>7. /\ allKeys \in Seq(TopNames) /\ counted \in Seq(TopNames)
      /\ keyCntList \in Seq([node : Nat, cnt : Nat])
  BY <1>1
<1> QED
  BY <1>3, <1>5, <1>6, <1>7 DEF TopInv

LEMMA RecorderKeeps ==
  ASSUME TopInv, KeyRecorder
  PROVE  TopInv'
<1> DEFINE x == Head(allKeys)
<1>1. /\ allKeys # <<>> /\ allKeys' = Tail(allKeys) /\ counted' = Append(counted, x)
      /\ NewKey(x) \/ KnownKey(x)
  BY DEF KeyRecorder
<1>2. x \in TopNames /\ allKeys' \in Seq(TopNames)
  BY <1>1, HeadTailProperties DEF TopInv
<1>3. counted' \in Seq(TopNames)
  BY <1>1, <1>2, AppendProperties DEF TopInv
<1>4. PICK ks : Fits(keyCntList, keyCntMap, counted, ks, Len(keyCntList))
  BY DEF TopInv
<1> HIDE DEF x
<1>5. CASE NewKey(x)
  <2>1. \E gone, e, m : Leaving(gone, e, m, ks, Len(keyCntList))
    BY <1>4, NothingDeleted, SomeDeleted
  <2>2. PICK gone, e, m : Leaving(gone, e, m, ks, Len(keyCntList))
    BY <2>1
  <2>3. /\ keyCntList' \in Seq([node : Nat, cnt : Nat]) /\ Len(keyCntList') = m + 1
        /\ Fits(keyCntList', keyCntMap', counted', Pushed(ks, e, m, x), m + 1)
    BY <1>1, <1>2, <1>4, <1>5, <2>2, NewFits
  <2>4. Spared(keyCntMap', counted')
    BY <1>1, <1>2, <1>4, <1>5, <2>2, NewSpared
  <2>5. m + 1 <= MaxKeyCnt
    <3>1. m \in Nat /\ m < MaxKeyCnt
      BY <2>2 DEF Leaving, KeptAs, PlacesLeft
    <3> QED
      BY <3>1, TopKeysAssumption
  <2>6. \E qs : Fits(keyCntList', keyCntMap', counted', qs, Len(keyCntList'))
    BY <2>3
  <2> QED
    BY <1>2, <1>3, <2>3, <2>4, <2>5, <2>6 DEF TopInv
<1>6. CASE KnownKey(x)
  <2>1. PICK e, m :
          /\ keyCntList' \in Seq([node : Nat, cnt : Nat]) /\ Len(keyCntList') = m + 1
          /\ m + 1 = Len(keyCntList) /\ DOMAIN keyCntMap' = DOMAIN keyCntMap
          /\ Fits(keyCntList', keyCntMap', counted', Pushed(ks, e, m, x), m + 1)
    BY <1>1, <1>2, <1>4, <1>6, KnownFits
  <2>2. x \in DOMAIN keyCntMap
    BY <1>6 DEF KnownKey
  <2>3. Spared(keyCntMap', counted')
    BY <1>1, <1>2, <2>1, <2>2, KnownSpared
  <2>4. Len(keyCntList') <= MaxKeyCnt
    BY <2>1 DEF TopInv
  <2>5. \E qs : Fits(keyCntList', keyCntMap', counted', qs, Len(keyCntList'))
    BY <2>1
  <2> QED
    BY <1>2, <1>3, <2>1, <2>3, <2>4, <2>5 DEF TopInv
<1> QED
  BY <1>1, <1>5, <1>6

LEMMA TopKept ==
  ASSUME TopInv, UNCHANGED <<keyCntList, keyCntMap, counted>>, allKeys' \in Seq(TopNames)
  PROVE  TopInv'
<1>1. keyCntList' = keyCntList /\ keyCntMap' = keyCntMap /\ counted' = counted
  OBVIOUS
<1>2. Spared(keyCntMap', counted') <=> Spared(keyCntMap, counted)
  BY <1>1
<1>3. PICK ks : Fits(keyCntList, keyCntMap, counted, ks, Len(keyCntList))
  BY DEF TopInv
<1>4. Fits(keyCntList', keyCntMap', counted', ks, Len(keyCntList'))
  BY <1>1, <1>3
<1>5. \E qs : Fits(keyCntList', keyCntMap', counted', qs, Len(keyCntList'))
  BY <1>4
<1> QED
  BY <1>1, <1>2, <1>5 DEF TopInv

LEMMA KeyListed ==
  ASSUME TopInv, NEW k \in TopNames, KeyToList(k)
  PROVE  TopInv'
<1>1. allKeys' \in Seq(TopNames)
  BY AppendProperties DEF KeyToList, TopInv
<1> QED
  BY <1>1, TopKept DEF KeyToList

LEMMA ThreadKeeps ==
  ASSUME TopInv, TopKeyThread
  PROVE  TopInv'
<1>1. CASE WakeUp
  BY <1>1, TopKept DEF WakeUp, TopInv
<1>2. CASE GoToSleep
  BY <1>2, TopKept DEF GoToSleep, TopInv
<1>3. CASE KeyRecorder
  BY <1>3, RecorderKeeps
<1> QED
  BY <1>1, <1>2, <1>3 DEF TopKeyThread

-----------------------------------------------------------------------------
(* What the invariant says *)

LEMMA ListedIs ==
  ASSUME TopInv, NEW ks, Fits(keyCntList, keyCntMap, counted, ks, Len(keyCntList)),
         NEW i \in DOMAIN keyCntList
  PROVE  Listed[i] = ks[i]
<1> DEFINE n == Len(keyCntList)
<1>1. n \in Nat /\ DOMAIN keyCntList = 1..n
  BY LenProperties DEF TopInv
<1>2. /\ \A j, k \in 1..n : keyCntList[j].node = keyCntList[k].node => j = k
      /\ DOMAIN keyCntMap = {ks[j] : j \in 1..n}
      /\ \A j \in 1..n : keyCntMap[ks[j]] = keyCntList[j].node
  BY DEF Fits, MapsTo
<1>3. ks[i] \in DOMAIN keyCntMap /\ keyCntMap[ks[i]] = keyCntList[i].node
  BY <1>1, <1>2
<1>4. \A k \in DOMAIN keyCntMap : keyCntMap[k] = keyCntList[i].node => k = ks[i]
  <2> TAKE k \in DOMAIN keyCntMap
  <2> HAVE keyCntMap[k] = keyCntList[i].node
  <2>1. PICK j \in 1..n : k = ks[j]
    BY <1>2
  <2>2. j = i
    BY <1>1, <1>2, <2>1
  <2> QED
    BY <2>1, <2>2
<1>5. (CHOOSE k \in DOMAIN keyCntMap : keyCntMap[k] = keyCntList[i].node) = ks[i]
  BY <1>3, <1>4
<1> QED
  BY <1>5 DEF Listed

LEMMA TopHolds == TopInv => TopKeysKept
<1> SUFFICES ASSUME TopInv
             PROVE  TopKeysKept
  OBVIOUS
<1> DEFINE n == Len(keyCntList)
<1>1. n \in Nat /\ DOMAIN keyCntList = 1..n /\ n <= MaxKeyCnt /\ counted \in Seq(TopNames)
  BY LenProperties DEF TopInv
<1>2. PICK ks : Fits(keyCntList, keyCntMap, counted, ks, n)
  BY DEF TopInv
<1>3. /\ \A j, k \in 1..n : keyCntList[j].node = keyCntList[k].node => j = k
      /\ DOMAIN keyCntMap = {ks[j] : j \in 1..n}
      /\ \A j \in 1..n : keyCntMap[ks[j]] = keyCntList[j].node
  BY <1>2 DEF Fits, MapsTo
<1>4. InOrderOf(counted, ks, n) /\ CountsOf(keyCntList, counted, ks, n)
  BY <1>2 DEF Fits
<1>5. \A i \in 1..n : Listed[i] = ks[i]
  BY <1>1, <1>2, ListedIs
<1>6. Nodes(keyCntList) = {keyCntList[i].node : i \in 1..n}
  BY <1>1 DEF Nodes, Range
<1>7. Cardinality(Nodes(keyCntList)) = n
  <2> DEFINE f == [i \in 1..n |-> keyCntList[i].node]
             S == Nodes(keyCntList)
  <2>1. f \in Injection(1..n, S) /\ f \in Surjection(1..n, S)
    BY <1>3, <1>6 DEF Injection, Surjection, IsInjective
  <2>2. f \in Bijection(1..n, S)
    BY <2>1 DEF Bijection
  <2> HIDE DEF f, S, n
  <2>3. ExistsBijection(1..n, S)
    BY <2>2 DEF ExistsBijection
  <2>4. Cardinality(S) = n
    BY <1>1, <2>3, FS_CountingElements
  <2> QED
    BY <2>4 DEF S
<1> HIDE DEF n
<1>8. {keyCntMap[k] : k \in DOMAIN keyCntMap} = Nodes(keyCntList)
  BY <1>3, <1>6
<1>9. Cardinality(DOMAIN keyCntMap) = n
  <2> DEFINE S == {ks[i] : i \in 1..n}
  <2>1. counted \in Seq(TopNames) /\ InOrderOf(counted, ks, n) /\ n \in Nat /\ n <= n
    BY <1>1, <1>4
  <2>2. Cardinality(S) = n
    <3>1. AsMany(ks, n)
      BY <2>1, KeysOf
    <3> QED
      BY <3>1 DEF AsMany
  <2> QED
    BY <1>3, <2>2
<1>10. DOMAIN keyCntMap \subseteq Range(counted)
  BY <1>3, <1>4 DEF InOrderOf
<1>11. \A i, j \in DOMAIN keyCntList :
         i < j => LastAt(counted, Listed[i]) > LastAt(counted, Listed[j])
  BY <1>1, <1>4, <1>5 DEF InOrderOf
<1>12. \A k \in Range(counted) :
         Cardinality(Since(counted, k)) <= MaxKeyCnt - Slack => k \in DOMAIN keyCntMap
  BY DEF TopInv, Spared
<1>13. \A i \in DOMAIN keyCntList :
         /\ keyCntList[i].cnt <= Times(counted, Listed[i])
         /\ Cardinality(Range(counted)) <= MaxKeyCnt =>
              keyCntList[i].cnt = Times(counted, Listed[i])
  BY <1>1, <1>4, <1>5 DEF CountsOf
<1> QED
  BY <1>1, <1>7, <1>8, <1>9, <1>10, <1>11, <1>12, <1>13 DEF TopKeysKept, n

-----------------------------------------------------------------------------
(* The connections leave the top keys alone, except for the queue *)

LEMMA ServesTop ==
  ASSUME NEW l, NEW c,
         \/ Receive(l, c) \/ ReceiveEnd(l, c) \/ Handle(l, c) \/ Send(l, c)
         \/ SendAgain(l, c) \/ SendFails(l, c) \/ Writable(l, c)
         \/ RecordKey(l, c) \/ CountBegin(l, c) \/ CountEnd(l, c)
  PROVE  UNCHANGED topVars
BY DEF Receive, ReceiveEnd, Handle, Send, SendAgain, SendFails, Writable, RecordKey, CountBegin, CountEnd

LEMMA TopSame ==
  ASSUME TopInv, UNCHANGED topVars
  PROVE  TopInv'
<1>1. UNCHANGED <<keyCntList, keyCntMap, counted>> /\ allKeys' \in Seq(TopNames)
  BY DEF topVars, TopInv
<1> QED
  BY <1>1, TopKept

LEMMA TopStep == TopInv /\ [Next]_vars => TopInv'
<1> SUFFICES ASSUME TopInv, [Next]_vars
             PROVE  TopInv'
  OBVIOUS
<1>1. ASSUME UNCHANGED vars
      PROVE  TopInv'
  BY <1>1, TopSame DEF vars
<1>2. ASSUME NEW c \in Clients, Accept(c) \/ Hangup(c)
      PROVE  TopInv'
  <2>1. UNCHANGED topVars
    BY <1>2 DEF Accept, Hangup
  <2> QED
    BY <2>1, TopSame
<1>3. ASSUME NEW c \in Clients, NEW l \in Loops,
             \/ Receive(l, c) \/ ReceiveEnd(l, c) \/ Handle(l, c) \/ Send(l, c)
             \/ SendAgain(l, c) \/ SendFails(l, c) \/ Writable(l, c)
             \/ RecordKey(l, c) \/ CountBegin(l, c) \/ CountEnd(l, c)
      PROVE  TopInv'
  <2>1. UNCHANGED topVars
    BY <1>3, ServesTop
  <2> QED
    BY <2>1, TopSame
<1>4. ASSUME NEW c \in Clients, NEW l \in Loops, PushKey(l, c)
      PROVE  TopInv'
  <2>1. \E k \in TopNames : KeyToList(k)
    BY <1>4 DEF PushKey
  <2> QED
    BY <2>1, KeyListed
<1>5. ASSUME Monitor
      PROVE  TopInv'
  BY <1>5, ThreadKeeps DEF Monitor
<1> QED
  BY <1>1, <1>2, <1>3, <1>4, <1>5 DEF Next, Activity, Serve

\* What the list and the map of the top keys hold of the history (TopInv).
THEOREM TopInvariant == Spec => []TopInv
<1>1. Init => TopInv
  BY TopStart DEF Init
<1>2. TopInv /\ [Next]_vars => TopInv'
  BY TopStep
<1> QED
  BY <1>1, <1>2, PTL DEF Spec

\* Whatever is asked for, list and map of the top keys agree, the last keys are among
\* them, and their counts are right (CTopKeyRecorderThread::keyRecorder, delListMap).
THEOREM TopKeysHold == Spec => []TopKeysKept
<1>1. Spec => []TopInv
  BY TopInvariant
<1>2. TopInv => TopKeysKept
  BY TopHolds
<1> QED
  BY <1>1, <1>2, PTL

=============================================================================
