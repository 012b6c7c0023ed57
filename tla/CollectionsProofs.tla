--------------------------- MODULE CollectionsProofs ---------------------------
(***************************************************************************)
(* Proofs about Collections and SortedSets for any names, fields, threads, *)
(* values and bounds.                                                      *)
(***************************************************************************)
EXTENDS Collections, FiniteSetTheorems, SequenceTheorems, WellFoundedInduction, TLAPS

\* The calls that a program on names of type k may hold.
Proper(k) ==
  {c \in Instruction :
     /\ c.do = "hset" => /\ c.value \in OfKind(k) \ {NoValue}
                         /\ k = "set" => \A f \in c.fields : c.value = Itself(f)
     /\ c.do \in {"hset_member", "fill"} => k = "set"
     /\ c.do = "hget_score" => k = "zset" /\ c.value \in Int
     /\ c.do = "add" => k # "set" /\ c.value \in Int}

\* What is left of an SMOVE: once the member is deleted, its hset comes next.
MovePlan(p) ==
  \E n, d \in Names, f \in Fields :
    LET put == Call("hset_member", d, f, NoValue)
        del == Call("hdel", n, f, NoValue)
    IN p \in {<<put>>, <<del, put>>, <<Call("hget_member", n, f, NoValue), del, put>>}

ProgOK == \A t \in Threads : prog[t] \in Seq(Proper(kind))

MoveOK == \A t \in Threads : cmd[t] # NoCmd /\ cmd[t].op = "smove" => MovePlan(prog[t])

CollectionInv == TypeOK /\ ProgOK /\ MoveOK /\ MembersKept

-----------------------------------------------------------------------------
(* Sorted sets *)

\* ZRANGE is the slice that Redis defines unless an index lies behind the list or
\* before it (transformIndex), whatever the list.
THEOREM RangeLikeRedis ==
  ASSUME NEW S, NEW s \in Seq(S), NEW i \in Int, NEW j \in Int, i < Len(s), j >= -Len(s)
  PROVE  ZRange(s, i, j) = RedisSlice(s, i, j)
<1>1. CASE s = <<>>
  <2>1. Len(s) = 0
    BY <1>1, EmptySeq
  <2>2. RedisSlice(s, i, j) = SubSeq(s, 1, 0)
    BY <2>1 DEF RedisSlice
  <2> QED
    BY <1>1, <2>2, SubSeqEmpty DEF ZRange
<1>2. CASE s # <<>>
  <2>1. Len(s) \in Nat /\ Len(s) > 0
    BY <1>2, EmptySeq
  <2>2. ToIndex(i, Len(s)) = IF i < 0 THEN IF Len(s) + i < 0 THEN 0 ELSE Len(s) + i ELSE i
    BY <2>1 DEF ToIndex, CutToList, FromEnd
  <2>3. ToIndex(j, Len(s)) + 1 =
          LET high == IF j < 0 THEN Len(s) + j ELSE j
          IN IF high > Len(s) - 1 THEN Len(s) ELSE high + 1
    BY <2>1 DEF ToIndex, CutToList, FromEnd
  <2> QED
    BY <1>2, <2>2, <2>3 DEF ZRange, RedisSlice
<1> QED
  BY <1>1, <1>2

-----------------------------------------------------------------------------
(* Programs *)

LEMMA CallTyping ==
  ASSUME NEW k, NEW n \in Names, NEW f \in Fields, NEW v \in Value \cup {NoValue},
         NEW do, Call(do, n, f, v) \in Instruction,
         do = "hset" => v \in OfKind(k) \ {NoValue} /\ (k = "set" => v = Itself(f)),
         do \in {"hset_member", "fill"} => k = "set",
         do = "hget_score" => k = "zset" /\ v \in Int,
         do = "add" => k # "set" /\ v \in Int
  PROVE  Call(do, n, f, v) \in Proper(k)
BY DEF Call, Proper, Value

LEMMA WholeTyping ==
  ASSUME NEW k, NEW n \in Names, NEW fs \in SUBSET Fields,
         NEW do \in {"hclear", "spop", "by_rank", "by_score", "first", "union", "inter",
                     "diff", "fill", "hdel"},
         do = "fill" => k = "set"
  PROVE  /\ Whole(do, n) \in Proper(k)
         /\ [do |-> do, name |-> n, fields |-> fs, value |-> NoValue] \in Proper(k)
BY DEF Whole, Proper, Instruction

LEMMA OneCall ==
  ASSUME NEW S, NEW x \in S
  PROVE  <<x>> \in Seq(S) /\ <<x>> # <<>>
OBVIOUS

LEMMA EachTyping ==
  ASSUME NEW k, NEW n \in Names, NEW fs \in SUBSET Fields,
         NEW do \in {"hdel", "hset_member"}, do = "hset_member" => k = "set"
  PROVE  Each(do, n, fs) \in Seq(Proper(k))
<1>1. [do |-> do, name |-> n, fields |-> fs, value |-> NoValue] \in Proper(k)
  BY DEF Proper, Instruction
<1>2. <<[do |-> do, name |-> n, fields |-> fs, value |-> NoValue]>> \in Seq(Proper(k))
  BY <1>1, OneCall
<1>3. <<>> \in Seq(Proper(k))
  BY EmptySeq
<1> QED
  BY <1>2, <1>3 DEF Each

LEMMA GathersTyping ==
  ASSUME NEW k, NEW ns \in Seq(Names),
         NEW do \in {"hclear", "first", "union", "inter", "diff"}
  PROVE  Gathers(do, ns) \in Seq(Proper(k))
<1>1. \A i \in 1..Len(ns) : Whole(do, ns[i]) \in Proper(k)
  BY ElementOfSeq, WholeTyping
<1>2. Gathers(do, ns) = [i \in 1..Len(ns) |-> Whole(do, ns[i])] /\ Len(ns) \in Nat
  BY DEF Gathers
<1> QED
  BY <1>1, <1>2

\* Records of a type.
LEMMA KindFacts ==
  ASSUME NEW k \in {"hash", "set", "zset"}
  PROVE  /\ OfKind(k) \subseteq Value \cup {NoValue}
         /\ NoValue \in OfKind(k)
         /\ k # "set" => Int \subseteq OfKind(k)
         /\ k = "set" => \A f \in Fields : Itself(f) \in OfKind(k) \ {NoValue}
         /\ \A f \in Fields : Itself(f) # NoValue
BY CollectionAssumption DEF OfKind, Itself, SetAssumption, Value

-----------------------------------------------------------------------------
(* The start of a command *)

LEMMA StartSafe ==
  ASSUME CollectionInv, NEW t \in Threads, NEW c \in Request,
         NEW p \in Seq(Proper(kind)), p # <<>>,
         c.op = "smove" => MovePlan(p),
         Start(t, c, p)
  PROVE  CollectionInv'
<1>1. /\ kind' = kind /\ store' = store /\ got' = got /\ list' = list
      /\ faults' = faults /\ kept' = kept
      /\ prog' = [prog EXCEPT ![t] = p] /\ cmd' = [cmd EXCEPT ![t] = c]
      /\ before' = [before EXCEPT ![t] = store]
      /\ ops' = ops + 1 /\ ops < MaxOps /\ prog[t] = <<>>
      /\ disturbed' \subseteq disturbed \cup Threads
  BY DEF Start, Meets
<1>2. TypeOK /\ ProgOK /\ MoveOK /\ MembersKept
  BY DEF CollectionInv
<1>3. c # NoCmd
  BY CollectionAssumption
<1>4. Proper(kind) \subseteq Instruction
  BY DEF Proper
<1>5. p \in Seq(Instruction)
  BY <1>4, SeqMonotonic
<1>6. TypeOK'
  <2>1. prog' \in [Threads -> Seq(Instruction)]
    BY <1>1, <1>2, <1>5 DEF TypeOK
  <2>2. cmd' \in [Threads -> Request \cup {NoCmd}]
    BY <1>1, <1>2 DEF TypeOK
  <2>3. before' \in [Threads -> [Names -> [Fields -> OfKind(kind)]]]
    BY <1>1, <1>2 DEF TypeOK
  <2>4. ops' \in 0..MaxOps
    BY <1>1, <1>2, CollectionAssumption DEF TypeOK
  <2>5. \A u \in Threads : cmd'[u] = NoCmd <=> prog'[u] = <<>>
    BY <1>1, <1>2, <1>3 DEF TypeOK
  <2> QED
    BY <1>1, <1>2, <2>1, <2>2, <2>3, <2>4, <2>5 DEF TypeOK
<1>7. ProgOK'
  BY <1>1, <1>2 DEF ProgOK, TypeOK
<1>8. MoveOK'
  BY <1>1, <1>2 DEF MoveOK, TypeOK
<1>9. MembersKept'
  <2>1. \A u \in Threads, f \in Fields : Carries(u, f) => Carries(u, f)'
    BY <1>1, <1>2 DEF Carries, TypeOK, Now
  <2>2. kept \subseteq Fields
    BY <1>2 DEF TypeOK
  <2> QED
    BY <1>1, <1>2, <2>1, <2>2 DEF MembersKept
<1> QED
  BY <1>6, <1>7, <1>8, <1>9 DEF CollectionInv

\* A request is made of the parts a client gives.
LEMMA PlainTyping ==
  ASSUME NEW op \in {"hmset", "hsetnx", "hincrby", "hdel", "hclear", "srem", "spop", "smove",
                     "union", "inter", "diff", "zincrby", "by_rank", "by_score", "flushdb"},
         NEW n \in Names
  PROVE  Plain(op, n) \in Request /\ Plain(op, n).op = op
<1>1. <<>> \in Seq(Fields) /\ <<>> \in Seq(Value) /\ <<>> \in Seq(Names)
  BY EmptySeq
<1> QED
  BY <1>1 DEF Plain, Request

LEMMA NoneGiven == <<>> \in Seq(Fields) /\ <<>> \in Seq(Value) /\ <<>> \in Seq(Names)
BY EmptySeq

-----------------------------------------------------------------------------
(* Every command starts a proper program *)

\* What the constants give.
LEMMA Given ==
  /\ \A fs \in FieldLists : fs \in Seq(Fields) /\ fs # <<>>
  /\ \A from \in SourceLists : /\ from \in Seq(Names) /\ from # <<>>
                               /\ from[1] \in Names /\ Tail(from) \in Seq(Names)
  /\ \A k \in Kinds : k \in {"hash", "set", "zset"} /\ Targets[k] \subseteq Names
  /\ \A v \in Values : v \in OfKind("hash") \ {NoValue} /\ v \in Value
  /\ Numbers \subseteq Int /\ Indexes \subseteq Int
<1>1. \A from \in SourceLists : /\ from \in Seq(Names) /\ from # <<>>
                               /\ from[1] \in Names /\ Tail(from) \in Seq(Names)
  <2> SUFFICES ASSUME NEW from \in SourceLists
               PROVE  /\ from \in Seq(Names) /\ from # <<>>
                      /\ from[1] \in Names /\ Tail(from) \in Seq(Names)
    OBVIOUS
  <2>1. from \in Seq(Names) /\ from # <<>>
    BY CollectionAssumption
  <2>2. Len(from) \in Nat \ {0}
    BY <2>1, EmptySeq
  <2>3. from[1] \in Names
    BY <2>1, <2>2, ElementOfSeq
  <2> QED
    BY <2>1, <2>3, HeadTailProperties
<1>2. \A v \in Values : v \in OfKind("hash") \ {NoValue} /\ v \in Value
  BY CollectionAssumption DEF OfKind, Value
<1> QED
  BY <1>1, <1>2, CollectionAssumption

\* A command that writes values to fields.
LEMMA LenOfFun ==
  ASSUME NEW m \in Nat, m # 0, NEW s, DOMAIN s = 1..m
  PROVE  s # <<>>
OBVIOUS

LEMMA HsetsTyping ==
  ASSUME NEW k \in {"hash", "set", "zset"}, NEW n \in Names, NEW fs \in Seq(Fields), NEW vs,
         DOMAIN vs = DOMAIN fs,
         \A i \in DOMAIN fs : /\ vs[i] \in OfKind(k) \ {NoValue}
                              /\ vs[i] \in Value
                              /\ k = "set" => vs[i] = Itself(fs[i])
  PROVE  Hsets(n, fs, vs) \in Seq(Proper(k)) /\ (fs # <<>> => Hsets(n, fs, vs) # <<>>)
<1>1. \A i \in 1..Len(fs) : Call("hset", n, fs[i], vs[i]) \in Proper(k)
  <2> SUFFICES ASSUME NEW i \in 1..Len(fs)
               PROVE  Call("hset", n, fs[i], vs[i]) \in Proper(k)
    OBVIOUS
  <2>1. fs[i] \in Fields /\ i \in DOMAIN fs
    BY ElementOfSeq
  <2>2. Call("hset", n, fs[i], vs[i]) \in Instruction
    BY <2>1 DEF Call, Instruction
  <2> QED
    BY <2>1, <2>2, CallTyping
<1>2. Hsets(n, fs, vs) = [i \in 1..Len(fs) |-> Call("hset", n, fs[i], vs[i])] /\ Len(fs) \in Nat
  BY DEF Hsets
<1>3. Hsets(n, fs, vs) \in Seq(Proper(k))
  BY <1>1, <1>2
<1>4. ASSUME fs # <<>> PROVE Hsets(n, fs, vs) # <<>>
  BY <1>2, <1>4, LenOfFun, EmptySeq
<1> QED
  BY <1>3, <1>4

LEMMA HdelsTyping ==
  ASSUME NEW k, NEW n \in Names, NEW fs \in Seq(Fields)
  PROVE  /\ Hdels(n, fs) \in Seq(Proper(k)) /\ Hrems(n, fs) \in Seq(Proper(k))
         /\ fs # <<>> => Hdels(n, fs) # <<>> /\ Hrems(n, fs) # <<>>
<1>1. \A f \in Fields, do \in {"hdel", "if_there"} : Call(do, n, f, NoValue) \in Proper(k)
  BY DEF Call, Proper, Instruction
<1>2. Len(fs) \in Nat
  OBVIOUS
<1>3. Hdels(n, fs) \in Seq(Proper(k))
  <2>1. \A i \in 1..Len(fs) : Call("hdel", n, fs[i], NoValue) \in Proper(k)
    BY <1>1, ElementOfSeq
  <2> QED
    BY <1>2, <2>1 DEF Hdels
<1>4. Hrems(n, fs) \in Seq(Proper(k))
  <2>1. \A i \in 1..2 * Len(fs) : (i + 1) \div 2 \in 1..Len(fs)
    BY <1>2
  <2>2. \A i \in 1..2 * Len(fs) :
          Call(IF i % 2 = 1 THEN "if_there" ELSE "hdel", n, fs[(i + 1) \div 2], NoValue) \in Proper(k)
    BY <1>1, <2>1, ElementOfSeq
  <2>3. 2 * Len(fs) \in Nat
    BY <1>2
  <2> DEFINE e(i) == Call(IF i % 2 = 1 THEN "if_there" ELSE "hdel", n, fs[(i + 1) \div 2], NoValue)
  <2>4. Hrems(n, fs) = [i \in 1..2 * Len(fs) |-> e(i)]
    BY DEF Hrems
  <2>5. \A i \in 1..2 * Len(fs) : e(i) \in Proper(k)
    BY <2>2
  <2> HIDE DEF e
  <2> QED
    BY <2>3, <2>4, <2>5
<1>5. ASSUME fs # <<>> PROVE Hdels(n, fs) # <<>> /\ Hrems(n, fs) # <<>>
  <2>1. Len(fs) # 0 /\ 2 * Len(fs) \in Nat /\ 2 * Len(fs) # 0
    BY <1>2, <1>5, EmptySeq
  <2>2. DOMAIN Hdels(n, fs) = 1..Len(fs) /\ DOMAIN Hrems(n, fs) = 1..2 * Len(fs)
    BY DEF Hdels, Hrems
  <2> QED
    BY <1>2, <2>1, <2>2, LenOfFun
<1> QED
  BY <1>3, <1>4, <1>5

\* The commands that several types share: HDEL and ZREM, and the CLEARs.
LEMMA DeletesStart ==
  ASSUME CollectionInv, NEW t \in Threads, HDel(t)
  PROVE  CollectionInv'
<1>1. Targets[kind] \subseteq Names
  BY Given DEF CollectionInv, TypeOK
<1>2. PICK n \in Targets[kind], fs \in FieldLists :
        Start(t, [Plain("hdel", n) EXCEPT !.fields = fs], Hdels(n, fs))
  BY DEF HDel
<1>3. n \in Names /\ fs \in Seq(Fields) /\ fs # <<>>
  BY <1>1, Given
<1>4. Hdels(n, fs) \in Seq(Proper(kind)) /\ Hdels(n, fs) # <<>>
  BY <1>3, HdelsTyping
<1>5. PICK c : c = [Plain("hdel", n) EXCEPT !.fields = fs]
  OBVIOUS
<1>6. c = [op |-> "hdel", name |-> n, fields |-> fs, values |-> <<>>,
            from |-> <<>>, low |-> 0, high |-> 0]
  BY <1>5 DEF Plain
<1>7. c \in Request
  BY <1>3, <1>6, NoneGiven DEF Request
<1>8. c.op = "hdel"
  BY <1>6
<1>9. Start(t, c, Hdels(n, fs))
  BY <1>2, <1>5
<1> QED
  BY <1>4, <1>7, <1>8, <1>9, StartSafe

LEMMA ClearStarts ==
  ASSUME CollectionInv, NEW t \in Threads, HClear(t)
  PROVE  CollectionInv'
<1>1. Targets[kind] \subseteq Names
  BY Given DEF CollectionInv, TypeOK
<1>2. PICK n \in Targets[kind] : Start(t, Plain("hclear", n), <<Whole("hclear", n)>>)
  BY DEF HClear
<1>3. <<Whole("hclear", n)>> \in Seq(Proper(kind)) /\ <<Whole("hclear", n)>> # <<>>
  BY <1>1, WholeTyping, OneCall
<1>4. Plain("hclear", n) \in Request /\ Plain("hclear", n).op = "hclear"
  BY <1>1, PlainTyping
<1> QED
  BY <1>2, <1>3, <1>4, StartSafe

LEMMA SequenceOf ==
  ASSUME NEW S, NEW x \in S, NEW p \in Seq(S)
  PROVE  <<x>> \o p \in Seq(S) /\ <<x>> \o p # <<>> /\ p \o <<x>> \in Seq(S) /\ p \o <<x>> # <<>>
<1>1. <<x>> \in Seq(S) /\ Len(<<x>>) = 1
  OBVIOUS
<1> QED
  BY <1>1, EmptySeq

LEMMA HashStarts ==
  ASSUME CollectionInv, NEW t \in Threads, HashCommand(t)
  PROVE  CollectionInv'
<1>1. kind = "hash" /\ kind \in Kinds /\ Targets[kind] \subseteq Names
  BY Given DEF CollectionInv, TypeOK, HashCommand
<1>2. CASE HMSet(t)
  <2>1. PICK n \in Targets[kind], fs \in FieldLists : \E vs \in [DOMAIN fs -> Values] :
          Start(t, [Plain("hmset", n) EXCEPT !.fields = fs, !.values = vs], Hsets(n, fs, vs))
    BY <1>2 DEF HMSet
  <2>2. PICK vs \in [DOMAIN fs -> Values] :
          Start(t, [Plain("hmset", n) EXCEPT !.fields = fs, !.values = vs], Hsets(n, fs, vs))
    BY <2>1
  <2>3. n \in Names /\ fs \in Seq(Fields) /\ fs # <<>> /\ DOMAIN fs = 1..Len(fs) /\ Len(fs) \in Nat
    BY <1>1, Given
  <2>4. \A i \in DOMAIN fs : vs[i] \in OfKind(kind) \ {NoValue} /\ vs[i] \in Value
    BY <1>1, Given
  <2>5. vs \in Seq(Value)
    BY <2>3, <2>4
  <2>6. Hsets(n, fs, vs) \in Seq(Proper(kind)) /\ Hsets(n, fs, vs) # <<>>
    BY <1>1, <2>3, <2>4, HsetsTyping
  <2>7. PICK c : c = [Plain("hmset", n) EXCEPT !.fields = fs, !.values = vs]
    OBVIOUS
  <2>8. c = [op |-> "hmset", name |-> n, fields |-> fs, values |-> vs,
              from |-> <<>>, low |-> 0, high |-> 0]
    BY <2>7 DEF Plain
  <2>9. c \in Request
    BY <2>3, <2>5, <2>8, NoneGiven DEF Request
  <2>10. c.op = "hmset"
    BY <2>8
  <2>11. Start(t, c, Hsets(n, fs, vs))
    BY <2>2, <2>7
  <2> QED
    BY <2>6, <2>9, <2>10, <2>11, StartSafe
<1>3. CASE HSetNX(t)
  <2>1. PICK n \in Targets[kind], f \in Fields, v \in Values :
          Start(t, [Plain("hsetnx", n) EXCEPT !.fields = <<f>>, !.values = <<v>>],
                <<Call("if_missing", n, f, NoValue), Call("hset", n, f, v)>>)
    BY <1>3 DEF HSetNX
  <2>2. n \in Names /\ v \in OfKind("hash") \ {NoValue} /\ v \in Value
    BY <1>1, Given
  <2>3. /\ Call("if_missing", n, f, NoValue) \in Proper(kind)
        /\ Call("hset", n, f, v) \in Proper(kind)
    BY <1>1, <2>2 DEF Call, Proper, Instruction
  <2>4. /\ <<Call("if_missing", n, f, NoValue), Call("hset", n, f, v)>> \in Seq(Proper(kind))
        /\ <<Call("if_missing", n, f, NoValue), Call("hset", n, f, v)>> # <<>>
    BY <2>3
  <2>5. <<f>> \in Seq(Fields) /\ <<v>> \in Seq(Value)
    BY <2>2, OneCall
  <2>6. PICK c : c = [Plain("hsetnx", n) EXCEPT !.fields = <<f>>, !.values = <<v>>]
    OBVIOUS
  <2>7. c = [op |-> "hsetnx", name |-> n, fields |-> <<f>>, values |-> <<v>>,
              from |-> <<>>, low |-> 0, high |-> 0]
    BY <2>6 DEF Plain
  <2>8. c \in Request
    BY <2>2, <2>5, <2>7, NoneGiven DEF Request
  <2>9. c.op = "hsetnx"
    BY <2>7
  <2>10. Start(t, c, <<Call("if_missing", n, f, NoValue), Call("hset", n, f, v)>>)
    BY <2>1, <2>6
  <2> QED
    BY <2>4, <2>8, <2>9, <2>10, StartSafe
<1>4. CASE HIncrBy(t)
  <2>1. PICK n \in Targets[kind], f \in Fields, by \in Numbers :
          Start(t, [Plain("hincrby", n) EXCEPT !.fields = <<f>>, !.values = <<by>>],
                <<Call("if_there", n, f, NoValue), Call("hget_number", n, f, NoValue),
                  Call("add", n, f, by)>>)
    BY <1>4 DEF HIncrBy
  <2>2. n \in Names /\ by \in Int /\ by \in Value
    BY <1>1, Given DEF Value
  <2>3. /\ Call("if_there", n, f, NoValue) \in Proper(kind)
        /\ Call("hget_number", n, f, NoValue) \in Proper(kind)
        /\ Call("add", n, f, by) \in Proper(kind)
    BY <1>1, <2>2 DEF Call, Proper, Instruction
  <2> DEFINE p == <<Call("if_there", n, f, NoValue), Call("hget_number", n, f, NoValue),
                    Call("add", n, f, by)>>
  <2>4. p \in Seq(Proper(kind)) /\ p # <<>>
    BY <2>3
  <2>5. <<f>> \in Seq(Fields) /\ <<by>> \in Seq(Value)
    BY <2>2, OneCall
  <2>6. PICK c : c = [Plain("hincrby", n) EXCEPT !.fields = <<f>>, !.values = <<by>>]
    OBVIOUS
  <2>7. c = [op |-> "hincrby", name |-> n, fields |-> <<f>>, values |-> <<by>>,
              from |-> <<>>, low |-> 0, high |-> 0]
    BY <2>6 DEF Plain
  <2>8. c \in Request
    BY <2>2, <2>5, <2>7, NoneGiven DEF Request
  <2>9. c.op = "hincrby"
    BY <2>7
  <2>10. Start(t, c, <<Call("if_there", n, f, NoValue), Call("hget_number", n, f, NoValue), Call("add", n, f, by)>>)
    BY <2>1, <2>6
  <2> QED
    BY <2>4, <2>8, <2>9, <2>10, StartSafe
<1> QED
  BY <1>2, <1>3, <1>4, DeletesStart, ClearStarts DEF HashCommand

\* What all SxxxSTORE read and write besides their sources.
LEMMA StoreParts ==
  ASSUME NEW n \in Names, NEW k, k = "set"
  PROVE  /\ Whole("hclear", n) \in Proper(k) /\ Whole("fill", n) \in Proper(k)
         /\ Whole("first", n) \in Proper(k)
BY WholeTyping

LEMMA JoinTyping ==
  ASSUME NEW S, NEW p \in Seq(S), NEW q \in Seq(S), q # <<>>
  PROVE  p \o q \in Seq(S) /\ p \o q # <<>>
<1>1. Len(q) # 0 /\ Len(q) \in Nat /\ Len(p) \in Nat
  BY EmptySeq
<1>2. p \o q \in Seq(S) /\ Len(p \o q) = Len(p) + Len(q)
  OBVIOUS
<1> QED
  BY <1>1, <1>2, EmptySeq

LEMMA SetStarts ==
  ASSUME CollectionInv, NEW t \in Threads, SetCommand(t)
  PROVE  CollectionInv'
<1>1. kind = "set" /\ kind \in Kinds /\ kind \in {"hash", "set", "zset"} /\ Targets[kind] \subseteq Names
  BY Given DEF CollectionInv, TypeOK, SetCommand
<1>2. CASE SAdd(t)
  <2>1. PICK n \in Targets[kind], fs \in FieldLists :
          Start(t, [Plain("hmset", n) EXCEPT !.fields = fs, !.values = Selves(fs)],
                Hsets(n, fs, Selves(fs)))
    BY <1>2 DEF SAdd
  <2>2. n \in Names /\ fs \in Seq(Fields) /\ fs # <<>> /\ DOMAIN fs = 1..Len(fs) /\ Len(fs) \in Nat
    BY <1>1, Given
  <2>3. DOMAIN Selves(fs) = DOMAIN fs /\ \A i \in DOMAIN fs : fs[i] \in Fields /\ Selves(fs)[i] = Itself(fs[i])
    BY <2>2, ElementOfSeq DEF Selves
  <2>4. \A f \in Fields : Itself(f) \in OfKind(kind) \ {NoValue} /\ Itself(f) \in Value
    BY <1>1, KindFacts
  <2>5. Selves(fs) \in Seq(Value)
    <3>1. \A i \in 1..Len(fs) : Itself(fs[i]) \in Value
      BY <2>2, <2>3, <2>4
    <3> QED
      BY <2>2, <3>1 DEF Selves
  <2>6. \A i \in DOMAIN fs : /\ Selves(fs)[i] \in OfKind(kind) \ {NoValue}
                             /\ Selves(fs)[i] \in Value
                             /\ kind = "set" => Selves(fs)[i] = Itself(fs[i])
    BY <2>3, <2>4
  <2>7. Hsets(n, fs, Selves(fs)) \in Seq(Proper(kind)) /\ Hsets(n, fs, Selves(fs)) # <<>>
    BY <1>1, <2>2, <2>3, <2>6, HsetsTyping
  <2>8. PICK c : c = [Plain("hmset", n) EXCEPT !.fields = fs, !.values = Selves(fs)]
    OBVIOUS
  <2>9. c = [op |-> "hmset", name |-> n, fields |-> fs, values |-> Selves(fs),
              from |-> <<>>, low |-> 0, high |-> 0]
    BY <2>8 DEF Plain
  <2>10. c \in Request
    BY <2>2, <2>5, <2>9, NoneGiven DEF Request
  <2>11. c.op = "hmset"
    BY <2>9
  <2>12. Start(t, c, Hsets(n, fs, Selves(fs)))
    BY <2>1, <2>8
  <2> QED
    BY <2>7, <2>10, <2>11, <2>12, StartSafe
<1>3. CASE SRem(t)
  <2>1. PICK n \in Targets[kind], fs \in FieldLists :
          Start(t, [Plain("srem", n) EXCEPT !.fields = fs], Hrems(n, fs))
    BY <1>3 DEF SRem
  <2>2. n \in Names /\ fs \in Seq(Fields) /\ fs # <<>>
    BY <1>1, Given
  <2>3. Hrems(n, fs) \in Seq(Proper(kind)) /\ Hrems(n, fs) # <<>>
    BY <2>2, HdelsTyping
  <2>4. PICK c : c = [Plain("srem", n) EXCEPT !.fields = fs]
    OBVIOUS
  <2>5. c = [op |-> "srem", name |-> n, fields |-> fs, values |-> <<>>,
              from |-> <<>>, low |-> 0, high |-> 0]
    BY <2>4 DEF Plain
  <2>6. c \in Request
    BY <2>2, <2>5, NoneGiven DEF Request
  <2>7. c.op = "srem"
    BY <2>5
  <2>8. Start(t, c, Hrems(n, fs))
    BY <2>1, <2>4
  <2> QED
    BY <2>3, <2>6, <2>7, <2>8, StartSafe
<1>4. CASE SPop(t)
  <2>1. PICK n \in Targets[kind] : Start(t, Plain("spop", n), <<Whole("spop", n)>>)
    BY <1>4 DEF SPop
  <2>2. <<Whole("spop", n)>> \in Seq(Proper(kind)) /\ <<Whole("spop", n)>> # <<>>
    BY <1>1, WholeTyping, OneCall
  <2>3. Plain("spop", n) \in Request /\ Plain("spop", n).op = "spop"
    BY <1>1, PlainTyping
  <2> QED
    BY <2>1, <2>2, <2>3, StartSafe
<1>5. CASE SMove(t)
  <2>1. PICK n \in Targets[kind], d \in Targets[kind], f \in Fields :
          Start(t, [Plain("smove", n) EXCEPT !.fields = <<f>>, !.from = <<d>>],
                <<Call("hget_member", n, f, NoValue), Call("hdel", n, f, NoValue),
                  Call("hset_member", d, f, NoValue)>>)
    BY <1>5 DEF SMove
  <2>2. n \in Names /\ d \in Names
    BY <1>1
  <2> DEFINE p == <<Call("hget_member", n, f, NoValue), Call("hdel", n, f, NoValue),
                    Call("hset_member", d, f, NoValue)>>
  <2>3. /\ Call("hget_member", n, f, NoValue) \in Proper(kind)
        /\ Call("hdel", n, f, NoValue) \in Proper(kind)
        /\ Call("hset_member", d, f, NoValue) \in Proper(kind)
    BY <1>1, <2>2 DEF Call, Proper, Instruction
  <2>4. p \in Seq(Proper(kind)) /\ p # <<>>
    BY <2>3
  <2>5. MovePlan(p)
    BY <2>2 DEF MovePlan
  <2>6. <<f>> \in Seq(Fields) /\ <<d>> \in Seq(Names)
    BY <2>2, OneCall
  <2>7. PICK c : c = [Plain("smove", n) EXCEPT !.fields = <<f>>, !.from = <<d>>]
    OBVIOUS
  <2>8. c = [op |-> "smove", name |-> n, fields |-> <<f>>, values |-> <<>>,
              from |-> <<d>>, low |-> 0, high |-> 0]
    BY <2>7 DEF Plain
  <2>9. c \in Request
    BY <2>2, <2>6, <2>8, NoneGiven DEF Request
  <2>10. c.op = "smove"
    BY <2>8
  <2>11. Start(t, c, p)
    BY <2>1, <2>7
  <2> QED
    BY <2>4, <2>5, <2>9, <2>10, <2>11, StartSafe
<1>6. CASE SUnionStore(t)
  <2>1. PICK n \in Targets[kind], from \in SourceLists :
          Start(t, [Plain("union", n) EXCEPT !.from = from],
                Gathers("union", from) \o <<Whole("hclear", n), Whole("fill", n)>>)
    BY <1>6 DEF SUnionStore
  <2>2. n \in Names /\ from \in Seq(Names)
    BY <1>1, Given
  <2>3. <<Whole("hclear", n), Whole("fill", n)>> \in Seq(Proper(kind))
    BY <1>1, <2>2, StoreParts
  <2>4. Gathers("union", from) \in Seq(Proper(kind))
    BY <2>2, GathersTyping
  <2> DEFINE p == Gathers("union", from) \o <<Whole("hclear", n), Whole("fill", n)>>
  <2>5. p \in Seq(Proper(kind)) /\ p # <<>>
    BY <2>3, <2>4, JoinTyping
  <2>6. PICK c : c = [Plain("union", n) EXCEPT !.from = from]
    OBVIOUS
  <2>7. c = [op |-> "union", name |-> n, fields |-> <<>>, values |-> <<>>,
              from |-> from, low |-> 0, high |-> 0]
    BY <2>6 DEF Plain
  <2>8. c \in Request
    BY <2>2, <2>7, NoneGiven DEF Request
  <2>9. c.op = "union"
    BY <2>7
  <2>10. Start(t, c, p)
    BY <2>1, <2>6
  <2> QED
    BY <2>5, <2>8, <2>9, <2>10, StartSafe
<1>7. CASE SInterStore(t)
  <2>1. PICK n \in Targets[kind], from \in SourceLists :
          Start(t, [Plain("inter", n) EXCEPT !.from = from],
                <<Whole("first", from[1]), Whole("hclear", n)>>
                  \o Gathers("inter", Tail(from)) \o <<Whole("fill", n)>>)
    BY <1>7 DEF SInterStore
  <2>2. n \in Names /\ from \in Seq(Names) /\ from[1] \in Names /\ Tail(from) \in Seq(Names)
    BY <1>1, Given
  <2>3. /\ <<Whole("first", from[1]), Whole("hclear", n)>> \in Seq(Proper(kind))
        /\ <<Whole("fill", n)>> \in Seq(Proper(kind)) /\ <<Whole("fill", n)>> # <<>>
    BY <1>1, <2>2, StoreParts
  <2>4. Gathers("inter", Tail(from)) \in Seq(Proper(kind))
    BY <2>2, GathersTyping
  <2> DEFINE p == <<Whole("first", from[1]), Whole("hclear", n)>>
                    \o Gathers("inter", Tail(from)) \o <<Whole("fill", n)>>
  <2>5. p \in Seq(Proper(kind)) /\ p # <<>>
    BY <2>3, <2>4, JoinTyping
  <2>6. PICK c : c = [Plain("inter", n) EXCEPT !.from = from]
    OBVIOUS
  <2>7. c = [op |-> "inter", name |-> n, fields |-> <<>>, values |-> <<>>,
              from |-> from, low |-> 0, high |-> 0]
    BY <2>6 DEF Plain
  <2>8. c \in Request
    BY <2>2, <2>7, NoneGiven DEF Request
  <2>9. c.op = "inter"
    BY <2>7
  <2>10. Start(t, c, p)
    BY <2>1, <2>6
  <2> QED
    BY <2>5, <2>8, <2>9, <2>10, StartSafe
<1>8. CASE SDiffStore(t)
  <2>1. PICK n \in Targets[kind], from \in SourceLists :
          Start(t, [Plain("diff", n) EXCEPT !.from = from],
                <<Whole("hclear", n), Whole("first", from[1])>>
                  \o Gathers("diff", Tail(from)) \o <<Whole("fill", n)>>)
    BY <1>8 DEF SDiffStore
  <2>2. n \in Names /\ from \in Seq(Names) /\ from[1] \in Names /\ Tail(from) \in Seq(Names)
    BY <1>1, Given
  <2>3. /\ <<Whole("hclear", n), Whole("first", from[1])>> \in Seq(Proper(kind))
        /\ <<Whole("fill", n)>> \in Seq(Proper(kind)) /\ <<Whole("fill", n)>> # <<>>
    BY <1>1, <2>2, StoreParts
  <2>4. Gathers("diff", Tail(from)) \in Seq(Proper(kind))
    BY <2>2, GathersTyping
  <2> DEFINE p == <<Whole("hclear", n), Whole("first", from[1])>>
                    \o Gathers("diff", Tail(from)) \o <<Whole("fill", n)>>
  <2>5. p \in Seq(Proper(kind)) /\ p # <<>>
    BY <2>3, <2>4, JoinTyping
  <2>6. PICK c : c = [Plain("diff", n) EXCEPT !.from = from]
    OBVIOUS
  <2>7. c = [op |-> "diff", name |-> n, fields |-> <<>>, values |-> <<>>,
              from |-> from, low |-> 0, high |-> 0]
    BY <2>6 DEF Plain
  <2>8. c \in Request
    BY <2>2, <2>7, NoneGiven DEF Request
  <2>9. c.op = "diff"
    BY <2>7
  <2>10. Start(t, c, p)
    BY <2>1, <2>6
  <2> QED
    BY <2>5, <2>8, <2>9, <2>10, StartSafe
<1>9. CASE SClear(t)
  BY <1>9, ClearStarts DEF SClear
<1> QED
  BY <1>2, <1>3, <1>4, <1>5, <1>6, <1>7, <1>8, <1>9 DEF SetCommand

LEMMA ZSetStarts ==
  ASSUME CollectionInv, NEW t \in Threads, ZSetCommand(t)
  PROVE  CollectionInv'
<1>1. kind = "zset" /\ kind \in Kinds /\ kind \in {"hash", "set", "zset"} /\ Targets[kind] \subseteq Names
  BY Given DEF CollectionInv, TypeOK, ZSetCommand
<1>2. CASE ZAdd(t)
  <2>1. PICK n \in Targets[kind], fs \in FieldLists : \E vs \in [DOMAIN fs -> Numbers] :
          Start(t, [Plain("hmset", n) EXCEPT !.fields = fs, !.values = vs], Hsets(n, fs, vs))
    BY <1>2 DEF ZAdd
  <2>2. PICK vs \in [DOMAIN fs -> Numbers] :
          Start(t, [Plain("hmset", n) EXCEPT !.fields = fs, !.values = vs], Hsets(n, fs, vs))
    BY <2>1
  <2>3. n \in Names /\ fs \in Seq(Fields) /\ fs # <<>> /\ DOMAIN fs = 1..Len(fs) /\ Len(fs) \in Nat
    BY <1>1, Given
  <2>4. \A i \in Int : i \in OfKind(kind) \ {NoValue} /\ i \in Value
    BY <1>1, CollectionAssumption DEF OfKind, Value, SetAssumption
  <2>5. \A i \in DOMAIN fs : vs[i] \in OfKind(kind) \ {NoValue} /\ vs[i] \in Value
    BY <2>4, Given
  <2>6. vs \in Seq(Value)
    BY <2>3, <2>5
  <2>7. Hsets(n, fs, vs) \in Seq(Proper(kind)) /\ Hsets(n, fs, vs) # <<>>
    BY <1>1, <2>3, <2>5, HsetsTyping
  <2>8. PICK c : c = [Plain("hmset", n) EXCEPT !.fields = fs, !.values = vs]
    OBVIOUS
  <2>9. c = [op |-> "hmset", name |-> n, fields |-> fs, values |-> vs,
              from |-> <<>>, low |-> 0, high |-> 0]
    BY <2>8 DEF Plain
  <2>10. c \in Request
    BY <2>3, <2>6, <2>9, NoneGiven DEF Request
  <2>11. c.op = "hmset"
    BY <2>9
  <2>12. Start(t, c, Hsets(n, fs, vs))
    BY <2>2, <2>8
  <2> QED
    BY <2>7, <2>10, <2>11, <2>12, StartSafe
<1>3. CASE ZIncrBy(t)
  <2>1. PICK n \in Targets[kind], f \in Fields, by \in Numbers :
          Start(t, [Plain("zincrby", n) EXCEPT !.fields = <<f>>, !.values = <<by>>],
                <<Call("hget_score", n, f, by), Call("add", n, f, by)>>)
    BY <1>3 DEF ZIncrBy
  <2>2. n \in Names /\ by \in Int /\ by \in Value
    BY <1>1, Given DEF Value
  <2>3. Call("hget_score", n, f, by) \in Proper(kind) /\ Call("add", n, f, by) \in Proper(kind)
    BY <1>1, <2>2 DEF Call, Proper, Instruction
  <2> DEFINE p == <<Call("hget_score", n, f, by), Call("add", n, f, by)>>
  <2>4. p \in Seq(Proper(kind)) /\ p # <<>>
    BY <2>3
  <2>5. <<f>> \in Seq(Fields) /\ <<by>> \in Seq(Value)
    BY <2>2, OneCall
  <2>6. PICK c : c = [Plain("zincrby", n) EXCEPT !.fields = <<f>>, !.values = <<by>>]
    OBVIOUS
  <2>7. c = [op |-> "zincrby", name |-> n, fields |-> <<f>>, values |-> <<by>>,
              from |-> <<>>, low |-> 0, high |-> 0]
    BY <2>6 DEF Plain
  <2>8. c \in Request
    BY <2>2, <2>5, <2>7, NoneGiven DEF Request
  <2>9. c.op = "zincrby"
    BY <2>7
  <2>10. Start(t, c, p)
    BY <2>1, <2>6
  <2> QED
    BY <2>4, <2>8, <2>9, <2>10, StartSafe
<1>4. CASE ZRemRangeByRank(t)
  <2>1. PICK n \in Targets[kind], i \in Indexes, j \in Indexes :
          Start(t, [Plain("by_rank", n) EXCEPT !.low = i, !.high = j], <<Whole("by_rank", n)>>)
    BY <1>4 DEF ZRemRangeByRank
  <2>2. n \in Names /\ i \in Int /\ j \in Int
    BY <1>1, Given
  <2>3. <<Whole("by_rank", n)>> \in Seq(Proper(kind)) /\ <<Whole("by_rank", n)>> # <<>>
    BY <2>2, WholeTyping, OneCall
  <2>4. PICK c : c = [Plain("by_rank", n) EXCEPT !.low = i, !.high = j]
    OBVIOUS
  <2>5. c = [op |-> "by_rank", name |-> n, fields |-> <<>>, values |-> <<>>,
              from |-> <<>>, low |-> i, high |-> j]
    BY <2>4 DEF Plain
  <2>6. c \in Request
    BY <2>2, <2>5, NoneGiven DEF Request
  <2>7. c.op = "by_rank"
    BY <2>5
  <2>8. Start(t, c, <<Whole("by_rank", n)>>)
    BY <2>1, <2>4
  <2> QED
    BY <2>3, <2>6, <2>7, <2>8, StartSafe
<1>5. CASE ZClear(t)
  <2>1. PICK n \in Targets[kind] :
          Start(t, [Plain("by_rank", n) EXCEPT !.low = 0, !.high = -1], <<Whole("by_rank", n)>>)
    BY <1>5 DEF ZClear
  <2>2. n \in Names
    BY <1>1
  <2>3. <<Whole("by_rank", n)>> \in Seq(Proper(kind)) /\ <<Whole("by_rank", n)>> # <<>>
    BY <2>2, WholeTyping, OneCall
  <2>4. PICK c : c = [Plain("by_rank", n) EXCEPT !.low = 0, !.high = -1]
    OBVIOUS
  <2>5. c = [op |-> "by_rank", name |-> n, fields |-> <<>>, values |-> <<>>,
              from |-> <<>>, low |-> 0, high |-> -1]
    BY <2>4 DEF Plain
  <2>6. c \in Request
    BY <2>2, <2>5, NoneGiven DEF Request
  <2>7. c.op = "by_rank"
    BY <2>5
  <2>8. Start(t, c, <<Whole("by_rank", n)>>)
    BY <2>1, <2>4
  <2> QED
    BY <2>3, <2>6, <2>7, <2>8, StartSafe
<1>6. CASE ZRemRangeByScore(t)
  <2>1. PICK n \in Targets[kind], i \in Numbers, j \in Numbers :
          Start(t, [Plain("by_score", n) EXCEPT !.low = i, !.high = j], <<Whole("by_score", n)>>)
    BY <1>6 DEF ZRemRangeByScore
  <2>2. n \in Names /\ i \in Int /\ j \in Int
    BY <1>1, Given
  <2>3. <<Whole("by_score", n)>> \in Seq(Proper(kind)) /\ <<Whole("by_score", n)>> # <<>>
    BY <2>2, WholeTyping, OneCall
  <2>4. PICK c : c = [Plain("by_score", n) EXCEPT !.low = i, !.high = j]
    OBVIOUS
  <2>5. c = [op |-> "by_score", name |-> n, fields |-> <<>>, values |-> <<>>,
              from |-> <<>>, low |-> i, high |-> j]
    BY <2>4 DEF Plain
  <2>6. c \in Request
    BY <2>2, <2>5, NoneGiven DEF Request
  <2>7. c.op = "by_score"
    BY <2>5
  <2>8. Start(t, c, <<Whole("by_score", n)>>)
    BY <2>1, <2>4
  <2> QED
    BY <2>3, <2>6, <2>7, <2>8, StartSafe
<1> QED
  BY <1>2, <1>3, <1>4, <1>5, <1>6, DeletesStart DEF ZSetCommand

LEMMA FlushStarts ==
  ASSUME CollectionInv, NEW t \in Threads, FlushDb(t)
  PROVE  CollectionInv'
<1>1. PICK ns \in SetToSeqs(Names) : Start(t, Plain("flushdb", ns[1]), Gathers("hclear", ns))
  BY DEF FlushDb
<1>2. IsFiniteSet(Names) /\ Names # {}
  BY CollectionAssumption DEF SetAssumption
<1>3. Cardinality(Names) \in Nat /\ Cardinality(Names) # 0
  BY <1>2, FS_CardinalityType, FS_EmptySet
<1>4. ns \in [1..Cardinality(Names) -> Names]
  BY DEF SetToSeqs
<1>5. ns \in Seq(Names) /\ DOMAIN ns = 1..Cardinality(Names) /\ ns[1] \in Names
  BY <1>3, <1>4
<1>6. Gathers("hclear", ns) \in Seq(Proper(kind))
  BY <1>5, GathersTyping
<1>7. Gathers("hclear", ns) # <<>>
  <2>1. DOMAIN Gathers("hclear", ns) = 1..Cardinality(Names)
    BY <1>5 DEF Gathers
  <2> QED
    BY <1>3, <2>1, LenOfFun
<1>8. Plain("flushdb", ns[1]) \in Request /\ Plain("flushdb", ns[1]).op = "flushdb"
  BY <1>5, PlainTyping
<1> QED
  BY <1>1, <1>6, <1>7, <1>8, StartSafe


-----------------------------------------------------------------------------
(* The steps of a command *)

\* The call a thread is at, and what is left behind it.
LEMMA Current ==
  ASSUME CollectionInv, NEW t \in Threads, prog[t] # <<>>
  PROVE  /\ Now(t) \in Proper(kind) /\ Now(t) \in Instruction
         /\ Rest(t) \in Seq(Proper(kind))
         /\ prog[t] \in Seq(Proper(kind))
         /\ SubSeq(prog[t], 3, Len(prog[t])) \in Seq(Proper(kind))
         /\ cmd[t] \in Request /\ cmd[t] # NoCmd
         /\ kind \in {"hash", "set", "zset"}
<1>1. prog[t] \in Seq(Proper(kind)) /\ Len(prog[t]) \in Nat
  BY DEF CollectionInv, ProgOK
<1>2. Now(t) \in Proper(kind) /\ Rest(t) \in Seq(Proper(kind))
  BY <1>1, HeadTailProperties DEF Now, Rest
<1>3. SubSeq(prog[t], 3, Len(prog[t])) \in Seq(Proper(kind))
  <2>1. \A i \in 3..Len(prog[t]) : prog[t][i] \in Proper(kind)
    BY <1>1, ElementOfSeq
  <2> QED
    BY <1>1, <2>1, SubSeqProperties
<1>4. cmd[t] \in Request /\ cmd[t] # NoCmd
  BY DEF CollectionInv, TypeOK
<1>5. kind \in {"hash", "set", "zset"}
  BY CollectionAssumption DEF CollectionInv, TypeOK
<1> QED
  BY <1>1, <1>2, <1>3, <1>4, <1>5 DEF Proper

\* A call about several fields goes on with the others.
LEMMA BehindTyping ==
  ASSUME CollectionInv, NEW t \in Threads, prog[t] # <<>>, NEW f \in Now(t).fields
  PROVE  Behind(t, f) \in Seq(Proper(kind))
<1>1. Now(t) \in Proper(kind) /\ Rest(t) \in Seq(Proper(kind))
  BY Current
<1>2. PICK c : c = [Now(t) EXCEPT !.fields = @ \ {f}]
  OBVIOUS
<1>3. c \in Proper(kind)
  <2>1. Now(t) \in Instruction
    BY <1>1 DEF Proper
  <2>2. /\ c \in Instruction /\ c.do = Now(t).do /\ c.value = Now(t).value
        /\ c.fields = Now(t).fields \ {f}
    BY <1>2, <2>1 DEF Instruction
  <2> QED
    BY <1>1, <2>2 DEF Proper
<1>4. <<c>> \o Rest(t) \in Seq(Proper(kind))
  BY <1>1, <1>3, SequenceOf
<1> QED
  BY <1>1, <1>2, <1>4 DEF Behind

\* Where an SMOVE is.
LEMMA MoveAhead ==
  ASSUME CollectionInv, NEW t \in Threads, prog[t] # <<>>, cmd[t].op = "smove"
  PROVE  \E f \in Fields :
           /\ Now(t).fields = {f}
           /\ \/ Now(t).do = "hget_member" /\ MovePlan(Rest(t))
              \/ /\ Now(t).do = "hdel" /\ MovePlan(Rest(t)) /\ Rest(t) # <<>>
                 /\ Head(Rest(t)).do = "hset_member" /\ Head(Rest(t)).fields = {f}
              \/ Now(t).do = "hset_member" /\ Rest(t) = <<>>
<1>1. MovePlan(prog[t])
  BY Current DEF CollectionInv, MoveOK
<1>2. PICK n \in Names, d \in Names, f \in Fields :
        prog[t] \in {<<Call("hset_member", d, f, NoValue)>>,
                     <<Call("hdel", n, f, NoValue), Call("hset_member", d, f, NoValue)>>,
                     <<Call("hget_member", n, f, NoValue), Call("hdel", n, f, NoValue),
                       Call("hset_member", d, f, NoValue)>>}
  BY <1>1 DEF MovePlan
<1>3. CASE prog[t] = <<Call("hset_member", d, f, NoValue)>>
  <2>1. Now(t) = Call("hset_member", d, f, NoValue) /\ Rest(t) = <<>>
    BY <1>3 DEF Now, Rest
  <2> QED
    BY <2>1 DEF Call
<1>4. CASE prog[t] = <<Call("hdel", n, f, NoValue), Call("hset_member", d, f, NoValue)>>
  <2>1. /\ Now(t) = Call("hdel", n, f, NoValue)
        /\ Rest(t) = <<Call("hset_member", d, f, NoValue)>>
    BY <1>4 DEF Now, Rest
  <2>2. MovePlan(Rest(t))
    BY <2>1 DEF MovePlan
  <2>3. Rest(t) # <<>> /\ Head(Rest(t)) = Call("hset_member", d, f, NoValue)
    BY <2>1
  <2> QED
    BY <2>1, <2>2, <2>3 DEF Call
<1>5. CASE prog[t] = <<Call("hget_member", n, f, NoValue), Call("hdel", n, f, NoValue),
                       Call("hset_member", d, f, NoValue)>>
  <2>1. /\ Now(t) = Call("hget_member", n, f, NoValue)
        /\ Rest(t) = <<Call("hdel", n, f, NoValue), Call("hset_member", d, f, NoValue)>>
    BY <1>5 DEF Now, Rest
  <2>2. MovePlan(Rest(t))
    BY <2>1 DEF MovePlan
  <2> QED
    BY <2>1, <2>2 DEF Call
<1> QED
  BY <1>2, <1>3, <1>4, <1>5

\* A step of t, which goes on with p.
LEMMA StepSafe ==
  ASSUME CollectionInv, NEW t \in Threads, prog[t] # <<>>,
         NEW p \in Seq(Proper(kind)), NEW v \in OfKind(kind), NEW l,
         Goes(t, p), Keeps(t, p, v, l), UNCHANGED <<kind, ops, faults>>,
         store' \in [Names -> [Fields -> OfKind(kind)]],
         kind = "set" => \A n \in Names, f \in Fields : store'[n][f] \in {Itself(f), NoValue},
         kept' \subseteq Fields, MembersKept',
         cmd[t].op = "smove" /\ p # <<>> => MovePlan(p)
  PROVE  CollectionInv'
<1>1. TypeOK /\ ProgOK /\ MoveOK
  BY DEF CollectionInv
<1>2. /\ prog' = [prog EXCEPT ![t] = p]
      /\ p # <<>> => UNCHANGED <<cmd, history>>
      /\ p = <<>> => /\ cmd' = [cmd EXCEPT ![t] = NoCmd]
                     /\ before' = [before EXCEPT ![t] = Empty]
                     /\ disturbed' = disturbed \ {t}
      /\ got' = [got EXCEPT ![t] = IF p = <<>> THEN NoValue ELSE v]
      /\ list' = [list EXCEPT ![t] = IF p = <<>> THEN <<>> ELSE l]
  BY DEF Goes, Keeps
<1>3. p \in Seq(Instruction)
  <2>1. Proper(kind) \subseteq Instruction
    BY DEF Proper
  <2> QED
    BY <2>1, SeqMonotonic
<1>4. cmd[t] # NoCmd
  BY Current
<1>5. NoValue \in OfKind(kind)
  BY DEF OfKind
<1>6. TypeOK'
  <2>1. prog' \in [Threads -> Seq(Instruction)]
    BY <1>1, <1>2, <1>3 DEF TypeOK
  <2>2. cmd' \in [Threads -> Request \cup {NoCmd}]
    BY <1>1, <1>2 DEF TypeOK
  <2>3. got' \in [Threads -> OfKind(kind)]
    BY <1>1, <1>2, <1>5 DEF TypeOK
  <2>4. DOMAIN list' = Threads
    BY <1>1, <1>2 DEF TypeOK
  <2>5. before' \in [Threads -> [Names -> [Fields -> OfKind(kind)]]]
    <3>1. Empty \in [Names -> [Fields -> OfKind(kind)]]
      BY <1>5 DEF Empty
    <3> QED
      BY <1>1, <1>2, <3>1 DEF TypeOK, history
  <2>6. disturbed' \subseteq Threads
    BY <1>1, <1>2 DEF TypeOK, history
  <2>7. \A u \in Threads : cmd'[u] = NoCmd <=> prog'[u] = <<>>
    BY <1>1, <1>2, <1>4 DEF TypeOK
  <2> QED
    BY <1>1, <2>1, <2>2, <2>3, <2>4, <2>5, <2>6, <2>7 DEF TypeOK
<1>7. ProgOK'
  BY <1>1, <1>2 DEF ProgOK, TypeOK
<1>8. MoveOK'
  <2> SUFFICES ASSUME NEW u \in Threads, cmd'[u] # NoCmd, cmd'[u].op = "smove"
               PROVE  MovePlan(prog'[u])
    BY DEF MoveOK
  <2>1. CASE u # t
    <3>1. cmd'[u] = cmd[u] /\ prog'[u] = prog[u]
      BY <1>1, <1>2, <2>1 DEF TypeOK
    <3> QED
      BY <1>1, <3>1 DEF MoveOK
  <2>2. CASE u = t
    <3>1. p # <<>> /\ prog'[u] = p /\ cmd'[u] = cmd[u]
      BY <1>1, <1>2, <2>2 DEF TypeOK
    <3> QED
      BY <2>2, <3>1
  <2> QED
    BY <2>1, <2>2
<1> QED
  BY <1>6, <1>7, <1>8 DEF CollectionInv

\* What the others carry they carry on.
LEMMA OthersCarry ==
  ASSUME CollectionInv, NEW t \in Threads, NEW p, Goes(t, p),
         NEW u \in Threads, u # t, NEW f, Carries(u, f)
  PROVE  Carries(u, f)'
<1>1. prog \in [Threads -> Seq(Instruction)] /\ cmd \in [Threads -> Request \cup {NoCmd}]
  BY DEF CollectionInv, TypeOK
<1>2. prog'[u] = prog[u] /\ cmd'[u] = cmd[u]
  BY <1>1 DEF Goes
<1> QED
  BY <1>2 DEF Carries, Now

\* A call that only reads.
LEMMA LookKeeps ==
  ASSUME CollectionInv, NEW t \in Threads, prog[t] # <<>>, Now(t).do # "hset_member",
         NEW p, Goes(t, p), UNCHANGED <<store, kept>>
  PROVE  MembersKept'
<1>1. MembersKept /\ kept \subseteq Fields
  BY DEF CollectionInv, TypeOK
<1>2. \A f : ~Carries(t, f)
  BY DEF Carries
<1>3. \A u \in Threads, f \in Fields : Carries(u, f) => Carries(u, f)'
  BY <1>2, OthersCarry
<1> QED
  BY <1>1, <1>3 DEF MembersKept

LEMMA LookSafe ==
  ASSUME CollectionInv, NEW t \in Threads, prog[t] # <<>>, Now(t).do # "hset_member",
         NEW p \in Seq(Proper(kind)), NEW v \in OfKind(kind), NEW l,
         Goes(t, p), Keeps(t, p, v, l), UNCHANGED <<kind, store, ops, faults, kept>>,
         cmd[t].op = "smove" /\ p # <<>> => MovePlan(p)
  PROVE  CollectionInv'
<1>1. MembersKept'
  BY LookKeeps
<1>2. /\ store' \in [Names -> [Fields -> OfKind(kind)]]
      /\ kind = "set" => \A n \in Names, f \in Fields : store'[n][f] \in {Itself(f), NoValue}
      /\ kept' \subseteq Fields
  BY DEF CollectionInv, TypeOK
<1> QED
  BY <1>1, <1>2, StepSafe

\* A call that writes the record of f.
LEMMA PutSafe ==
  ASSUME CollectionInv, NEW t \in Threads, prog[t] # <<>>,
         NEW n \in Names, NEW f \in Fields, NEW w \in OfKind(kind) \ {NoValue},
         kind = "set" => w = Itself(f),
         store' = [store EXCEPT ![n][f] = w], kept' = kept \cup {f},
         \A g : Carries(t, g) => g = f,
         NEW p \in Seq(Proper(kind)), NEW v \in OfKind(kind), NEW l,
         Goes(t, p), Keeps(t, p, v, l), UNCHANGED <<kind, ops, faults>>,
         cmd[t].op = "smove" /\ p # <<>> => MovePlan(p)
  PROVE  CollectionInv'
<1>1. MembersKept /\ kept \subseteq Fields /\ store \in [Names -> [Fields -> OfKind(kind)]]
  BY DEF CollectionInv, TypeOK
<1>2. \A m \in Names, g \in Fields : store'[m][g] = IF m = n /\ g = f THEN w ELSE store[m][g]
  BY <1>1
<1>3. store' \in [Names -> [Fields -> OfKind(kind)]]
  BY <1>1
<1>4. kind = "set" => \A m \in Names, g \in Fields : store'[m][g] \in {Itself(g), NoValue}
  BY <1>2 DEF CollectionInv, TypeOK
<1>5. MembersKept'
  <2> SUFFICES ASSUME NEW g \in kept'
               PROVE  \/ \E m \in Names : store'[m][g] # NoValue
                      \/ \E u \in Threads : Carries(u, g)'
    BY DEF MembersKept
  <2>1. CASE g = f
    BY <1>2, <2>1
  <2>2. CASE g # f
    <3>1. g \in kept /\ g \in Fields
      BY <1>1, <2>2
    <3>2. CASE \E m \in Names : store[m][g] # NoValue
      BY <1>2, <2>2, <3>1, <3>2
    <3>3. CASE \E u \in Threads : Carries(u, g)
      <4>1. PICK u \in Threads : Carries(u, g)
        BY <3>3
      <4>2. u # t
        BY <2>2, <4>1
      <4> QED
        BY <4>1, <4>2, OthersCarry
    <3> QED
      BY <1>1, <3>1, <3>2, <3>3 DEF MembersKept
  <2> QED
    BY <2>1, <2>2
<1>6. kept' \subseteq Fields
  BY <1>1
<1> QED
  BY <1>3, <1>4, <1>5, <1>6, StepSafe

\* A call that deletes it.  SMOVE has it in its hands then.
LEMMA DeleteSafe ==
  ASSUME CollectionInv, NEW t \in Threads, prog[t] # <<>>, Now(t).do = "hdel",
         NEW n \in Names, NEW f \in Fields,
         store' = [store EXCEPT ![n][f] = NoValue],
         kept' = IF cmd[t].op = "smove" THEN kept ELSE kept \ {f},
         NEW p \in Seq(Proper(kind)), NEW v \in OfKind(kind), NEW l,
         Goes(t, p), Keeps(t, p, v, l), UNCHANGED <<kind, ops, faults>>,
         cmd[t].op = "smove" => /\ p # <<>> /\ MovePlan(p)
                                /\ Head(p).do = "hset_member" /\ f \in Head(p).fields
  PROVE  CollectionInv'
<1>1. MembersKept /\ kept \subseteq Fields /\ store \in [Names -> [Fields -> OfKind(kind)]]
      /\ prog \in [Threads -> Seq(Instruction)]
  BY DEF CollectionInv, TypeOK
<1>2. \A m \in Names, g \in Fields : store'[m][g] = IF m = n /\ g = f THEN NoValue ELSE store[m][g]
  BY <1>1
<1>3. store' \in [Names -> [Fields -> OfKind(kind)]]
  BY <1>1 DEF OfKind
<1>4. kind = "set" => \A m \in Names, g \in Fields : store'[m][g] \in {Itself(g), NoValue}
  BY <1>2 DEF CollectionInv, TypeOK
<1>5. \A g : ~Carries(t, g)
  BY DEF Carries
<1>6. MembersKept'
  <2> SUFFICES ASSUME NEW g \in kept'
               PROVE  \/ \E m \in Names : store'[m][g] # NoValue
                      \/ \E u \in Threads : Carries(u, g)'
    BY DEF MembersKept
  <2>1. CASE g = f
    <3>1. cmd[t].op = "smove"
      BY <2>1
    <3>2. prog'[t] = p /\ cmd'[t] = cmd[t]
      BY <1>1, <3>1 DEF Goes
    <3>3. Carries(t, f)'
      BY <3>1, <3>2 DEF Carries, Now
    <3> QED
      BY <2>1, <3>3
  <2>2. CASE g # f
    <3>1. g \in kept /\ g \in Fields
      BY <1>1, <2>2
    <3>2. CASE \E m \in Names : store[m][g] # NoValue
      BY <1>2, <2>2, <3>1, <3>2
    <3>3. CASE \E u \in Threads : Carries(u, g)
      <4>1. PICK u \in Threads : Carries(u, g)
        BY <3>3
      <4>2. u # t
        BY <1>5, <4>1
      <4> QED
        BY <4>1, <4>2, OthersCarry
    <3> QED
      BY <1>1, <3>1, <3>2, <3>3 DEF MembersKept
  <2> QED
    BY <2>1, <2>2
<1>7. kept' \subseteq Fields
  BY <1>1
<1> QED
  BY <1>3, <1>4, <1>6, <1>7, StepSafe

-----------------------------------------------------------------------------
(* The calls *)

LEMMA HsetSafe ==
  ASSUME CollectionInv, NEW t \in Threads, Hset(t)
  PROVE  CollectionInv'
<1>1. PICK f : /\ Calls(t, "hset") /\ f \in Now(t).fields
               /\ store' = [store EXCEPT ![Now(t).name][f] = Now(t).value]
               /\ kept' = kept \cup {f}
               /\ Goes(t, Behind(t, f))
               /\ Keeps(t, Behind(t, f), got[t], list[t])
               /\ UNCHANGED <<kind, ops, faults>>
  BY DEF Hset
<1>2. prog[t] # <<>> /\ Now(t).do = "hset"
  BY <1>1 DEF Calls
<1>3. Now(t) \in Instruction /\ Now(t) \in Proper(kind)
  BY <1>2, Current
<1>4. /\ Now(t).name \in Names /\ f \in Fields
      /\ Now(t).value \in OfKind(kind) \ {NoValue}
      /\ kind = "set" => Now(t).value = Itself(f)
  BY <1>1, <1>2, <1>3 DEF Instruction, Proper
<1>5. Behind(t, f) \in Seq(Proper(kind)) /\ got[t] \in OfKind(kind)
  BY <1>1, <1>2, BehindTyping DEF CollectionInv, TypeOK
<1>6. (\A g : ~Carries(t, g)) /\ cmd[t].op # "smove"
  BY <1>2, MoveAhead DEF Carries
<1>7. PICK p : p = Behind(t, f)
  OBVIOUS
<1> QED
  BY <1>1, <1>2, <1>4, <1>5, <1>6, <1>7, PutSafe

LEMMA HsetMemberSafe ==
  ASSUME CollectionInv, NEW t \in Threads, HsetMember(t)
  PROVE  CollectionInv'
<1>1. PICK f : /\ Calls(t, "hset_member") /\ f \in Now(t).fields
               /\ store' = [store EXCEPT ![Now(t).name][f] = Itself(f)]
               /\ kept' = kept \cup {f}
               /\ Goes(t, Behind(t, f))
               /\ Keeps(t, Behind(t, f), got[t], list[t])
               /\ UNCHANGED <<kind, ops, faults>>
  BY DEF HsetMember
<1>2. prog[t] # <<>> /\ Now(t).do = "hset_member"
  BY <1>1 DEF Calls
<1>3. Now(t) \in Instruction /\ Now(t) \in Proper(kind) /\ kind \in {"hash", "set", "zset"}
  BY <1>2, Current
<1>4. Now(t).name \in Names /\ f \in Fields /\ kind = "set"
  BY <1>1, <1>2, <1>3 DEF Instruction, Proper
<1>5. Itself(f) \in OfKind(kind) \ {NoValue}
  BY <1>3, <1>4, KindFacts
<1>6. Behind(t, f) \in Seq(Proper(kind)) /\ got[t] \in OfKind(kind)
  BY <1>1, <1>2, BehindTyping DEF CollectionInv, TypeOK
<1>7. /\ cmd[t].op = "smove" => Behind(t, f) = <<>>
      /\ \A g : Carries(t, g) => g = f
  <2>1. CASE cmd[t].op = "smove"
    <3>1. Now(t).fields = {f} /\ Rest(t) = <<>>
      BY <1>1, <1>2, <2>1, MoveAhead
    <3> QED
      BY <3>1 DEF Behind, Carries
  <2>2. CASE cmd[t].op # "smove"
    BY <2>2 DEF Carries
  <2> QED
    BY <2>1, <2>2
<1>8. PICK p : p = Behind(t, f)
  OBVIOUS
<1> QED
  BY <1>1, <1>2, <1>4, <1>5, <1>6, <1>7, <1>8, PutSafe

LEMMA HdelSafe ==
  ASSUME CollectionInv, NEW t \in Threads, Hdel(t)
  PROVE  CollectionInv'
<1>1. PICK f : /\ Calls(t, "hdel") /\ f \in Now(t).fields
               /\ store' = [store EXCEPT ![Now(t).name][f] = NoValue]
               /\ kept' = IF cmd[t].op = "smove" THEN kept ELSE kept \ {f}
               /\ Goes(t, Behind(t, f))
               /\ Keeps(t, Behind(t, f), got[t], list[t])
               /\ UNCHANGED <<kind, ops, faults>>
  BY DEF Hdel
<1>2. prog[t] # <<>> /\ Now(t).do = "hdel"
  BY <1>1 DEF Calls
<1>3. Now(t) \in Instruction
  BY <1>2, Current
<1>4. Now(t).name \in Names /\ f \in Fields
  BY <1>1, <1>3 DEF Instruction
<1>5. Behind(t, f) \in Seq(Proper(kind)) /\ got[t] \in OfKind(kind)
  BY <1>1, <1>2, BehindTyping DEF CollectionInv, TypeOK
<1>6. PICK p : p = Behind(t, f)
  OBVIOUS
<1>7. cmd[t].op = "smove" => /\ p # <<>> /\ MovePlan(p)
                             /\ Head(p).do = "hset_member" /\ f \in Head(p).fields
  <2> SUFFICES ASSUME cmd[t].op = "smove"
               PROVE  /\ p # <<>> /\ MovePlan(p)
                      /\ Head(p).do = "hset_member" /\ f \in Head(p).fields
    OBVIOUS
  <2>1. /\ Now(t).fields = {f} /\ MovePlan(Rest(t)) /\ Rest(t) # <<>>
        /\ Head(Rest(t)).do = "hset_member" /\ Head(Rest(t)).fields = {f}
    BY <1>1, <1>2, MoveAhead
  <2>2. p = Rest(t)
    BY <1>6, <2>1 DEF Behind
  <2> QED
    BY <2>1, <2>2
<1> QED
  BY <1>1, <1>2, <1>4, <1>5, <1>6, <1>7, DeleteSafe

LEMMA HexistsSafe ==
  ASSUME CollectionInv, NEW t \in Threads, Hexists(t)
  PROVE  CollectionInv'
<1>1. PICK do \in {"if_there", "if_missing"}, f \in Fields :
        /\ Calls(t, do) /\ f \in Now(t).fields
        /\ LET p == IF Exists(Hash(t)[f]) = (do = "if_there") THEN Rest(t)
                    ELSE SubSeq(prog[t], 3, Len(prog[t]))
           IN Goes(t, p) /\ Keeps(t, p, got[t], list[t])
        /\ UNCHANGED <<kind, store, ops, faults, kept>>
  BY DEF Hexists
<1>2. PICK p : /\ p \in {Rest(t), SubSeq(prog[t], 3, Len(prog[t]))}
               /\ Goes(t, p) /\ Keeps(t, p, got[t], list[t])
  BY <1>1
<1>3. prog[t] # <<>> /\ Now(t).do \in {"if_there", "if_missing"}
  BY <1>1 DEF Calls
<1>4. p \in Seq(Proper(kind)) /\ got[t] \in OfKind(kind)
  BY <1>2, <1>3, Current DEF CollectionInv, TypeOK
<1>5. cmd[t].op # "smove" /\ Now(t).do # "hset_member"
  BY <1>3, MoveAhead
<1> QED
  BY <1>1, <1>2, <1>3, <1>4, <1>5, LookSafe

\* The value of a record.
LEMMA HashTyping ==
  ASSUME CollectionInv, NEW t \in Threads, prog[t] # <<>>, NEW f \in Fields
  PROVE  Hash(t)[f] \in OfKind(kind)
<1>1. Now(t).name \in Names
  BY Current DEF Instruction
<1> QED
  BY <1>1 DEF Hash, CollectionInv, TypeOK

LEMMA GetNumberSafe ==
  ASSUME CollectionInv, NEW t \in Threads, GetNumber(t)
  PROVE  CollectionInv'
<1>1. PICK f : /\ Calls(t, "hget_number") /\ f \in Now(t).fields
               /\ LET p == IF Hash(t)[f] = Text THEN <<>> ELSE Rest(t)
                  IN Goes(t, p) /\ Keeps(t, p, Hash(t)[f], list[t])
               /\ UNCHANGED <<kind, store, ops, faults, kept>>
  BY DEF GetNumber
<1>2. PICK p : p \in {<<>>, Rest(t)} /\ Goes(t, p) /\ Keeps(t, p, Hash(t)[f], list[t])
  BY <1>1
<1>3. prog[t] # <<>> /\ Now(t).do = "hget_number"
  BY <1>1 DEF Calls
<1>4. p \in Seq(Proper(kind))
  BY <1>2, <1>3, Current, EmptySeq
<1>5. f \in Fields
  BY <1>1, <1>3, Current DEF Instruction
<1>6. Hash(t)[f] \in OfKind(kind)
  BY <1>3, <1>5, HashTyping
<1>7. cmd[t].op # "smove"
  BY <1>3, MoveAhead
<1> QED
  BY <1>1, <1>2, <1>3, <1>4, <1>6, <1>7, LookSafe

LEMMA GetMemberSafe ==
  ASSUME CollectionInv, NEW t \in Threads, GetMember(t)
  PROVE  CollectionInv'
<1>1. PICK f : /\ Calls(t, "hget_member") /\ f \in Now(t).fields
               /\ LET p == IF Hash(t)[f] = NoValue THEN <<>> ELSE Rest(t)
                  IN Goes(t, p) /\ Keeps(t, p, NoValue, list[t])
               /\ UNCHANGED <<kind, store, ops, faults, kept>>
  BY DEF GetMember
<1>2. PICK p : p \in {<<>>, Rest(t)} /\ Goes(t, p) /\ Keeps(t, p, NoValue, list[t])
  BY <1>1
<1>3. prog[t] # <<>> /\ Now(t).do = "hget_member"
  BY <1>1 DEF Calls
<1>4. p \in Seq(Proper(kind)) /\ NoValue \in OfKind(kind)
  BY <1>2, <1>3, Current, EmptySeq DEF OfKind
<1>5. cmd[t].op = "smove" => MovePlan(Rest(t))
  BY <1>3, MoveAhead
<1> QED
  BY <1>1, <1>2, <1>3, <1>4, <1>5, LookSafe

LEMMA GetScoreSafe ==
  ASSUME CollectionInv, NEW t \in Threads, GetScore(t)
  PROVE  CollectionInv'
<1>1. PICK f \in Now(t).fields, junk \in Junk :
        /\ Calls(t, "hget_score")
        /\ LET none == Hash(t)[f] = NoValue
               p    == (IF none THEN <<Call("hset", Now(t).name, f, Now(t).value)>> ELSE <<>>) \o Rest(t)
           IN Goes(t, p) /\ Keeps(t, p, IF none THEN junk ELSE Hash(t)[f], list[t])
        /\ UNCHANGED <<kind, store, ops, faults, kept>>
  BY DEF GetScore
<1>2. prog[t] # <<>> /\ Now(t).do = "hget_score"
  BY <1>1 DEF Calls
<1>3. Now(t) \in Instruction /\ Now(t) \in Proper(kind) /\ Rest(t) \in Seq(Proper(kind))
  BY <1>2, Current
<1>4. /\ Now(t).name \in Names /\ f \in Fields /\ kind = "zset"
      /\ Now(t).value \in Int
  BY <1>1, <1>2, <1>3 DEF Instruction, Proper
<1>5. PICK c : c = Call("hset", Now(t).name, f, Now(t).value)
  OBVIOUS
<1>6. c \in Proper(kind)
  <2>1. Now(t).value \in Value /\ Now(t).value # NoValue
    BY <1>4, CollectionAssumption DEF Value, SetAssumption
  <2>2. Now(t).value \in OfKind(kind) \ {NoValue}
    BY <1>4, <2>1 DEF OfKind
  <2>3. c \in Instruction
    BY <1>4, <1>5, <2>1 DEF Call, Instruction
  <2> QED
    BY <1>4, <1>5, <2>1, <2>2, <2>3, CallTyping
<1>7. PICK p, v :
        /\ p \in {<<c>> \o Rest(t), <<>> \o Rest(t)} /\ v \in Junk \cup {Hash(t)[f]}
        /\ Goes(t, p) /\ Keeps(t, p, v, list[t])
  <2>1. CASE Hash(t)[f] = NoValue
    BY <1>1, <1>5, <2>1
  <2>2. CASE Hash(t)[f] # NoValue
    BY <1>1, <2>2
  <2> QED
    BY <2>1, <2>2
<1>8. p \in Seq(Proper(kind))
  <2>1. <<c>> \o Rest(t) \in Seq(Proper(kind))
    BY <1>3, <1>6, SequenceOf
  <2>2. <<>> \o Rest(t) = Rest(t)
    BY <1>3
  <2> QED
    BY <1>3, <1>7, <2>1, <2>2
<1>9. v \in OfKind(kind)
  <2>1. Junk \subseteq OfKind(kind)
    BY <1>4, CollectionAssumption DEF OfKind
  <2> QED
    BY <1>2, <1>4, <1>7, <2>1, HashTyping
<1>10. cmd[t].op # "smove"
  BY <1>2, MoveAhead
<1> QED
  BY <1>1, <1>2, <1>7, <1>8, <1>9, <1>10, LookSafe

LEMMA AddSafe ==
  ASSUME CollectionInv, NEW t \in Threads, Add(t)
  PROVE  CollectionInv'
<1>1. PICK f : /\ Calls(t, "add") /\ f \in Now(t).fields
               /\ store' = [store EXCEPT ![Now(t).name][f] = Number(got[t]) + Now(t).value]
               /\ kept' = kept \cup {f}
               /\ Goes(t, Rest(t))
               /\ Keeps(t, Rest(t), NoValue, list[t])
               /\ UNCHANGED <<kind, ops, faults>>
  BY DEF Add
<1>2. prog[t] # <<>> /\ Now(t).do = "add"
  BY <1>1 DEF Calls
<1>3. /\ Now(t) \in Instruction /\ Now(t) \in Proper(kind) /\ Rest(t) \in Seq(Proper(kind))
      /\ kind \in {"hash", "set", "zset"}
  BY <1>2, Current
<1>4. Now(t).name \in Names /\ f \in Fields /\ kind # "set" /\ Now(t).value \in Int
  BY <1>1, <1>2, <1>3 DEF Instruction, Proper
<1>5. PICK w : w = Number(got[t]) + Now(t).value
  OBVIOUS
<1>6. w \in Int
  BY <1>4, <1>5 DEF Number
<1>7. w \in OfKind(kind) \ {NoValue}
  <2>1. w # NoValue
    BY <1>6, CollectionAssumption DEF SetAssumption, Value
  <2> QED
    BY <1>3, <1>4, <1>6, <2>1, KindFacts
<1>8. (\A g : ~Carries(t, g)) /\ cmd[t].op # "smove"
  BY <1>2, MoveAhead DEF Carries
<1>9. NoValue \in OfKind(kind)
  BY DEF OfKind
<1>10. store' = [store EXCEPT ![Now(t).name][f] = w]
  BY <1>1, <1>5
<1>11. PICK n : n = Now(t).name
  OBVIOUS
<1> QED
  BY <1>1, <1>2, <1>3, <1>4, <1>7, <1>8, <1>9, <1>10, <1>11, PutSafe

LEMMA HgetallSafe ==
  ASSUME CollectionInv, NEW t \in Threads, Hgetall(t)
  PROVE  CollectionInv'
<1>1. PICK fs :
        /\ \E do \in {"hclear", "spop", "by_rank", "by_score"} : Calls(t, do)
        /\ fs \in Found(t)
        /\ LET p == Each("hdel", Now(t).name, fs) \o Rest(t)
           IN Goes(t, p) /\ Keeps(t, p, NoValue, list[t])
        /\ UNCHANGED <<kind, store, ops, faults, kept>>
  BY DEF Hgetall
<1>2. prog[t] # <<>> /\ Now(t).do \in {"hclear", "spop", "by_rank", "by_score"}
  BY <1>1 DEF Calls
<1>3. Now(t) \in Instruction /\ Rest(t) \in Seq(Proper(kind)) /\ Now(t).name \in Names
  BY <1>2, Current DEF Instruction
<1>4. fs \in SUBSET Fields
  <2>1. CASE Now(t).do = "hclear"
    BY <1>1, <1>2, <2>1 DEF Found, Calls, Members
  <2>2. CASE Now(t).do = "spop"
    BY <1>1, <1>2, <2>2 DEF Found, Calls, Members
  <2>3. CASE Now(t).do = "by_rank"
    BY <1>1, <1>2, <2>3 DEF Found, Calls, ByRank, Members
  <2>4. CASE Now(t).do = "by_score"
    BY <1>1, <1>2, <2>4 DEF Found, Calls, ByScore, Members
  <2> QED
    BY <1>2, <2>1, <2>2, <2>3, <2>4
<1>5. Each("hdel", Now(t).name, fs) \in Seq(Proper(kind))
  BY <1>3, <1>4, EachTyping
<1>6. PICK p : p = Each("hdel", Now(t).name, fs) \o Rest(t)
  OBVIOUS
<1>7. p \in Seq(Proper(kind)) /\ NoValue \in OfKind(kind)
  BY <1>3, <1>5, <1>6, ConcatProperties DEF OfKind
<1>8. cmd[t].op # "smove"
  BY <1>2, MoveAhead
<1> QED
  BY <1>1, <1>2, <1>6, <1>7, <1>8, LookSafe

LEMMA GatherSafe ==
  ASSUME CollectionInv, NEW t \in Threads, Gather(t)
  PROVE  CollectionInv'
<1>1. PICK do \in {"first", "union", "inter", "diff"} :
        /\ Calls(t, do)
        /\ LET l == IF do = "first" THEN Stored(Hash(t)) ELSE Combined(do, list[t], Stored(Hash(t)))
               p == CASE l # <<>> \/ do = "union" -> Rest(t)
                      [] l = <<>> /\ do # "union" -> ClearNext(t)
           IN Goes(t, p) /\ Keeps(t, p, NoValue, l)
  BY DEF Gather
<1>2. UNCHANGED <<kind, store, ops, faults, kept>>
  BY DEF Gather
<1>3. PICK p, l : p \in {Rest(t), ClearNext(t)} /\ Goes(t, p) /\ Keeps(t, p, NoValue, l)
  <2> DEFINE l == IF do = "first" THEN Stored(Hash(t)) ELSE Combined(do, list[t], Stored(Hash(t)))
             p == CASE l # <<>> \/ do = "union" -> Rest(t)
                    [] l = <<>> /\ do # "union" -> ClearNext(t)
  <2>1. Goes(t, p) /\ Keeps(t, p, NoValue, l)
    BY <1>1
  <2> HIDE DEF l
  <2>2. p \in {Rest(t), ClearNext(t)}
    OBVIOUS
  <2> HIDE DEF p
  <2> QED
    BY <2>1, <2>2
<1>4. prog[t] # <<>> /\ Now(t).do \in {"first", "union", "inter", "diff"}
  BY <1>1 DEF Calls
<1>5. Rest(t) \in Seq(Proper(kind))
  BY <1>4, Current
<1>6. ClearNext(t) \in Seq(Proper(kind))
  <2>1. CASE Rest(t) # <<>>
    <3>1. Head(Rest(t)) \in Proper(kind)
      BY <1>5, <2>1, HeadTailProperties
    <3>2. <<Head(Rest(t))>> \in Seq(Proper(kind)) /\ <<>> \in Seq(Proper(kind))
      BY <3>1, OneCall, EmptySeq
    <3> QED
      BY <3>2 DEF ClearNext
  <2>2. CASE Rest(t) = <<>>
    BY <2>2, EmptySeq DEF ClearNext
  <2> QED
    BY <2>1, <2>2
<1>7. p \in Seq(Proper(kind)) /\ NoValue \in OfKind(kind)
  BY <1>3, <1>5, <1>6 DEF OfKind
<1>8. cmd[t].op # "smove"
  BY <1>4, MoveAhead
<1> QED
  BY <1>2, <1>3, <1>4, <1>7, <1>8, LookSafe

LEMMA FillSafe ==
  ASSUME CollectionInv, NEW t \in Threads, Fill(t)
  PROVE  CollectionInv'
<1>1. PICK fs, p : /\ fs \in SUBSET Fields /\ p = Each("hset_member", Now(t).name, fs)
                   /\ Goes(t, p) /\ Keeps(t, p, NoValue, <<>>)
  BY DEF Fill
<1>2. Calls(t, "fill") /\ UNCHANGED <<kind, store, ops, faults, kept>>
  BY DEF Fill
<1>3. prog[t] # <<>> /\ Now(t).do = "fill"
  BY <1>2 DEF Calls
<1>4. Now(t) \in Instruction /\ Now(t) \in Proper(kind)
  BY <1>3, Current
<1>5. Now(t).name \in Names /\ kind = "set"
  BY <1>3, <1>4 DEF Instruction, Proper
<1>6. p \in Seq(Proper(kind)) /\ NoValue \in OfKind(kind)
  BY <1>1, <1>5, EachTyping DEF OfKind
<1>7. cmd[t].op # "smove"
  BY <1>3, MoveAhead
<1> QED
  BY <1>1, <1>2, <1>3, <1>6, <1>7, LookSafe

-----------------------------------------------------------------------------
(* The invariant *)

\* After a kill only what is in some set must be kept.
LEMMA KilledSafe ==
  ASSUME CollectionInv, Killed
  PROVE  CollectionInv'
<1>1. NoValue \in OfKind(kind) /\ Empty \in [Names -> [Fields -> OfKind(kind)]]
  BY DEF OfKind, Empty
<1>2. <<>> \in Seq(Instruction) /\ <<>> \in Seq(Proper(kind))
  BY EmptySeq
<1>3. TypeOK'
  BY <1>1, <1>2, CollectionAssumption DEF CollectionInv, TypeOK, Killed
<1>4. ProgOK' /\ MoveOK'
  BY <1>2 DEF Killed, ProgOK, MoveOK
<1>5. MembersKept'
  BY DEF Killed, MembersKept
<1> QED
  BY <1>3, <1>4, <1>5 DEF CollectionInv

LEMMA CollectionStart == Init => CollectionInv
<1> SUFFICES ASSUME Init PROVE CollectionInv
  OBVIOUS
<1>1. kind \in Kinds /\ store \in [Names -> [Fields -> OfKind(kind)]]
  BY CollectionAssumption DEF Init
<1>2. NoValue \in OfKind(kind) /\ Empty \in [Names -> [Fields -> OfKind(kind)]]
  BY DEF OfKind, Empty
<1>3. <<>> \in Seq(Instruction) /\ <<>> \in Seq(Proper(kind))
  BY EmptySeq
<1>4. kind = "set" => \A n \in Names, f \in Fields : store[n][f] \in {Itself(f), NoValue}
  BY <1>1, CollectionAssumption DEF Init
<1>5. TypeOK
  BY <1>1, <1>2, <1>3, <1>4, CollectionAssumption DEF TypeOK, Init
<1>6. ProgOK /\ MoveOK
  BY <1>3 DEF Init, ProgOK, MoveOK
<1>7. MembersKept
  BY DEF Init, MembersKept
<1> QED
  BY <1>5, <1>6, <1>7 DEF CollectionInv

LEMMA CollectionStep == CollectionInv /\ [Next]_vars => CollectionInv'
<1> SUFFICES ASSUME CollectionInv, [Next]_vars PROVE CollectionInv'
  OBVIOUS
<1>1. CASE Killed
  BY <1>1, KilledSafe
<1>2. ASSUME NEW t \in Threads, HashCommand(t) \/ SetCommand(t) \/ ZSetCommand(t) \/ FlushDb(t)
      PROVE  CollectionInv'
  BY <1>2, HashStarts, SetStarts, ZSetStarts, FlushStarts
<1>3. ASSUME NEW t \in Threads, Work(t) PROVE CollectionInv'
  <2>1. CASE Hset(t) \/ HsetMember(t) \/ Hdel(t) \/ Add(t)
    BY <2>1, HsetSafe, HsetMemberSafe, HdelSafe, AddSafe
  <2>2. CASE Hexists(t) \/ GetNumber(t) \/ GetMember(t) \/ GetScore(t)
    BY <2>2, HexistsSafe, GetNumberSafe, GetMemberSafe, GetScoreSafe
  <2>3. CASE Hgetall(t) \/ Gather(t) \/ Fill(t)
    BY <2>3, HgetallSafe, GatherSafe, FillSafe
  <2> QED
    BY <1>3, <2>1, <2>2, <2>3 DEF Work
<1>4. CASE UNCHANGED vars
  <2>1. /\ UNCHANGED <<kind, store, prog, cmd, got, list, ops, faults, before, disturbed, kept>>
    BY <1>4 DEF vars, locals, history
  <2>2. TypeOK'
    BY <2>1 DEF CollectionInv, TypeOK
  <2>3. ProgOK' /\ MoveOK'
    BY <2>1 DEF CollectionInv, ProgOK, MoveOK
  <2>4. MembersKept'
    BY <2>1 DEF CollectionInv, MembersKept, Carries, Now
  <2> QED
    BY <2>2, <2>3, <2>4 DEF CollectionInv
<1> QED
  BY <1>1, <1>2, <1>3, <1>4 DEF Next

\* What each call of a program still to be made may be, where an SMOVE stands, the
\* types, and that no member is lost: all of it holds after every call and every kill.
THEOREM CollectionInvariant == Spec => []CollectionInv
<1>1. Init => CollectionInv
  BY CollectionStart
<1>2. CollectionInv /\ [Next]_vars => CollectionInv'
  BY CollectionStep
<1> QED
  BY <1>1, <1>2, PTL DEF Spec

\* The records of each type are of that type, and the record of a set's member holds
\* the member, whatever commands interleave (makeHashKey, hset of SADD and SMOVE).
THEOREM CollectionTyping == Spec => []TypeOK
<1>1. CollectionInv => TypeOK
  BY DEF CollectionInv
<1> QED
  BY <1>1, CollectionInvariant, PTL

\* SMOVE loses no member, however many threads move it (ZSetCmdHandler smove).
THEOREM CollectionMembers == Spec => []MembersKept
<1>1. CollectionInv => MembersKept
  BY DEF CollectionInv
<1> QED
  BY <1>1, CollectionInvariant, PTL

-----------------------------------------------------------------------------
(* Least elements *)

LEMMA MinimalSubset ==
  ASSUME NEW S, IsFiniteSet(S), NEW Bad, Bad \subseteq SUBSET S, Bad # {}
  PROVE  \E T \in Bad : \A U \in Bad : U \subseteq T => U = T
<1>1. IsWellFoundedOn(StrictSubsetOrdering(S), SUBSET S)
  BY FS_StrictSubsetOrderingWellFounded, FS_FiniteSubsetsOfFinite
<1>2. \E T \in Bad : \A U \in Bad : ~(<<U, T>> \in StrictSubsetOrdering(S))
  BY <1>1, WFMin
<1> QED
  BY <1>2 DEF StrictSubsetOrdering

LEMMA LeastNat ==
  ASSUME NEW Bad, Bad \subseteq Nat, Bad # {}
  PROVE  \E n \in Bad : \A m \in Bad : n <= m
<1>1. PICK b \in Bad : TRUE
  OBVIOUS
<1> DEFINE Below == {0..n : n \in {m \in Bad : m <= b}}
<1>2. IsFiniteSet(0..b)
  BY <1>1, FS_Interval
<1>3. Below \subseteq SUBSET (0..b) /\ Below # {}
  BY <1>1
<1>4. PICK T \in Below : \A U \in Below : U \subseteq T => U = T
  <2> DEFINE S == 0..b
  <2>1. IsFiniteSet(S) /\ Below \subseteq SUBSET S /\ Below # {}
    BY <1>2, <1>3
  <2> HIDE DEF Below, S
  <2> QED
    BY <2>1, MinimalSubset
<1>5. PICK n \in Bad : n <= b /\ T = 0..n
  BY <1>4
<1>6. ASSUME NEW m \in Bad, m < n
      PROVE  FALSE
  <2>1. 0..m \in Below /\ 0..m \subseteq T
    BY <1>1, <1>5, <1>6
  <2>2. 0..m = 0..n
    BY <1>4, <1>5, <2>1
  <2>3. n \in 0..n /\ n \notin 0..m
    BY <1>6
  <2> QED
    BY <2>2, <2>3
<1> QED
  BY <1>5, <1>6

-----------------------------------------------------------------------------
(* Functions that call themselves *)

\* What F makes of an argument depends on no value at an argument of the same or
\* of a larger measure.
Founded(F, D, X, m) ==
  \A x \in D : \A g, h \in [D -> X] :
    (\A y \in D : m[y] < m[x] => g[y] = h[y]) => F[x][g] = F[x][h]

Solves(f, F, D) == \A x \in D : f[x] = F[x][f]

LEMMA Recursion ==
  ASSUME NEW D, NEW X, X # {}, NEW m \in [D -> Nat], NEW b \in Nat, \A x \in D : m[x] <= b,
         NEW F \in [D -> [[D -> X] -> X]], Founded(F, D, X, m)
  PROVE  \E f \in [D -> X] : Solves(f, F, D)
<1> DEFINE Good(k, g) == g \in [D -> X] /\ \A x \in D : m[x] < k => g[x] = F[x][g]
           Has(k) == \E g : Good(k, g)
           Bad == {k \in Nat : ~Has(k)}
<1>1. ASSUME NEW k \in Bad, \A l \in Bad : k <= l
      PROVE  FALSE
  <2>1. k \in Nat /\ ~Has(k)
    BY <1>1
  <2>2. CASE k = 0
    <3>1. PICK y \in X : TRUE
      OBVIOUS
    <3>2. Good(0, [x \in D |-> y])
      BY <3>1
    <3> HIDE DEF Good
    <3> QED
      BY <2>1, <2>2, <3>2
  <2>3. CASE k # 0
    <3>1. k - 1 \in Nat /\ k - 1 \notin Bad
      BY <1>1, <2>1, <2>3
    <3>2. PICK g : Good(k - 1, g)
      <4>1. Has(k - 1)
        <5> HIDE DEF Has
        <5> QED
          BY <3>1
      <4> HIDE DEF Good
      <4> QED
        BY <4>1
    <3> DEFINE h == [x \in D |-> F[x][g]]
    <3>3. h \in [D -> X] /\ g \in [D -> X] /\ \A x \in D : h[x] = F[x][g]
      BY <3>2
    <3> HIDE DEF h
    <3>4. \A x \in D : m[x] < k - 1 => h[x] = g[x]
      BY <3>2, <3>3
    <3>5. ASSUME NEW x \in D, m[x] < k
          PROVE  h[x] = F[x][h]
      <4>1. \A y \in D : m[y] < m[x] => g[y] = h[y]
        BY <2>1, <3>4, <3>5
      <4>2. F[x][g] = F[x][h]
        BY <3>3, <4>1 DEF Founded
      <4> QED
        BY <3>3, <4>2
    <3>6. Good(k, h)
      BY <3>3, <3>5
    <3> HIDE DEF Good
    <3> QED
      BY <2>1, <3>6
  <2> QED
    BY <2>2, <2>3
<1>2. Bad = {}
  <2>1. Bad \subseteq Nat
    OBVIOUS
  <2> HIDE DEF Bad
  <2> QED
    BY <1>1, <2>1, LeastNat
<1>3. PICK g : Good(b + 1, g)
  <2>1. b + 1 \in Nat /\ b + 1 \notin Bad
    <3> HIDE DEF Bad
    <3> QED
      BY <1>2
  <2>2. Has(b + 1)
    <3> HIDE DEF Has
    <3> QED
      BY <2>1
  <2> HIDE DEF Good
  <2> QED
    BY <2>2
<1>4. \A x \in D : m[x] < b + 1
  OBVIOUS
<1> QED
  BY <1>3, <1>4 DEF Solves

\* What holds of an argument when it holds of those of a smaller measure holds of all.
LEMMA ByMeasure ==
  ASSUME NEW D, NEW m \in [D -> Nat], NEW P,
         \A x \in D : (\A y \in D : m[y] < m[x] => y \in P) => x \in P
  PROVE  D \subseteq P
<1> DEFINE Bad == {m[x] : x \in D \ P}
<1>1. ASSUME Bad # {}
      PROVE  FALSE
  <2>1. PICK n \in Bad : \A l \in Bad : n <= l
    <3>1. Bad \subseteq Nat
      OBVIOUS
    <3> HIDE DEF Bad
    <3> QED
      BY <1>1, <3>1, LeastNat
  <2>2. PICK x \in D \ P : n = m[x]
    BY <2>1
  <2>3. PICK y \in D : m[y] < m[x] /\ y \notin P
    BY <2>2
  <2>4. m[y] \in Bad
    BY <2>3
  <2>5. m[x] <= m[y] /\ m[x] \in Nat /\ m[y] \in Nat
    BY <2>1, <2>2, <2>3, <2>4
  <2> QED
    BY <2>3, <2>5
<1> QED
  BY <1>1

-----------------------------------------------------------------------------
(* Sets as lists *)

\* Strict and total on S.
StrictOrder(S, R) ==
  /\ \A x \in S : <<x, x>> \notin R
  /\ \A x, y \in S : x = y \/ <<x, y>> \in R \/ <<y, x>> \in R
  /\ \A x, y, z \in S : <<x, y>> \in R /\ <<y, z>> \in R => <<x, z>> \in R

InOrderOf(s, R) == \A i, j \in DOMAIN s : i < j => <<s[i], s[j]>> \in R

LEMMA OrderedList ==
  ASSUME NEW S, IsFiniteSet(S), NEW R, StrictOrder(S, R)
  PROVE  \E s \in [1..Cardinality(S) -> S] : InOrderOf(s, R)
<1> DEFINE n == Cardinality(S)
           Below(x) == {y \in S : <<y, x>> \in R} \cup {x}
           rank == [x \in S |-> Cardinality(Below(x))]
<1>1. n \in Nat /\ IsFiniteSet(1..n) /\ Cardinality(1..n) = n
  <2>1. n \in Nat
    BY FS_CardinalityType
  <2> HIDE DEF n
  <2> QED
    BY <2>1, FS_Interval
<1>2. ASSUME NEW x \in S
      PROVE  rank[x] \in 1..n /\ IsFiniteSet(Below(x))
  <2>1. Below(x) \in SUBSET S /\ x \in Below(x)
    OBVIOUS
  <2> HIDE DEF Below
  <2>2. IsFiniteSet(Below(x)) /\ Cardinality(Below(x)) <= n
    BY <2>1, FS_Subset
  <2>3. Cardinality(Below(x)) \in Nat /\ Cardinality(Below(x)) # 0
    BY <2>1, <2>2, FS_CardinalityType, FS_EmptySet
  <2> HIDE DEF n
  <2>4. Cardinality(Below(x)) \in 1..n
    BY <1>1, <2>2, <2>3
  <2> QED
    BY <2>2, <2>4
<1>3. ASSUME NEW x \in S, NEW y \in S, <<x, y>> \in R
      PROVE  rank[x] < rank[y]
  <2>1. Below(x) \in SUBSET Below(y) /\ y \in Below(y) /\ y \notin Below(x)
    BY <1>3 DEF StrictOrder
  <2>2. IsFiniteSet(Below(y)) /\ rank[x] \in Nat /\ rank[y] \in Nat
    BY <1>1, <1>2
  <2>3. rank[x] = Cardinality(Below(x)) /\ rank[y] = Cardinality(Below(y))
    OBVIOUS
  <2> HIDE DEF Below, rank
  <2>4. Cardinality(Below(x)) <= Cardinality(Below(y)) /\ Cardinality(Below(x)) # Cardinality(Below(y))
    BY <2>1, <2>2, FS_Subset
  <2> QED
    BY <2>2, <2>3, <2>4
<1> HIDE DEF rank, n
<1>4. rank \in Injection(S, 1..n)
  <2>1. rank \in [S -> 1..n]
    BY <1>2 DEF rank
  <2>2. \A x, y \in S : rank[x] = rank[y] => x = y
    <3> SUFFICES ASSUME NEW x \in S, NEW y \in S, rank[x] = rank[y], x # y
                 PROVE  FALSE
      OBVIOUS
    <3>1. <<x, y>> \in R \/ <<y, x>> \in R
      BY DEF StrictOrder
    <3>2. rank[x] < rank[y] \/ rank[y] < rank[x]
      BY <1>3, <3>1
    <3>3. rank[x] \in 1..n
      BY <2>1
    <3> QED
      BY <1>1, <3>2, <3>3
  <2> QED
    BY <2>1, <2>2 DEF Injection, IsInjective
<1>5. rank \in Surjection(S, 1..n)
  BY <1>1, <1>4, FS_Injection DEF n
<1> DEFINE s == [i \in 1..n |-> CHOOSE x \in S : rank[x] = i]
<1>6. \A i \in 1..n : \E x \in S : rank[x] = i
  BY <1>5 DEF Surjection
<1>7. \A i \in 1..n : s[i] \in S /\ rank[s[i]] = i
  BY <1>6
<1>8. s \in [1..n -> S]
  <2>1. s = [i \in 1..n |-> s[i]]
    OBVIOUS
  <2> HIDE DEF s
  <2> QED
    BY <1>7, <2>1
<1> HIDE DEF s
<1>9. ASSUME NEW i \in 1..n, NEW j \in 1..n, i < j
      PROVE  <<s[i], s[j]>> \in R
  <2>1. s[i] \in S /\ s[j] \in S /\ rank[s[i]] = i /\ rank[s[j]] = j
    BY <1>7
  <2>2. s[i] # s[j] /\ ~(rank[s[j]] < rank[s[i]])
    BY <1>1, <1>9, <2>1
  <2>3. <<s[j], s[i]>> \notin R
    BY <1>3, <2>1, <2>2
  <2> QED
    BY <2>1, <2>2, <2>3 DEF StrictOrder
<1> QED
  BY <1>8, <1>9 DEF InOrderOf, n

\* Listed lists every element once.
Lists(s, S, R) ==
  /\ s \in Seq(S) /\ Len(s) = Cardinality(S) /\ Range(s) = S
  /\ InOrderOf(s, R)
  /\ \A i, j \in 1..Len(s) : s[i] = s[j] => i = j

LEMMA ListedIs ==
  ASSUME NEW S, IsFiniteSet(S), NEW R, StrictOrder(S, R)
  PROVE  Lists(Listed(S, R), S, R)
<1> DEFINE s == Listed(S, R)
           n == Cardinality(S)
<1>1. s \in [1..n -> S] /\ InOrderOf(s, R)
  BY OrderedList DEF Listed, InOrderOf
<1>2. n \in Nat /\ IsFiniteSet(1..n) /\ Cardinality(1..n) = n
  <2>1. n \in Nat
    BY FS_CardinalityType
  <2> HIDE DEF n
  <2> QED
    BY <2>1, FS_Interval
<1> HIDE DEF s
<1>3. \A i, j \in 1..n : i < j => s[i] # s[j]
  BY <1>1 DEF InOrderOf, StrictOrder
<1>4. \A i, j \in 1..n : s[i] = s[j] => i = j
  <2> HIDE DEF n
  <2> QED
    BY <1>2, <1>3
<1>5. s \in Injection(1..n, S)
  BY <1>1, <1>4 DEF Injection, IsInjective
<1>6. s \in Surjection(1..n, S)
  <2>1. Cardinality(1..n) = Cardinality(S)
    BY <1>2
  <2> HIDE DEF n
  <2> QED
    BY <1>5, <2>1, FS_Injection
<1>7. Range(s) = S
  BY <1>1, <1>6 DEF Range, Surjection
<1>8. s \in Seq(S) /\ Len(s) = n
  <2> HIDE DEF n
  <2> QED
    BY <1>1, <1>2
<1> QED
  BY <1>1, <1>4, <1>7, <1>8 DEF Lists, s

-----------------------------------------------------------------------------
(* Selections *)

OnlyBody(s, T, d) ==
  [i \in 0..Len(s) |-> IF i = 0 THEN <<>>
                       ELSE IF s[i] \in T THEN Append(d[i - 1], s[i]) ELSE d[i - 1]]

LEMMA OnlyRuns ==
  ASSUME NEW S, NEW s \in Seq(S), NEW T
  PROVE  \E d : d = OnlyBody(s, T, d) /\ Only(s, T) = d[Len(s)]
<1> DEFINE D == 0..Len(s)
           X == Seq(S)
           m == [i \in D |-> i]
           Step(i, g) == IF i = 0 THEN <<>> ELSE IF s[i] \in T THEN Append(g[i - 1], s[i]) ELSE g[i - 1]
           F == [i \in D |-> [g \in [D -> X] |-> Step(i, g)]]
<1>1. Len(s) \in Nat /\ X # {} /\ m \in [D -> Nat] /\ \A i \in D : m[i] <= Len(s)
  BY EmptySeq
<1>2. ASSUME NEW i \in D, NEW g \in [D -> X]
      PROVE  Step(i, g) \in X
  <2>1. i # 0 => i - 1 \in D /\ s[i] \in S
    BY <1>1
  <2>2. i # 0 => g[i - 1] \in X
    BY <2>1
  <2> HIDE DEF D
  <2> QED
    BY <2>1, <2>2, EmptySeq
<1>3. F \in [D -> [[D -> X] -> X]]
  <2> HIDE DEF D, X, Step
  <2> QED
    BY <1>2
<1>4. ASSUME NEW i \in D, NEW g \in [D -> X], NEW h \in [D -> X], \A j \in D : m[j] < m[i] => g[j] = h[j]
      PROVE  F[i][g] = F[i][h]
  <2>1. i # 0 => g[i - 1] = h[i - 1]
    <3>1. i # 0 => i - 1 \in D /\ i - 1 < i
      BY <1>1
    <3> QED
      BY <1>4, <3>1
  <2>2. Step(i, g) = Step(i, h)
    BY <2>1
  <2>3. F[i][g] = Step(i, g) /\ F[i][h] = Step(i, h)
    <3> HIDE DEF D, X, Step
    <3> QED
      OBVIOUS
  <2> QED
    BY <2>2, <2>3
<1>5. PICK f \in [D -> X] : Solves(f, F, D)
  <2>1. Founded(F, D, X, m)
    <3> HIDE DEF D, X, F, m
    <3> QED
      BY <1>4 DEF Founded
  <2> HIDE DEF D, X, F, m
  <2> QED
    BY <1>1, <1>3, <2>1, Recursion
<1>6. f = OnlyBody(s, T, f)
  <2>1. \A i \in D : f[i] = Step(i, f)
    <3> HIDE DEF D, X, Step
    <3> QED
      BY <1>5 DEF Solves
  <2>2. f = [i \in D |-> f[i]]
    BY <1>5
  <2>3. f = [i \in D |-> Step(i, f)]
    <3> HIDE DEF D, X, Step
    <3> QED
      BY <2>1, <2>2
  <2> QED
    BY <2>3 DEF OnlyBody
<1> DEFINE d == CHOOSE g : g = OnlyBody(s, T, g)
<1>7. d = OnlyBody(s, T, d)
  <2> HIDE DEF F
  <2> QED
    BY <1>6, Zenon
<1>8. Only(s, T) = d[Len(s)]
  BY Zenon DEF Only, OnlyBody
<1> HIDE DEF d
<1> QED
  BY <1>7, <1>8

\* e thins out s: what comes first in e comes first in s.
Thins(e, s) ==
  \A k, l \in 1..Len(e) : k < l => \E u, v \in 1..Len(s) : u < v /\ e[k] = s[u] /\ e[l] = s[v]

Distinct(s) == \A i, j \in 1..Len(s) : s[i] = s[j] => i = j

\* What Only has after i elements.
OnlyOk(e, s, S, T, i) ==
  /\ e \in Seq(S) /\ Range(e) = {s[k] : k \in 1..i} \cap T
  /\ \A k \in 1..Len(e) : \E u \in 1..i : e[k] = s[u]
  /\ \A k, l \in 1..Len(e) : k < l => \E u, v \in 1..i : u < v /\ e[k] = s[u] /\ e[l] = s[v]

LEMMA OnlyIs ==
  ASSUME NEW S, NEW s \in Seq(S), NEW T
  PROVE  LET e == Only(s, T)
         IN e \in Seq(S) /\ Range(e) = Range(s) \cap T /\ Thins(e, s)
<1>1. PICK d : d = OnlyBody(s, T, d) /\ Only(s, T) = d[Len(s)]
  BY OnlyRuns
<1> DEFINE n == Len(s)
           First(i) == {s[k] : k \in 1..i} \cap T
           P == {i \in 0..n : OnlyOk(d[i], s, S, T, i)}
           m == [i \in 0..n |-> i]
<1>2. n \in Nat /\ m \in [0..n -> Nat]
  OBVIOUS
<1>3. ASSUME NEW i \in 0..n, \A j \in 0..n : m[j] < m[i] => j \in P
      PROVE  i \in P
  <2>1. CASE i = 0
    <3>1. d[0] = <<>>
      BY <1>1, <1>2 DEF OnlyBody
    <3>2. First(0) = {} /\ Range(<<>>) = {} /\ <<>> \in Seq(S) /\ Len(<<>>) = 0
      BY EmptySeq DEF Range
    <3>3. OnlyOk(<<>>, s, S, T, 0)
      BY <3>2 DEF OnlyOk
    <3> QED
      BY <1>2, <2>1, <3>1, <3>3
  <2>2. CASE i # 0
    <3> DEFINE c == d[i - 1]
               e == d[i]
    <3>1. i - 1 \in 0..n /\ i \in 1..n /\ s[i] \in S
      BY <1>2, <2>2
    <3>2. OnlyOk(c, s, S, T, i - 1)
      <4>1. i - 1 \in P
        <5>1. m[i - 1] < m[i]
          BY <1>2, <3>1
        <5> HIDE DEF P, m
        <5> QED
          BY <1>3, <3>1, <5>1
      <4> QED
        BY <4>1
    <3>3. e = IF s[i] \in T THEN Append(c, s[i]) ELSE c
      BY <1>1, <2>2 DEF OnlyBody
    <3>4. First(i) = IF s[i] \in T THEN First(i - 1) \cup {s[i]} ELSE First(i - 1)
      <4>1. 1..i = (1..i - 1) \cup {i}
        BY <3>1
      <4> QED
        BY <4>1
    <3>5. /\ c \in Seq(S) /\ Range(c) = First(i - 1)
          /\ \A k \in 1..Len(c) : \E u \in 1..i - 1 : c[k] = s[u]
          /\ \A k, l \in 1..Len(c) : k < l =>
               \E u, v \in 1..i - 1 : u < v /\ c[k] = s[u] /\ c[l] = s[v]
      BY <3>2 DEF OnlyOk
    <3> HIDE DEF c, e
    <3> SUFFICES OnlyOk(e, s, S, T, i)
      BY <3>1 DEF e
    <3> HIDE DEF P, m, First
    <3>6. \A u \in 1..i - 1 : u \in 1..i /\ u < i
      BY <3>1
    <3>7. CASE s[i] \notin T
      <4>1. /\ \A k \in 1..Len(c) : \E u \in 1..i : c[k] = s[u]
            /\ \A k, l \in 1..Len(c) : k < l =>
                 \E u, v \in 1..i : u < v /\ c[k] = s[u] /\ c[l] = s[v]
        <5> HIDE DEF n
        <5>1. 1..i - 1 \subseteq 1..i
          BY <3>6
        <5> QED
          BY <3>5, <5>1
      <4>2. e = c /\ First(i) = First(i - 1)
        BY <3>3, <3>4, <3>7
      <4>3. e \in Seq(S) /\ Range(e) = First(i)
        BY <3>5, <4>2
      <4>4. /\ \A k \in 1..Len(e) : \E u \in 1..i : e[k] = s[u]
            /\ \A k, l \in 1..Len(e) : k < l => \E u, v \in 1..i : u < v /\ e[k] = s[u] /\ e[l] = s[v]
        <5> HIDE DEF n
        <5> QED
          BY <4>1, <4>2
      <4> QED
        BY <4>3, <4>4 DEF OnlyOk, First
    <3>8. CASE s[i] \in T
      <4> DEFINE z == Len(c)
      <4>1. /\ e = Append(c, s[i]) /\ First(i) = First(i - 1) \cup {s[i]}
        BY <3>3, <3>4, <3>8
      <4>2. /\ z \in Nat /\ e \in Seq(S) /\ Len(e) = z + 1
            /\ \A k \in 1..z : e[k] = c[k]
            /\ e[z + 1] = s[i]
        BY <3>1, <3>5, <4>1
      <4>3. DOMAIN c = 1..z /\ DOMAIN e = 1..z + 1
        BY <3>5, <4>2
      <4> HIDE DEF z
      <4>4. Range(e) = Range(c) \cup {s[i]}
        <5>1. 1..z + 1 = (1..z) \cup {z + 1}
          BY <4>2
        <5> QED
          BY <4>2, <4>3, <5>1 DEF Range
      <4>5. ASSUME NEW k \in 1..z + 1
            PROVE  \E u \in 1..i : e[k] = s[u]
        <5>1. CASE k = z + 1
          BY <3>1, <4>2, <5>1
        <5>2. CASE k # z + 1
          <6>1. k \in 1..z
            BY <4>2, <5>2
          <6>2. PICK u \in 1..i - 1 : c[k] = s[u]
            BY <3>5, <6>1 DEF z
          <6>3. u \in 1..i /\ e[k] = s[u]
            BY <3>6, <4>2, <6>1, <6>2
          <6> QED
            BY <6>3
        <5> QED
          BY <5>1, <5>2
      <4>6. ASSUME NEW k \in 1..z + 1, NEW l \in 1..z + 1, k < l
            PROVE  \E u, v \in 1..i : u < v /\ e[k] = s[u] /\ e[l] = s[v]
        <5>1. k \in 1..z
          BY <4>2, <4>6
        <5>2. CASE l = z + 1
          <6>1. PICK u \in 1..i - 1 : c[k] = s[u]
            BY <3>5, <5>1 DEF z
          <6>2. u \in 1..i /\ u < i /\ e[k] = s[u] /\ e[l] = s[i] /\ i \in 1..i
            BY <3>1, <3>6, <4>2, <5>1, <5>2, <6>1
          <6> QED
            BY <6>2
        <5>3. CASE l # z + 1
          <6>1. l \in 1..z
            BY <4>2, <5>3
          <6>2. PICK u \in 1..i - 1, v \in 1..i - 1 : u < v /\ c[k] = s[u] /\ c[l] = s[v]
            BY <3>5, <4>6, <5>1, <6>1 DEF z
          <6>3. u \in 1..i /\ v \in 1..i /\ e[k] = s[u] /\ e[l] = s[v]
            BY <3>6, <4>2, <5>1, <6>1, <6>2
          <6> QED
            BY <6>2, <6>3
        <5> QED
          BY <5>2, <5>3
      <4>7. Range(e) = First(i)
        BY <3>5, <4>1, <4>4
      <4> QED
        BY <4>2, <4>5, <4>6, <4>7 DEF OnlyOk, First
    <3> QED
      BY <3>7, <3>8
  <2> QED
    BY <2>1, <2>2
<1>4. n \in P
  <2>1. 0..n \subseteq P
    <3> DEFINE D == 0..n
    <3>1. m \in [D -> Nat] /\ \A i \in D : (\A j \in D : m[j] < m[i] => j \in P) => i \in P
      <4> HIDE DEF P, m
      <4> QED
        BY <1>2, <1>3
    <3> HIDE DEF D, P, m
    <3> QED
      <4>1. D \subseteq P
        BY <3>1, ByMeasure
      <4> QED
        BY <4>1 DEF D
  <2>2. n \in 0..n
    BY <1>2
  <2> HIDE DEF P
  <2> QED
    BY <2>1, <2>2
<1>5. OnlyOk(d[n], s, S, T, n)
  BY <1>4
<1>6. First(n) = Range(s) \cap T
  BY DEF Range
<1> QED
  BY <1>1, <1>5, <1>6 DEF Thins, OnlyOk

\* What thins out a list without repetitions and in some order is one itself.
LEMMA ThinsKeeps ==
  ASSUME NEW S, NEW s \in Seq(S), NEW e \in Seq(S), Thins(e, s)
  PROVE  /\ Distinct(s) => Distinct(e)
         /\ \A R : InOrderOf(s, R) => InOrderOf(e, R)
<1>0. Len(s) \in Nat /\ Len(e) \in Nat /\ DOMAIN s = 1..Len(s) /\ DOMAIN e = 1..Len(e)
  OBVIOUS
<1>1. ASSUME Distinct(s)
      PROVE  Distinct(e)
  <2>1. \A k, l \in 1..Len(e) : k < l => e[k] # e[l]
    <3> SUFFICES ASSUME NEW k \in 1..Len(e), NEW l \in 1..Len(e), k < l, e[k] = e[l]
                 PROVE  FALSE
      OBVIOUS
    <3>1. PICK u \in 1..Len(s), v \in 1..Len(s) : u < v /\ e[k] = s[u] /\ e[l] = s[v]
      BY DEF Thins
    <3> QED
      <4>1. s[u] = s[v]
        BY <3>1
      <4>2. u = v
        BY <1>1, <4>1 DEF Distinct
      <4>3. u \in Int
        BY <1>0
      <4> QED
        BY <3>1, <4>2, <4>3
  <2> QED
    BY <1>0, <2>1 DEF Distinct
<1>2. ASSUME NEW R, InOrderOf(s, R)
      PROVE  InOrderOf(e, R)
  <2> SUFFICES ASSUME NEW k \in DOMAIN e, NEW l \in DOMAIN e, k < l
               PROVE  <<e[k], e[l]>> \in R
    BY DEF InOrderOf
  <2>1. PICK u \in 1..Len(s), v \in 1..Len(s) : u < v /\ e[k] = s[u] /\ e[l] = s[v]
    BY <1>0 DEF Thins
  <2> QED
    BY <1>0, <1>2, <2>1 DEF InOrderOf
<1> QED
  BY <1>1, <1>2

-----------------------------------------------------------------------------
(* std::set_difference and std::set_intersection *)

\* The elements from place i on.
From(s, i) == {s[k] : k \in i..Len(s)}

\* In the order that the algorithms compare by.
Rising(s) == \A k, l \in 1..Len(s) : k < l => s[k] < s[l]

LEMMA FromStep ==
  ASSUME NEW s \in Seq(Nat), NEW i \in 1..Len(s)
  PROVE  /\ From(s, i) = {s[i]} \cup From(s, i + 1) /\ s[i] \in Nat
         /\ s[i] \in Range(s) /\ From(s, i + 1) \subseteq Nat
         /\ Rising(s) => \A x \in From(s, i + 1) : s[i] < x
<1>1. Len(s) \in Nat /\ DOMAIN s = 1..Len(s) /\ \A k \in 1..Len(s) : s[k] \in Nat
  OBVIOUS
<1> DEFINE n == Len(s)
<1> HIDE DEF n
<1>2. i \in Nat /\ i..n = {i} \cup (i + 1..n) /\ i + 1..n \subseteq 1..n /\ \A k \in i + 1..n : i < k
  <2>1. n \in Nat /\ i \in 1..n
    BY <1>1 DEF n
  <2> QED
    BY <2>1
<1> QED
  BY <1>1, <1>2 DEF From, Rising, Range, n

LEMMA FromEnds ==
  ASSUME NEW s \in Seq(Nat)
  PROVE  From(s, Len(s) + 1) = {} /\ From(s, 1) = Range(s)
<1>1. Len(s) \in Nat /\ DOMAIN s = 1..Len(s)
  OBVIOUS
<1>2. Len(s) + 1..Len(s) = {}
  BY <1>1
<1> QED
  BY <1>1, <1>2 DEF From, Range

LEMMA RestOf ==
  ASSUME NEW S, NEW s \in Seq(S), S \subseteq Nat, NEW i \in 1..Len(s) + 1
  PROVE  LET e == SubSeq(s, i, Len(s))
         IN e \in Seq(S) /\ Range(e) = From(s, i) /\ (Rising(s) => Rising(e))
<1> DEFINE n == Len(s)
           e == SubSeq(s, i, n)
           z == n - i + 1
<1>1. n \in Nat /\ i \in Nat /\ z \in Nat /\ \A k \in i..n : s[k] \in S
  OBVIOUS
<1>2. e \in Seq(S) /\ Len(e) = z /\ \A k \in 1..z : e[k] = s[i + k - 1]
  <2>1. /\ SubSeq(s, i, n) \in Seq(S)
        /\ Len(SubSeq(s, i, n)) = (IF i <= n THEN n - i + 1 ELSE 0)
        /\ \A k \in 1..n - i + 1 : SubSeq(s, i, n)[k] = s[i + k - 1]
    <3>1. i \in Int /\ n \in Int
      BY <1>1
    <3> HIDE DEF n
    <3> QED
      BY <1>1, <3>1, SubSeqProperties
  <2>2. (IF i <= n THEN n - i + 1 ELSE 0) = z
    BY <1>1
  <2> QED
    BY <2>1, <2>2
<1> HIDE DEF e, z
<1>3. DOMAIN e = 1..z
  BY <1>2
<1>4. \A k \in 1..z : i + k - 1 \in i..n /\ i + k - 1 \in 1..n
  BY <1>1 DEF z
<1>5. \A l \in i..n : l - i + 1 \in 1..z /\ i + (l - i + 1) - 1 = l
  BY <1>1 DEF z
<1>6. Range(e) \subseteq From(s, i)
  BY <1>2, <1>3, <1>4 DEF Range, From
<1>7. From(s, i) \subseteq Range(e)
  <2> SUFFICES ASSUME NEW l \in i..n PROVE s[l] \in Range(e)
    BY DEF From
  <2>1. e[l - i + 1] = s[l] /\ l - i + 1 \in 1..z
    BY <1>2, <1>5
  <2> QED
    BY <1>3, <2>1 DEF Range
<1>8. ASSUME Rising(s)
      PROVE  Rising(e)
  <2> SUFFICES ASSUME NEW k \in 1..z, NEW l \in 1..z, k < l PROVE e[k] < e[l]
    BY <1>2 DEF Rising
  <2>1. i + k - 1 \in 1..n /\ i + l - 1 \in 1..n /\ i + k - 1 < i + l - 1
    BY <1>1, <1>4
  <2>2. s[i + k - 1] < s[i + l - 1]
    <3> DEFINE p == i + k - 1
               q == i + l - 1
    <3>1. p \in 1..Len(s) /\ q \in 1..Len(s) /\ p < q
      BY <2>1
    <3> HIDE DEF p, q
    <3>2. s[p] < s[q]
      BY <1>8, <3>1 DEF Rising
    <3> QED
      BY <3>2 DEF p, q
  <2> QED
    BY <1>2, <2>2
<1> QED
  BY <1>2, <1>6, <1>7, <1>8 DEF e

LEMMA InFront ==
  ASSUME NEW S, S \subseteq Nat, NEW s \in Seq(S), NEW x \in S
  PROVE  LET e == <<x>> \o s
         IN /\ e \in Seq(S) /\ Range(e) = {x} \cup Range(s)
            /\ Rising(s) /\ (\A y \in Range(s) : x < y) => Rising(e)
<1> DEFINE e == <<x>> \o s
           n == Len(s)
<1>1. n \in Nat /\ DOMAIN s = 1..n /\ \A k \in 1..n : s[k] \in S
  OBVIOUS
<1>2. e \in Seq(S) /\ Len(e) = n + 1 /\ e[1] = x /\ \A k \in 2..n + 1 : e[k] = s[k - 1]
  <2>1. <<x>> \in Seq(S) /\ Len(<<x>>) = 1 /\ <<x>>[1] = x
    OBVIOUS
  <2>2. /\ e \in Seq(S) /\ Len(e) = 1 + n
        /\ \A k \in 1..1 + n : e[k] = IF k <= 1 THEN <<x>>[k] ELSE s[k - 1]
    <3> DEFINE u == <<x>>
    <3>1. u \in Seq(S) /\ Len(u) = 1
      BY <2>1
    <3> HIDE DEF u
    <3>2. /\ u \o s \in Seq(S) /\ Len(u \o s) = 1 + n
          /\ \A k \in 1..1 + n : (u \o s)[k] = IF k <= 1 THEN u[k] ELSE s[k - 1]
      <4>1. /\ u \o s \in Seq(S) /\ Len(u \o s) = Len(u) + Len(s)
            /\ \A k \in 1..Len(u) + Len(s) :
                 (u \o s)[k] = IF k <= Len(u) THEN u[k] ELSE s[k - Len(u)]
        BY <3>1, ConcatProperties
      <4> QED
        BY <3>1, <4>1
    <3> QED
      BY <3>2 DEF u
  <2> HIDE DEF e
  <2>3. \A k \in 2..n + 1 : k \in 1..1 + n /\ ~(k <= 1)
    BY <1>1
  <2>4. 1 \in 1..1 + n /\ 1 <= 1
    BY <1>1
  <2> HIDE DEF n
  <2> QED
    BY <1>1, <2>1, <2>2, <2>3, <2>4
<1> HIDE DEF e, n
<1>3. DOMAIN e = 1..n + 1 /\ 1..n + 1 = {1} \cup (2..n + 1)
  BY <1>1, <1>2
<1>4. /\ \A k \in 1..n : k + 1 \in 2..n + 1 /\ k + 1 - 1 = k
      /\ \A k \in 2..n + 1 : k - 1 \in 1..n
  BY <1>1
<1>5. \A k \in 1..n : e[k + 1] = s[k] /\ k + 1 \in 1..n + 1
  BY <1>2, <1>3, <1>4
<1>6. Range(e) = {x} \cup Range(s)
  <2>1. Range(e) \subseteq {x} \cup Range(s)
    BY <1>1, <1>2, <1>3, <1>4 DEF Range
  <2>2. x \in Range(e)
    BY <1>2, <1>3 DEF Range
  <2>3. Range(s) \subseteq Range(e)
    BY <1>1, <1>3, <1>5 DEF Range
  <2> QED
    BY <2>1, <2>2, <2>3
<1>7. ASSUME Rising(s), \A y \in Range(s) : x < y
      PROVE  Rising(e)
  <2> SUFFICES ASSUME NEW k \in 1..n + 1, NEW l \in 1..n + 1, k < l PROVE e[k] < e[l]
    BY <1>2 DEF Rising
  <2>1. l \in 2..n + 1 /\ l - 1 \in 1..n /\ e[l] = s[l - 1]
    BY <1>1, <1>2
  <2>2. CASE k = 1
    <3>1. s[l - 1] \in Range(s)
      BY <1>1, <2>1 DEF Range
    <3> QED
      BY <1>2, <1>7, <2>1, <2>2, <3>1
  <2>3. CASE k # 1
    <3> DEFINE p == k - 1
               q == l - 1
    <3>1. p \in 1..n /\ q \in 1..n /\ p < q /\ k \in 2..n + 1
      BY <1>1, <2>1, <2>3
    <3>2. e[k] = s[p] /\ e[l] = s[q]
      BY <1>2, <2>1, <3>1
    <3> HIDE DEF p, q
    <3>3. s[p] < s[q]
      BY <1>7, <3>1 DEF Rising, n
    <3> QED
      BY <3>2, <3>3
  <2> QED
    BY <2>2, <2>3
<1> QED
  BY <1>2, <1>6, <1>7 DEF e

\* The places of two lists, the end of each included.
Grid(n, m) == (1..n + 1) \X (1..m + 1)

Steps(p, n, m) == p[1] <= n /\ p[2] <= m
Ahead(p)  == <<p[1] + 1, p[2]>>
Beside(p) == <<p[1], p[2] + 1>>
Across(p) == <<p[1] + 1, p[2] + 1>>

\* What is left of both lists.
Left(n, m) == [p \in Grid(n, m) |-> (n + 1 - p[1]) + (m + 1 - p[2])]

LEMMA GridPlaces ==
  ASSUME NEW n \in Nat, NEW m \in Nat, NEW p \in Grid(n, m)
  PROVE  /\ p[1] \in 1..n + 1 /\ p[2] \in 1..m + 1
         /\ Steps(p, n, m) => p[1] \in 1..n /\ p[2] \in 1..m
<1>1. p[1] \in 1..n + 1 /\ p[2] \in 1..m + 1
  BY DEF Grid
<1> QED
  BY <1>1 DEF Steps

LEMMA GridSteps ==
  ASSUME NEW n \in Nat, NEW m \in Nat, NEW p \in Grid(n, m)
  PROVE  /\ Left(n, m)[p] \in Nat /\ Left(n, m)[p] <= n + m
         /\ p = <<p[1], p[2]>> /\ p[1] \in 1..n + 1 /\ p[2] \in 1..m + 1
         /\ Steps(p, n, m) =>
              /\ p[1] \in 1..n /\ p[2] \in 1..m
              /\ \A q \in {Ahead(p), Beside(p), Across(p)} :
                   q \in Grid(n, m) /\ Left(n, m)[q] < Left(n, m)[p]
<1>1. p = <<p[1], p[2]>> /\ p[1] \in 1..n + 1 /\ p[2] \in 1..m + 1
  BY DEF Grid
<1>2. ASSUME NEW q \in Grid(n, m)
      PROVE  Left(n, m)[q] = (n + 1 - q[1]) + (m + 1 - q[2])
  BY DEF Left
<1>3. Left(n, m)[p] \in Nat /\ Left(n, m)[p] <= n + m
  BY <1>1, <1>2
<1>4. ASSUME Steps(p, n, m)
      PROVE  /\ p[1] \in 1..n /\ p[2] \in 1..m
             /\ \A q \in {Ahead(p), Beside(p), Across(p)} :
                  q \in Grid(n, m) /\ Left(n, m)[q] < Left(n, m)[p]
  <2>1. p[1] \in 1..n /\ p[2] \in 1..m
    BY <1>1, <1>4 DEF Steps
  <2>2. Ahead(p) \in Grid(n, m) /\ Beside(p) \in Grid(n, m) /\ Across(p) \in Grid(n, m)
    BY <2>1 DEF Grid, Ahead, Beside, Across
  <2>3. /\ Left(n, m)[Ahead(p)] = (n + 1 - (p[1] + 1)) + (m + 1 - p[2])
        /\ Left(n, m)[Beside(p)] = (n + 1 - p[1]) + (m + 1 - (p[2] + 1))
        /\ Left(n, m)[Across(p)] = (n + 1 - (p[1] + 1)) + (m + 1 - (p[2] + 1))
        /\ Left(n, m)[p] = (n + 1 - p[1]) + (m + 1 - p[2])
    BY <1>2, <2>2 DEF Ahead, Beside, Across
  <2>4. /\ Left(n, m)[Ahead(p)] < Left(n, m)[p]
        /\ Left(n, m)[Beside(p)] < Left(n, m)[p]
        /\ Left(n, m)[Across(p)] < Left(n, m)[p]
    BY <2>1, <2>3
  <2> QED
    BY <2>1, <2>2, <2>4
<1> QED
  BY <1>1, <1>3, <1>4

Walks(f, n, m, st, end) ==
  \A p \in Grid(n, m) :
    f[p] = IF Steps(p, n, m) THEN st[p][<<f[Ahead(p)], f[Beside(p)], f[Across(p)]>>] ELSE end[p]

\* A walk over two lists exists, whatever its steps make of what comes behind.
LEMMA GridRecursion ==
  ASSUME NEW n \in Nat, NEW m \in Nat, NEW X, X # {}, NEW end \in [Grid(n, m) -> X],
         NEW st \in [Grid(n, m) -> [X \X X \X X -> X]]
  PROVE  \E f \in [Grid(n, m) -> X] : Walks(f, n, m, st, end)
<1> DEFINE D == Grid(n, m)
           w == Left(n, m)
           Step(p, g) == IF Steps(p, n, m) THEN st[p][<<g[Ahead(p)], g[Beside(p)], g[Across(p)]>>] ELSE end[p]
           F == [p \in D |-> [g \in [D -> X] |-> Step(p, g)]]
<1>1. w \in [D -> Nat] /\ n + m \in Nat /\ \A p \in D : w[p] <= n + m
  <2>1. \A p \in D : w[p] \in Nat /\ w[p] <= n + m
    BY GridSteps
  <2>2. w = [p \in D |-> w[p]]
    BY DEF Left
  <2> HIDE DEF w, D
  <2> QED
    BY <2>1, <2>2
<1>2. ASSUME NEW p \in D, NEW g \in [D -> X]
      PROVE  Step(p, g) \in X
  <2>1. CASE Steps(p, n, m)
    <3>1. Ahead(p) \in D /\ Beside(p) \in D /\ Across(p) \in D
      BY <2>1, GridSteps
    <3> HIDE DEF D
    <3>2. <<g[Ahead(p)], g[Beside(p)], g[Across(p)]>> \in X \X X \X X
      BY <3>1
    <3> QED
      BY <2>1, <3>2 DEF D
  <2>2. CASE ~Steps(p, n, m)
    BY <2>2
  <2> QED
    BY <2>1, <2>2
<1>3. F \in [D -> [[D -> X] -> X]]
  <2> HIDE DEF D, Step
  <2> QED
    BY <1>2
<1>4. ASSUME NEW p \in D, NEW g \in [D -> X], NEW h \in [D -> X], \A q \in D : w[q] < w[p] => g[q] = h[q]
      PROVE  F[p][g] = F[p][h]
  <2>1. Step(p, g) = Step(p, h)
    <3>1. CASE Steps(p, n, m)
      <4>1. \A q \in {Ahead(p), Beside(p), Across(p)} : q \in D /\ w[q] < w[p]
        BY <3>1, GridSteps
      <4> HIDE DEF D, w
      <4>2. \A q \in {Ahead(p), Beside(p), Across(p)} : g[q] = h[q]
        BY <1>4, <4>1
      <4>3. g[Ahead(p)] = h[Ahead(p)] /\ g[Beside(p)] = h[Beside(p)] /\ g[Across(p)] = h[Across(p)]
        BY <4>2
      <4> QED
        BY <4>3
    <3> QED
      BY <3>1
  <2>2. F[p][g] = Step(p, g) /\ F[p][h] = Step(p, h)
    <3> HIDE DEF D, Step
    <3> QED
      OBVIOUS
  <2> QED
    BY <2>1, <2>2
<1>5. PICK f \in [D -> X] : Solves(f, F, D)
  <2>1. Founded(F, D, X, w)
    <3> HIDE DEF D, F, w
    <3> QED
      BY <1>4 DEF Founded
  <2> HIDE DEF D, F, w
  <2> QED
    BY <1>1, <1>3, <2>1, Recursion
<1>6. \A p \in D : f[p] = Step(p, f)
  <2> HIDE DEF D, Step
  <2> QED
    BY <1>5 DEF Solves
<1> QED
  BY <1>6 DEF Walks

DiffAt(a, b, d, p) ==
  LET i == p[1]
      j == p[2]
  IN IF i > Len(a) \/ j > Len(b) THEN SubSeq(a, i, Len(a))
     ELSE CASE a[i] < b[j] -> <<a[i]>> \o d[<<i + 1, j>>]
            [] b[j] < a[i] -> d[<<i, j + 1>>]
            [] OTHER       -> d[<<i + 1, j + 1>>]

InterAt(a, b, d, p) ==
  LET i == p[1]
      j == p[2]
  IN IF i > Len(a) \/ j > Len(b) THEN <<>>
     ELSE CASE a[i] < b[j] -> d[<<i + 1, j>>]
            [] b[j] < a[i] -> d[<<i, j + 1>>]
            [] OTHER       -> <<a[i]>> \o d[<<i + 1, j + 1>>]

DiffBody(a, b, d)  == [p \in Grid(Len(a), Len(b)) |-> DiffAt(a, b, d, p)]
InterBody(a, b, d) == [p \in Grid(Len(a), Len(b)) |-> InterAt(a, b, d, p)]

\* The steps of both.
DiffStep(x, y, d) ==
  IF x < y THEN <<x>> \o d[1] ELSE IF y < x THEN d[2] ELSE d[3]
InterStep(x, y, d) ==
  IF x < y THEN d[1] ELSE IF y < x THEN d[2] ELSE <<x>> \o d[3]

Behind3(d, p) == <<d[Ahead(p)], d[Beside(p)], d[Across(p)]>>

LEMMA Places ==
  ASSUME NEW a \in Seq(Nat), NEW b \in Seq(Nat), NEW p \in Grid(Len(a), Len(b))
  PROVE  /\ (p[1] > Len(a) \/ p[2] > Len(b)) <=> ~Steps(p, Len(a), Len(b))
         /\ Steps(p, Len(a), Len(b)) => a[p[1]] \in Nat /\ b[p[2]] \in Nat
<1> DEFINE n == Len(a)
           m == Len(b)
<1>1. n \in Nat /\ m \in Nat /\ (\A k \in 1..n : a[k] \in Nat) /\ (\A k \in 1..m : b[k] \in Nat)
  OBVIOUS
<1>2. p \in Grid(n, m)
  OBVIOUS
<1> HIDE DEF n, m
<1>3. /\ p[1] \in 1..n + 1 /\ p[2] \in 1..m + 1
      /\ Steps(p, n, m) => p[1] \in 1..n /\ p[2] \in 1..m
  BY <1>1, <1>2, GridPlaces
<1>4. (p[1] > n \/ p[2] > m) <=> ~Steps(p, n, m)
  BY <1>1, <1>3 DEF Steps
<1>5. Steps(p, n, m) => a[p[1]] \in Nat /\ b[p[2]] \in Nat
  BY <1>1, <1>3
<1> QED
  BY <1>4, <1>5 DEF n, m

LEMMA DiffBodyIs ==
  ASSUME NEW a \in Seq(Nat), NEW b \in Seq(Nat), NEW d, NEW p \in Grid(Len(a), Len(b))
  PROVE  DiffBody(a, b, d)[p] = IF Steps(p, Len(a), Len(b)) THEN DiffStep(a[p[1]], b[p[2]], Behind3(d, p))
                                ELSE SubSeq(a, p[1], Len(a))
<1>1. DiffBody(a, b, d)[p] =
        IF p[1] > Len(a) \/ p[2] > Len(b) THEN SubSeq(a, p[1], Len(a))
        ELSE CASE a[p[1]] < b[p[2]] -> <<a[p[1]]>> \o d[<<p[1] + 1, p[2]>>]
               [] b[p[2]] < a[p[1]] -> d[<<p[1], p[2] + 1>>]
               [] OTHER       -> d[<<p[1] + 1, p[2] + 1>>]
  <2>1. DiffBody(a, b, d)[p] = DiffAt(a, b, d, p)
    BY DEF DiffBody
  <2> QED
    BY <2>1, Zenon DEF DiffAt
<1>2. CASE ~Steps(p, Len(a), Len(b))
  BY <1>1, <1>2, Places
<1>3. CASE Steps(p, Len(a), Len(b))
  <2> DEFINE x == a[p[1]]
             y == b[p[2]]
  <2>1. x \in Nat /\ y \in Nat /\ ~(p[1] > Len(a) \/ p[2] > Len(b))
    BY <1>3, Places
  <2>2. DiffBody(a, b, d)[p] = CASE x < y -> <<x>> \o d[Ahead(p)]
                                 [] y < x -> d[Beside(p)]
                                 [] OTHER -> d[Across(p)]
    BY <1>1, <2>1, Zenon DEF Ahead, Beside, Across
  <2> HIDE DEF x, y
  <2>3. CASE x < y
    <3>1. ~(y < x)
      BY <2>1, <2>3
    <3>2. DiffBody(a, b, d)[p] = <<x>> \o d[Ahead(p)]
      BY <2>2, <2>3, <3>1, Zenon
    <3> QED
      BY <1>3, <2>3, <3>2 DEF x, y, DiffStep, Behind3
  <2>4. CASE y < x
    <3>1. ~(x < y)
      BY <2>1, <2>4
    <3>2. DiffBody(a, b, d)[p] = d[Beside(p)]
      BY <2>2, <2>4, <3>1, Zenon
    <3> QED
      BY <1>3, <2>4, <3>1, <3>2 DEF x, y, DiffStep, Behind3
  <2>5. CASE ~(x < y) /\ ~(y < x)
    <3>1. DiffBody(a, b, d)[p] = d[Across(p)]
      BY <2>2, <2>5, Zenon
    <3> QED
      BY <1>3, <2>5, <3>1 DEF x, y, DiffStep, Behind3
  <2> QED
    BY <2>3, <2>4, <2>5
<1> QED
  BY <1>2, <1>3

LEMMA InterBodyIs ==
  ASSUME NEW a \in Seq(Nat), NEW b \in Seq(Nat), NEW d, NEW p \in Grid(Len(a), Len(b))
  PROVE  InterBody(a, b, d)[p] = IF Steps(p, Len(a), Len(b)) THEN InterStep(a[p[1]], b[p[2]], Behind3(d, p))
                                 ELSE <<>>
<1>1. InterBody(a, b, d)[p] =
        IF p[1] > Len(a) \/ p[2] > Len(b) THEN <<>>
        ELSE CASE a[p[1]] < b[p[2]] -> d[<<p[1] + 1, p[2]>>]
               [] b[p[2]] < a[p[1]] -> d[<<p[1], p[2] + 1>>]
               [] OTHER       -> <<a[p[1]]>> \o d[<<p[1] + 1, p[2] + 1>>]
  <2>1. InterBody(a, b, d)[p] = InterAt(a, b, d, p)
    BY DEF InterBody
  <2> QED
    BY <2>1, Zenon DEF InterAt
<1>2. CASE ~Steps(p, Len(a), Len(b))
  BY <1>1, <1>2, Places
<1>3. CASE Steps(p, Len(a), Len(b))
  <2> DEFINE x == a[p[1]]
             y == b[p[2]]
  <2>1. x \in Nat /\ y \in Nat /\ ~(p[1] > Len(a) \/ p[2] > Len(b))
    BY <1>3, Places
  <2>2. InterBody(a, b, d)[p] = CASE x < y -> d[Ahead(p)]
                                  [] y < x -> d[Beside(p)]
                                  [] OTHER -> <<x>> \o d[Across(p)]
    BY <1>1, <2>1, Zenon DEF Ahead, Beside, Across
  <2> HIDE DEF x, y
  <2>3. CASE x < y
    <3>1. ~(y < x)
      BY <2>1, <2>3
    <3>2. InterBody(a, b, d)[p] = d[Ahead(p)]
      BY <2>2, <2>3, <3>1, Zenon
    <3> QED
      BY <1>3, <2>3, <3>2 DEF x, y, InterStep, Behind3
  <2>4. CASE y < x
    <3>1. ~(x < y)
      BY <2>1, <2>4
    <3>2. InterBody(a, b, d)[p] = d[Beside(p)]
      BY <2>2, <2>4, <3>1, Zenon
    <3> QED
      BY <1>3, <2>4, <3>1, <3>2 DEF x, y, InterStep, Behind3
  <2>5. CASE ~(x < y) /\ ~(y < x)
    <3>1. InterBody(a, b, d)[p] = <<x>> \o d[Across(p)]
      BY <2>2, <2>5, Zenon
    <3> QED
      BY <1>3, <2>5, <3>1 DEF x, y, InterStep, Behind3
  <2> QED
    BY <2>3, <2>4, <2>5
<1> QED
  BY <1>2, <1>3

LEMMA AlsoSeq ==
  ASSUME NEW S, NEW T, S \subseteq T, NEW s \in Seq(S)
  PROVE  s \in Seq(T)
<1>1. s \in [1..Len(s) -> T] /\ Len(s) \in Nat
  OBVIOUS
<1> QED
  BY <1>1

LEMMA Corner ==
  ASSUME NEW n \in Nat, NEW m \in Nat
  PROVE  <<1, 1>> \in Grid(n, m)
BY DEF Grid

LEMMA DiffRuns ==
  ASSUME NEW S, S \subseteq Nat, NEW a \in Seq(S), NEW b \in Seq(S)
  PROVE  \E d : d = DiffBody(a, b, d) /\ SetDifference(a, b) = d[<<1, 1>>]
<1> DEFINE n == Len(a)
           m == Len(b)
           D == Grid(n, m)
           X == Seq(S)
           end == [p \in D |-> SubSeq(a, p[1], n)]
           Step(p, v) == IF Steps(p, n, m) THEN DiffStep(a[p[1]], b[p[2]], v) ELSE <<>>
           st == [p \in D |-> [v \in X \X X \X X |-> Step(p, v)]]
<1>1. n \in Nat /\ m \in Nat /\ X # {} /\ a \in Seq(Nat) /\ b \in Seq(Nat)
  <2>1. a \in Seq(Nat)
    BY AlsoSeq
  <2>2. b \in Seq(Nat)
    BY AlsoSeq
  <2> QED
    BY <2>1, <2>2, EmptySeq
<1>2. end \in [D -> X]
  <2>1. ASSUME NEW p \in D
        PROVE  SubSeq(a, p[1], n) \in X
    <3>1. p[1] \in 1..n + 1
      BY <1>1, GridSteps
    <3> QED
      BY <3>1, RestOf
  <2> HIDE DEF D, X
  <2> QED
    BY <2>1
<1>3. ASSUME NEW p \in D, NEW v \in X \X X \X X
      PROVE  Step(p, v) \in X
  <2>1. CASE Steps(p, n, m)
    <3>1. p[1] \in 1..n
      BY <1>1, <2>1, GridSteps
    <3> DEFINE x == a[p[1]]
               y == b[p[2]]
    <3>2. x \in S /\ v[1] \in X /\ v[2] \in X /\ v[3] \in X
      BY <3>1
    <3>3. <<x>> \o v[1] \in X
      BY <3>2, InFront
    <3> HIDE DEF x, y, X
    <3>4. DiffStep(x, y, v) \in X
      BY <3>2, <3>3 DEF DiffStep
    <3> QED
      BY <2>1, <3>4 DEF x, y
  <2>2. CASE ~Steps(p, n, m)
    BY <2>2, EmptySeq
  <2> QED
    BY <2>1, <2>2
<1>4. st \in [D -> [X \X X \X X -> X]]
  <2> HIDE DEF D, X, Step
  <2> QED
    BY <1>3
<1>5. PICK f \in [D -> X] : Walks(f, n, m, st, end)
  <2> HIDE DEF n, m, X, st, end
  <2> QED
    BY <1>1, <1>2, <1>4, GridRecursion
<1>6. ASSUME NEW p \in D
      PROVE  f[p] = DiffBody(a, b, f)[p]
  <2>1. CASE Steps(p, n, m)
    <3>1. Ahead(p) \in D /\ Beside(p) \in D /\ Across(p) \in D
      BY <1>1, <2>1, GridSteps
    <3> DEFINE v == Behind3(f, p)
    <3>2. v \in X \X X \X X /\ v = <<f[Ahead(p)], f[Beside(p)], f[Across(p)]>>
      <4> HIDE DEF D, X
      <4> QED
        BY <3>1 DEF Behind3
    <3> HIDE DEF v
    <3>3. f[p] = st[p][v]
      <4> HIDE DEF D, X, st, end
      <4> QED
        BY <1>5, <2>1, <3>2 DEF Walks, D
    <3>4. st[p][v] = Step(p, v)
      <4> HIDE DEF D, X, Step
      <4> QED
        BY <3>2
    <3>5. f[p] = DiffStep(a[p[1]], b[p[2]], v)
      BY <2>1, <3>3, <3>4
    <3> QED
      BY <1>1, <2>1, <3>5, DiffBodyIs DEF v
  <2>2. CASE ~Steps(p, n, m)
    <3>1. f[p] = end[p]
      <4> HIDE DEF D, X, st, end
      <4> QED
        BY <1>5, <2>2 DEF Walks, D
    <3>2. end[p] = SubSeq(a, p[1], n)
      <4> HIDE DEF D
      <4> QED
        OBVIOUS
    <3> QED
      BY <1>1, <2>2, <3>1, <3>2, DiffBodyIs
  <2> QED
    BY <2>1, <2>2
<1>7. f = DiffBody(a, b, f)
  <2> DEFINE g == DiffBody(a, b, f)
  <2>1. g = [p \in D |-> g[p]]
    <3> HIDE DEF n, m
    <3> QED
      BY DEF DiffBody, n, m
  <2>2. f = [p \in D |-> f[p]]
    BY <1>5
  <2> HIDE DEF D, g
  <2>3. \A p \in D : f[p] = g[p]
    BY <1>6 DEF g
  <2> QED
    BY <2>1, <2>2, <2>3 DEF g
<1> DEFINE d == CHOOSE g : g = DiffBody(a, b, g)
<1>8. d = DiffBody(a, b, d)
  <2> HIDE DEF D, X, st, end
  <2> QED
    BY <1>7, Zenon
<1>9. SetDifference(a, b) = d[<<1, 1>>]
  BY Zenon DEF SetDifference, DiffBody, DiffAt, Grid
<1> HIDE DEF d
<1> QED
  BY <1>8, <1>9

LEMMA InterRuns ==
  ASSUME NEW S, S \subseteq Nat, NEW a \in Seq(S), NEW b \in Seq(S)
  PROVE  \E d : d = InterBody(a, b, d) /\ SetIntersection(a, b) = d[<<1, 1>>]
<1> DEFINE n == Len(a)
           m == Len(b)
           D == Grid(n, m)
           X == Seq(S)
           end == [p \in D |-> <<>>]
           Step(p, v) == IF Steps(p, n, m) THEN InterStep(a[p[1]], b[p[2]], v) ELSE <<>>
           st == [p \in D |-> [v \in X \X X \X X |-> Step(p, v)]]
<1>1. n \in Nat /\ m \in Nat /\ X # {} /\ a \in Seq(Nat) /\ b \in Seq(Nat)
  <2>1. a \in Seq(Nat)
    BY AlsoSeq
  <2>2. b \in Seq(Nat)
    BY AlsoSeq
  <2> QED
    BY <2>1, <2>2, EmptySeq
<1>2. end \in [D -> X]
  <2>1. <<>> \in X
    BY EmptySeq
  <2> HIDE DEF D, X
  <2> QED
    BY <2>1
<1>3. ASSUME NEW p \in D, NEW v \in X \X X \X X
      PROVE  Step(p, v) \in X
  <2>1. CASE Steps(p, n, m)
    <3>1. p[1] \in 1..n
      BY <1>1, <2>1, GridSteps
    <3> DEFINE x == a[p[1]]
               y == b[p[2]]
    <3>2. x \in S /\ v[1] \in X /\ v[2] \in X /\ v[3] \in X
      BY <3>1
    <3>3. <<x>> \o v[3] \in X
      BY <3>2, InFront
    <3> HIDE DEF x, y, X
    <3>4. InterStep(x, y, v) \in X
      BY <3>2, <3>3 DEF InterStep
    <3> QED
      BY <2>1, <3>4 DEF x, y
  <2>2. CASE ~Steps(p, n, m)
    BY <2>2, EmptySeq
  <2> QED
    BY <2>1, <2>2
<1>4. st \in [D -> [X \X X \X X -> X]]
  <2> HIDE DEF D, X, Step
  <2> QED
    BY <1>3
<1>5. PICK f \in [D -> X] : Walks(f, n, m, st, end)
  <2> HIDE DEF n, m, X, st, end
  <2> QED
    BY <1>1, <1>2, <1>4, GridRecursion
<1>6. ASSUME NEW p \in D
      PROVE  f[p] = InterBody(a, b, f)[p]
  <2>1. CASE Steps(p, n, m)
    <3>1. Ahead(p) \in D /\ Beside(p) \in D /\ Across(p) \in D
      BY <1>1, <2>1, GridSteps
    <3> DEFINE v == Behind3(f, p)
    <3>2. v \in X \X X \X X /\ v = <<f[Ahead(p)], f[Beside(p)], f[Across(p)]>>
      <4> HIDE DEF D, X
      <4> QED
        BY <3>1 DEF Behind3
    <3> HIDE DEF v
    <3>3. f[p] = st[p][v]
      <4> HIDE DEF D, X, st, end
      <4> QED
        BY <1>5, <2>1, <3>2 DEF Walks, D
    <3>4. st[p][v] = Step(p, v)
      <4> HIDE DEF D, X, Step
      <4> QED
        BY <3>2
    <3>5. f[p] = InterStep(a[p[1]], b[p[2]], v)
      BY <2>1, <3>3, <3>4
    <3> QED
      BY <1>1, <2>1, <3>5, InterBodyIs DEF v
  <2>2. CASE ~Steps(p, n, m)
    <3>1. f[p] = end[p]
      <4> HIDE DEF D, X, st, end
      <4> QED
        BY <1>5, <2>2 DEF Walks, D
    <3>2. end[p] = <<>>
      <4> HIDE DEF D
      <4> QED
        OBVIOUS
    <3> QED
      BY <1>1, <2>2, <3>1, <3>2, InterBodyIs
  <2> QED
    BY <2>1, <2>2
<1>7. f = InterBody(a, b, f)
  <2> DEFINE g == InterBody(a, b, f)
  <2>1. g = [p \in D |-> g[p]]
    <3> HIDE DEF n, m
    <3> QED
      BY DEF InterBody, n, m
  <2>2. f = [p \in D |-> f[p]]
    BY <1>5
  <2> HIDE DEF D, g
  <2>3. \A p \in D : f[p] = g[p]
    BY <1>6 DEF g
  <2> QED
    BY <2>1, <2>2, <2>3 DEF g
<1> DEFINE d == CHOOSE g : g = InterBody(a, b, g)
<1>8. d = InterBody(a, b, d)
  <2> HIDE DEF D, X, st, end
  <2> QED
    BY <1>7, Zenon
<1>9. SetIntersection(a, b) = d[<<1, 1>>]
  BY Zenon DEF SetIntersection, InterBody, InterAt, Grid
<1> HIDE DEF d
<1> QED
  BY <1>8, <1>9

\* What the algorithms make of the rest of two lists.
DiffOk(e, a, b, p) ==
  /\ Range(e) \subseteq From(a, p[1]) /\ From(a, p[1]) \ Range(b) \subseteq Range(e)
  /\ Rising(a) /\ Rising(b) => Rising(e) /\ Range(e) = From(a, p[1]) \ From(b, p[2])

InterOk(e, a, b, p) ==
  /\ Range(e) \subseteq From(a, p[1]) \cap Range(b)
  /\ Rising(a) /\ Rising(b) => Rising(e) /\ Range(e) = From(a, p[1]) \cap From(b, p[2])

LEMMA DiffStepOk ==
  ASSUME NEW S, S \subseteq Nat, NEW a \in Seq(S), NEW b \in Seq(S), NEW d,
         NEW p \in Grid(Len(a), Len(b)),
         Steps(p, Len(a), Len(b)) =>
           \A q \in {Ahead(p), Beside(p), Across(p)} : d[q] \in Seq(S) /\ DiffOk(d[q], a, b, q)
  PROVE  DiffBody(a, b, d)[p] \in Seq(S) /\ DiffOk(DiffBody(a, b, d)[p], a, b, p)
<1> DEFINE n == Len(a)
           m == Len(b)
           i == p[1]
           j == p[2]
           e == DiffBody(a, b, d)[p]
<1>1. n \in Nat /\ m \in Nat /\ a \in Seq(Nat) /\ b \in Seq(Nat)
  <2>1. a \in Seq(Nat)
    BY AlsoSeq
  <2>2. b \in Seq(Nat)
    BY AlsoSeq
  <2> QED
    BY <2>1, <2>2
<1>2. i \in 1..n + 1 /\ j \in 1..m + 1
  BY <1>1, GridSteps
<1>3. CASE ~Steps(p, n, m)
  <2>1. e = SubSeq(a, i, n)
    BY <1>1, <1>3, DiffBodyIs
  <2>2. e \in Seq(S) /\ Range(e) = From(a, i) /\ (Rising(a) => Rising(e))
    BY <1>2, <2>1, RestOf
  <2>3. i = n + 1 \/ j = m + 1
    BY <1>1, <1>2, <1>3 DEF Steps
  <2>4. From(a, i) = {} \/ From(b, j) = {}
    BY <1>1, <2>3, FromEnds
  <2> HIDE DEF e
  <2> QED
    BY <2>2, <2>4 DEF DiffOk, e
<1>4. CASE Steps(p, n, m)
  <2> DEFINE x == a[i]
             y == b[j]
  <2>1. i \in 1..n /\ j \in 1..m /\ x \in S
    <3>1. i \in 1..n /\ j \in 1..m
      BY <1>1, <1>4, GridPlaces
    <3> QED
      BY <3>1
  <2>2. e = DiffStep(x, y, Behind3(d, p))
    BY <1>1, <1>4, DiffBodyIs
  <2>3. /\ From(a, i) = {x} \cup From(a, i + 1) /\ x \in Nat
        /\ From(a, i + 1) \subseteq Nat
        /\ Rising(a) => \A z \in From(a, i + 1) : x < z
    BY <1>1, <2>1, FromStep
  <2>4. /\ From(b, j) = {y} \cup From(b, j + 1) /\ y \in Nat /\ y \in Range(b)
        /\ From(b, j + 1) \subseteq Nat
        /\ Rising(b) => \A z \in From(b, j + 1) : y < z
    BY <1>1, <2>1, FromStep
  <2>5. /\ d[Ahead(p)] \in Seq(S) /\ DiffOk(d[Ahead(p)], a, b, Ahead(p))
        /\ d[Beside(p)] \in Seq(S) /\ DiffOk(d[Beside(p)], a, b, Beside(p))
        /\ d[Across(p)] \in Seq(S) /\ DiffOk(d[Across(p)], a, b, Across(p))
    BY <1>4
  <2>6. /\ Ahead(p)[1] = i + 1 /\ Ahead(p)[2] = j
        /\ Beside(p)[1] = i /\ Beside(p)[2] = j + 1
        /\ Across(p)[1] = i + 1 /\ Across(p)[2] = j + 1
    BY DEF Ahead, Beside, Across
  <2>7. SUFFICES e \in Seq(S) /\ DiffOk(e, a, b, p)
    OBVIOUS
  <2> HIDE DEF e, x, y
  <2>8. CASE x < y
    <3> DEFINE f == d[Ahead(p)]
    <3>1. e = <<x>> \o f
      BY <2>2, <2>8 DEF DiffStep, Behind3
    <3>2. /\ f \in Seq(S)
          /\ Range(f) \subseteq From(a, i + 1) /\ From(a, i + 1) \ Range(b) \subseteq Range(f)
          /\ Rising(a) /\ Rising(b) => Rising(f) /\ Range(f) = From(a, i + 1) \ From(b, j)
      BY <2>5, <2>6 DEF DiffOk
    <3> HIDE DEF f
    <3>3. /\ e \in Seq(S) /\ Range(e) = {x} \cup Range(f)
          /\ Rising(f) /\ (\A z \in Range(f) : x < z) => Rising(e)
      BY <2>1, <3>1, <3>2, InFront
    <3>4. Rising(a) => \A z \in Range(f) : x < z
      BY <2>3, <3>2
    <3>5. Rising(b) => x \notin From(b, j)
      BY <2>3, <2>4, <2>8
    <3>6. Range(e) \subseteq From(a, i) /\ From(a, i) \ Range(b) \subseteq Range(e)
      BY <2>3, <3>2, <3>3
    <3>7. Rising(a) /\ Rising(b) => Rising(e) /\ Range(e) = From(a, i) \ From(b, j)
      BY <2>3, <3>2, <3>3, <3>4, <3>5
    <3> QED
      BY <3>3, <3>6, <3>7 DEF DiffOk
  <2>9. CASE y < x
    <3> DEFINE f == d[Beside(p)]
    <3>1. e = f
      BY <2>2, <2>3, <2>4, <2>9 DEF DiffStep, Behind3
    <3>2. /\ f \in Seq(S)
          /\ Range(f) \subseteq From(a, i) /\ From(a, i) \ Range(b) \subseteq Range(f)
          /\ Rising(a) /\ Rising(b) => Rising(f) /\ Range(f) = From(a, i) \ From(b, j + 1)
      BY <2>5, <2>6 DEF DiffOk
    <3> HIDE DEF f
    <3>3. Rising(a) => y \notin From(a, i)
      BY <2>3, <2>4, <2>9
    <3>4. Rising(a) /\ Rising(b) => Rising(e) /\ Range(e) = From(a, i) \ From(b, j)
      BY <2>4, <3>1, <3>2, <3>3
    <3> QED
      BY <3>1, <3>2, <3>4 DEF DiffOk
  <2>10. CASE ~(x < y) /\ ~(y < x)
    <3> DEFINE f == d[Across(p)]
    <3>1. e = f /\ x = y
      BY <2>2, <2>3, <2>4, <2>10 DEF DiffStep, Behind3
    <3>2. /\ f \in Seq(S)
          /\ Range(f) \subseteq From(a, i + 1) /\ From(a, i + 1) \ Range(b) \subseteq Range(f)
          /\ Rising(a) /\ Rising(b) => Rising(f) /\ Range(f) = From(a, i + 1) \ From(b, j + 1)
      BY <2>5, <2>6 DEF DiffOk
    <3> HIDE DEF f
    <3>3. Rising(a) => x \notin From(a, i + 1)
      BY <2>3
    <3>4. Rising(a) /\ Rising(b) => Rising(e) /\ Range(e) = From(a, i) \ From(b, j)
      BY <2>3, <2>4, <3>1, <3>2, <3>3
    <3>5. Range(e) \subseteq From(a, i) /\ From(a, i) \ Range(b) \subseteq Range(e)
      BY <2>3, <2>4, <3>1, <3>2
    <3> QED
      BY <3>1, <3>2, <3>4, <3>5 DEF DiffOk
  <2> QED
    BY <2>8, <2>9, <2>10
<1> QED
  BY <1>3, <1>4

LEMMA InterStepOk ==
  ASSUME NEW S, S \subseteq Nat, NEW a \in Seq(S), NEW b \in Seq(S), NEW d,
         NEW p \in Grid(Len(a), Len(b)),
         Steps(p, Len(a), Len(b)) =>
           \A q \in {Ahead(p), Beside(p), Across(p)} : d[q] \in Seq(S) /\ InterOk(d[q], a, b, q)
  PROVE  InterBody(a, b, d)[p] \in Seq(S) /\ InterOk(InterBody(a, b, d)[p], a, b, p)
<1> DEFINE n == Len(a)
           m == Len(b)
           i == p[1]
           j == p[2]
           e == InterBody(a, b, d)[p]
<1>1. n \in Nat /\ m \in Nat /\ a \in Seq(Nat) /\ b \in Seq(Nat)
  <2>1. a \in Seq(Nat)
    BY AlsoSeq
  <2>2. b \in Seq(Nat)
    BY AlsoSeq
  <2> QED
    BY <2>1, <2>2
<1>2. i \in 1..n + 1 /\ j \in 1..m + 1
  BY <1>1, GridSteps
<1>3. CASE ~Steps(p, n, m)
  <2>1. e = <<>>
    BY <1>1, <1>3, InterBodyIs
  <2>2. <<>> \in Seq(S) /\ Range(<<>>) = {} /\ Rising(<<>>)
    BY EmptySeq DEF Range, Rising
  <2>3. i = n + 1 \/ j = m + 1
    BY <1>1, <1>2, <1>3 DEF Steps
  <2>4. From(a, i) = {} \/ From(b, j) = {}
    BY <1>1, <2>3, FromEnds
  <2>5. e \in Seq(S) /\ Range(e) = {} /\ Rising(e)
    BY <2>1, <2>2
  <2> HIDE DEF e
  <2> QED
    BY <2>4, <2>5 DEF InterOk, e
<1>4. CASE Steps(p, n, m)
  <2> DEFINE x == a[i]
             y == b[j]
  <2>1. i \in 1..n /\ j \in 1..m /\ x \in S
    <3>1. i \in 1..n /\ j \in 1..m
      BY <1>1, <1>4, GridPlaces
    <3> QED
      BY <3>1
  <2>2. e = InterStep(x, y, Behind3(d, p))
    BY <1>1, <1>4, InterBodyIs
  <2>3. /\ From(a, i) = {x} \cup From(a, i + 1) /\ x \in Nat
        /\ From(a, i + 1) \subseteq Nat
        /\ Rising(a) => \A z \in From(a, i + 1) : x < z
    BY <1>1, <2>1, FromStep
  <2>4. /\ From(b, j) = {y} \cup From(b, j + 1) /\ y \in Nat /\ y \in Range(b)
        /\ From(b, j + 1) \subseteq Nat
        /\ Rising(b) => \A z \in From(b, j + 1) : y < z
    BY <1>1, <2>1, FromStep
  <2>5. /\ d[Ahead(p)] \in Seq(S) /\ InterOk(d[Ahead(p)], a, b, Ahead(p))
        /\ d[Beside(p)] \in Seq(S) /\ InterOk(d[Beside(p)], a, b, Beside(p))
        /\ d[Across(p)] \in Seq(S) /\ InterOk(d[Across(p)], a, b, Across(p))
    BY <1>4
  <2>6. /\ Ahead(p)[1] = i + 1 /\ Ahead(p)[2] = j
        /\ Beside(p)[1] = i /\ Beside(p)[2] = j + 1
        /\ Across(p)[1] = i + 1 /\ Across(p)[2] = j + 1
    BY DEF Ahead, Beside, Across
  <2>7. SUFFICES e \in Seq(S) /\ InterOk(e, a, b, p)
    OBVIOUS
  <2> HIDE DEF e, x, y
  <2>8. CASE x < y
    <3> DEFINE f == d[Ahead(p)]
    <3>1. e = f
      BY <2>2, <2>8 DEF InterStep, Behind3
    <3>2. /\ f \in Seq(S)
          /\ Range(f) \subseteq From(a, i + 1) \cap Range(b)
          /\ Rising(a) /\ Rising(b) => Rising(f) /\ Range(f) = From(a, i + 1) \cap From(b, j)
      BY <2>5, <2>6 DEF InterOk
    <3> HIDE DEF f
    <3>3. Rising(b) => x \notin From(b, j)
      BY <2>3, <2>4, <2>8
    <3>4. Range(e) \subseteq From(a, i) \cap Range(b)
      BY <2>3, <3>1, <3>2
    <3>5. Rising(a) /\ Rising(b) => Rising(e) /\ Range(e) = From(a, i) \cap From(b, j)
      BY <2>3, <3>1, <3>2, <3>3
    <3> QED
      BY <3>1, <3>2, <3>4, <3>5 DEF InterOk
  <2>9. CASE y < x
    <3> DEFINE f == d[Beside(p)]
    <3>1. e = f
      BY <2>2, <2>3, <2>4, <2>9 DEF InterStep, Behind3
    <3>2. /\ f \in Seq(S)
          /\ Range(f) \subseteq From(a, i) \cap Range(b)
          /\ Rising(a) /\ Rising(b) => Rising(f) /\ Range(f) = From(a, i) \cap From(b, j + 1)
      BY <2>5, <2>6 DEF InterOk
    <3> HIDE DEF f
    <3>3. Rising(a) => y \notin From(a, i)
      BY <2>3, <2>4, <2>9
    <3>4. Rising(a) /\ Rising(b) => Rising(e) /\ Range(e) = From(a, i) \cap From(b, j)
      BY <2>4, <3>1, <3>2, <3>3
    <3> QED
      BY <3>1, <3>2, <3>4 DEF InterOk
  <2>10. CASE ~(x < y) /\ ~(y < x)
    <3> DEFINE f == d[Across(p)]
    <3>1. e = <<x>> \o f /\ x = y
      BY <2>2, <2>3, <2>4, <2>10 DEF InterStep, Behind3
    <3>2. /\ f \in Seq(S)
          /\ Range(f) \subseteq From(a, i + 1) \cap Range(b)
          /\ Rising(a) /\ Rising(b) => Rising(f) /\ Range(f) = From(a, i + 1) \cap From(b, j + 1)
      BY <2>5, <2>6 DEF InterOk
    <3> HIDE DEF f
    <3>3. /\ e \in Seq(S) /\ Range(e) = {x} \cup Range(f)
          /\ Rising(f) /\ (\A z \in Range(f) : x < z) => Rising(e)
      BY <2>1, <3>1, <3>2, InFront
    <3>4. Rising(a) => \A z \in Range(f) : x < z
      BY <2>3, <3>2
    <3>5. Rising(a) => x \notin From(a, i + 1)
      BY <2>3
    <3>6. Range(e) \subseteq From(a, i) \cap Range(b)
      BY <2>3, <2>4, <3>1, <3>2, <3>3
    <3>7. Rising(b) => y \notin From(b, j + 1)
      BY <2>4
    <3>8. Rising(a) /\ Rising(b) => Rising(e) /\ Range(e) = From(a, i) \cap From(b, j)
      BY <2>3, <2>4, <3>1, <3>2, <3>3, <3>4, <3>5, <3>7
    <3> QED
      BY <3>3, <3>6, <3>8 DEF InterOk
  <2> QED
    BY <2>8, <2>9, <2>10
<1> QED
  BY <1>3, <1>4

\* SetDifference keeps at least what it is to keep and takes nothing from outside of
\* its first list, and on lists in the order that it compares by it is exact.
LEMMA DiffIs ==
  ASSUME NEW S, S \subseteq Nat, NEW a \in Seq(S), NEW b \in Seq(S)
  PROVE  LET e == SetDifference(a, b)
         IN /\ e \in Seq(S) /\ Range(e) \subseteq Range(a) /\ Range(a) \ Range(b) \subseteq Range(e)
            /\ Rising(a) /\ Rising(b) => Rising(e) /\ Range(e) = Range(a) \ Range(b)
<1> DEFINE n == Len(a)
           m == Len(b)
           D == Grid(n, m)
           w == Left(n, m)
<1>1. n \in Nat /\ m \in Nat
  OBVIOUS
<1>2. PICK d : d = DiffBody(a, b, d) /\ SetDifference(a, b) = d[<<1, 1>>]
  BY DiffRuns
<1> DEFINE P == {p \in D : d[p] \in Seq(S) /\ DiffOk(d[p], a, b, p)}
<1>3. ASSUME NEW p \in D, \A q \in D : w[q] < w[p] => q \in P
      PROVE  p \in P
  <2>1. Steps(p, n, m) => \A q \in {Ahead(p), Beside(p), Across(p)} : q \in D /\ w[q] < w[p]
    BY <1>1, GridSteps
  <2>2. Steps(p, n, m) => \A q \in {Ahead(p), Beside(p), Across(p)} : q \in P
    <3> HIDE DEF P, D, w
    <3> QED
      BY <1>3, <2>1
  <2>3. Steps(p, n, m) => \A q \in {Ahead(p), Beside(p), Across(p)} : d[q] \in Seq(S) /\ DiffOk(d[q], a, b, q)
    BY <2>2
  <2>4. DiffBody(a, b, d)[p] \in Seq(S) /\ DiffOk(DiffBody(a, b, d)[p], a, b, p)
    BY <2>3, DiffStepOk
  <2> QED
    BY <1>2, <2>4
<1>4. D \subseteq P
  <2>1. w \in [D -> Nat]
    <3>1. \A p \in D : w[p] \in Nat
      BY <1>1, GridSteps
    <3>2. w = [p \in D |-> w[p]]
      BY DEF Left
    <3> HIDE DEF w, D
    <3> QED
      BY <3>1, <3>2
  <2> HIDE DEF w, D, P
  <2> QED
    BY <1>3, <2>1, ByMeasure
<1>5. d[<<1, 1>>] \in Seq(S) /\ DiffOk(d[<<1, 1>>], a, b, <<1, 1>>)
  <2>1. <<1, 1>> \in D
    BY <1>1, Corner
  <2> QED
    BY <1>4, <2>1
<1>6. From(a, 1) = Range(a) /\ From(b, 1) = Range(b)
  <2>1. a \in Seq(Nat)
    BY AlsoSeq
  <2>2. b \in Seq(Nat)
    BY AlsoSeq
  <2> QED
    BY <2>1, <2>2, FromEnds
<1>7. <<1, 1>>[1] = 1 /\ <<1, 1>>[2] = 1
  OBVIOUS
<1> QED
  BY <1>2, <1>5, <1>6, <1>7 DEF DiffOk

\* SetIntersection returns nothing that is not in both, and on lists in the order
\* that it compares by all that is.
LEMMA InterIs ==
  ASSUME NEW S, S \subseteq Nat, NEW a \in Seq(S), NEW b \in Seq(S)
  PROVE  LET e == SetIntersection(a, b)
         IN /\ e \in Seq(S) /\ Range(e) \subseteq Range(a) \cap Range(b)
            /\ Rising(a) /\ Rising(b) => Rising(e) /\ Range(e) = Range(a) \cap Range(b)
<1> DEFINE n == Len(a)
           m == Len(b)
           D == Grid(n, m)
           w == Left(n, m)
<1>1. n \in Nat /\ m \in Nat
  OBVIOUS
<1>2. PICK d : d = InterBody(a, b, d) /\ SetIntersection(a, b) = d[<<1, 1>>]
  BY InterRuns
<1> DEFINE P == {p \in D : d[p] \in Seq(S) /\ InterOk(d[p], a, b, p)}
<1>3. ASSUME NEW p \in D, \A q \in D : w[q] < w[p] => q \in P
      PROVE  p \in P
  <2>1. Steps(p, n, m) => \A q \in {Ahead(p), Beside(p), Across(p)} : q \in D /\ w[q] < w[p]
    BY <1>1, GridSteps
  <2>2. Steps(p, n, m) => \A q \in {Ahead(p), Beside(p), Across(p)} : q \in P
    <3> HIDE DEF P, D, w
    <3> QED
      BY <1>3, <2>1
  <2>3. Steps(p, n, m) => \A q \in {Ahead(p), Beside(p), Across(p)} : d[q] \in Seq(S) /\ InterOk(d[q], a, b, q)
    BY <2>2
  <2>4. InterBody(a, b, d)[p] \in Seq(S) /\ InterOk(InterBody(a, b, d)[p], a, b, p)
    BY <2>3, InterStepOk
  <2> QED
    BY <1>2, <2>4
<1>4. D \subseteq P
  <2>1. w \in [D -> Nat]
    <3>1. \A p \in D : w[p] \in Nat
      BY <1>1, GridSteps
    <3>2. w = [p \in D |-> w[p]]
      BY DEF Left
    <3> HIDE DEF w, D
    <3> QED
      BY <3>1, <3>2
  <2> HIDE DEF w, D, P
  <2> QED
    BY <1>3, <2>1, ByMeasure
<1>5. d[<<1, 1>>] \in Seq(S) /\ InterOk(d[<<1, 1>>], a, b, <<1, 1>>)
  <2>1. <<1, 1>> \in D
    BY <1>1, Corner
  <2> QED
    BY <1>4, <2>1
<1>6. From(a, 1) = Range(a) /\ From(b, 1) = Range(b)
  <2>1. a \in Seq(Nat)
    BY AlsoSeq
  <2>2. b \in Seq(Nat)
    BY AlsoSeq
  <2> QED
    BY <2>1, <2>2, FromEnds
<1>7. <<1, 1>>[1] = 1 /\ <<1, 1>>[2] = 1
  OBVIOUS
<1> QED
  BY <1>2, <1>5, <1>6, <1>7 DEF InterOk

-----------------------------------------------------------------------------
(* The set commands *)

\* A length is told by its bytes.
LEMMA OctetsOf ==
  ASSUME NEW n \in Nat
  PROVE  /\ Octet(n, 1) \in Nat /\ Octet(n, 2) \in Nat /\ Octet(n, 3) \in Nat /\ Octet(n, 4) \in Nat
         /\ n = Octet(n, 1) + 256 * Octet(n, 2) + 65536 * Octet(n, 3) + 16777216 * Octet(n, 4)
<1> DEFINE a == n \div 256
           b == n \div 65536
           d == n \div 16777216
<1>1. /\ a \in Nat /\ b \in Nat /\ d \in Nat /\ n % 256 \in Nat /\ a % 256 \in Nat /\ b % 256 \in Nat
  OBVIOUS
<1>2. n = 256 * a + (n % 256)
  OBVIOUS
<1>3. a = 256 * b + (a % 256)
  OBVIOUS
<1>4. b = 256 * d + (b % 256)
  OBVIOUS
<1>5. /\ Octet(n, 1) = n % 256 /\ Octet(n, 2) = a % 256
      /\ Octet(n, 3) = b % 256 /\ Octet(n, 4) = d
  BY DEF Octet
<1>6. PICK q \in Nat, r \in Nat, s \in Nat : q = n % 256 /\ r = a % 256 /\ s = b % 256
  BY <1>1
<1> HIDE DEF a, b, d
<1>7. n = q + 256 * r + 65536 * s + 16777216 * d
  <2>1. n = 256 * a + q /\ a = 256 * b + r /\ b = 256 * d + s
    BY <1>2, <1>3, <1>4, <1>6
  <2> QED
    BY <1>1, <2>1
<1>8. Octet(n, 1) = q /\ Octet(n, 2) = r /\ Octet(n, 3) = s /\ Octet(n, 4) = d
  BY <1>5, <1>6
<1> QED
  BY <1>1, <1>6, <1>7, <1>8

\* The order of lengths by their bytes.
LEMMA LengthsOrdered ==
  ASSUME NEW k \in Nat, NEW m \in Nat, NEW n \in Nat
  PROVE  /\ ~LengthBefore(m, m)
         /\ LengthBefore(m, n) \/ LengthBefore(n, m) \/ m = n
         /\ LengthBefore(k, m) /\ LengthBefore(m, n) => LengthBefore(k, n)
<1>1. \A i \in 1..4 : Octet(k, i) \in Nat /\ Octet(m, i) \in Nat /\ Octet(n, i) \in Nat
  <2>1. \A i \in 1..4 : i = 1 \/ i = 2 \/ i = 3 \/ i = 4
    OBVIOUS
  <2>2. \A j \in {k, m, n} :
          Octet(j, 1) \in Nat /\ Octet(j, 2) \in Nat /\ Octet(j, 3) \in Nat /\ Octet(j, 4) \in Nat
    BY OctetsOf
  <2> QED
    BY <2>1, <2>2
<1>2. ~LengthBefore(m, m)
  BY <1>1 DEF LengthBefore
<1>3. m # n => \E i \in 1..4 : Octet(m, i) # Octet(n, i)
  BY OctetsOf
<1>4. LengthBefore(m, n) \/ LengthBefore(n, m) \/ m = n
  <2> SUFFICES ASSUME m # n
               PROVE  LengthBefore(m, n) \/ LengthBefore(n, m)
    OBVIOUS
  <2>1. \E i \in 1..4 : Octet(m, i) # Octet(n, i) /\ \A j \in 1..i - 1 : Octet(m, j) = Octet(n, j)
    BY <1>3
  <2>2. PICK i \in 1..4 : Octet(m, i) # Octet(n, i) /\ \A j \in 1..i - 1 : Octet(m, j) = Octet(n, j)
    BY <2>1
  <2>3. Octet(m, i) < Octet(n, i) \/ Octet(n, i) < Octet(m, i)
    BY <1>1, <2>2
  <2>4. \A j \in 1..i - 1 : Octet(n, j) = Octet(m, j)
    BY <2>2
  <2> QED
    BY <2>2, <2>3, <2>4 DEF LengthBefore
<1>5. ASSUME LengthBefore(k, m), LengthBefore(m, n)
      PROVE  LengthBefore(k, n)
  <2>1. PICK i \in 1..4 : Octet(k, i) < Octet(m, i) /\ \A j \in 1..i - 1 : Octet(k, j) = Octet(m, j)
    BY <1>5 DEF LengthBefore
  <2>2. PICK h \in 1..4 : Octet(m, h) < Octet(n, h) /\ \A j \in 1..h - 1 : Octet(m, j) = Octet(n, j)
    BY <1>5 DEF LengthBefore
  <2>3. PICK l \in 1..4 : l = IF i < h THEN i ELSE h
    OBVIOUS
  <2>4. Octet(k, l) < Octet(n, l)
    BY <1>1, <2>1, <2>2, <2>3
  <2>5. \A j \in 1..l - 1 : Octet(k, j) = Octet(n, j)
    BY <2>1, <2>2, <2>3
  <2> QED
    BY <2>4, <2>5 DEF LengthBefore
<1> QED
  BY <1>2, <1>4, <1>5
\* The order of the keys.
LEMMA KeysOrdered ==
  ASSUME SetAssumption, NEW f \in Fields, NEW g \in Fields, NEW i \in Fields
  PROVE  /\ ~StoredBefore(f, f)
         /\ f = g \/ StoredBefore(f, g) \/ StoredBefore(g, f)
         /\ StoredBefore(f, g) /\ StoredBefore(g, i) => StoredBefore(f, i)
<1>1. f \in Nat /\ g \in Nat /\ i \in Nat /\ Width[f] \in Nat /\ Width[g] \in Nat /\ Width[i] \in Nat
  BY DEF SetAssumption
<1>2. ~StoredBefore(f, f)
  BY <1>1, LengthsOrdered DEF StoredBefore
<1>3. f = g \/ StoredBefore(f, g) \/ StoredBefore(g, f)
  <2>1. LengthBefore(Width[f], Width[g]) \/ LengthBefore(Width[g], Width[f]) \/ Width[f] = Width[g]
    BY <1>1, LengthsOrdered
  <2>2. f = g \/ f < g \/ g < f
    BY <1>1
  <2> QED
    BY <2>1, <2>2 DEF StoredBefore
<1>4. ASSUME StoredBefore(f, g), StoredBefore(g, i)
      PROVE  StoredBefore(f, i)
  <2>1. LengthBefore(Width[f], Width[g]) /\ LengthBefore(Width[g], Width[i]) => LengthBefore(Width[f], Width[i])
    BY <1>1, LengthsOrdered
  <2>2. f < g /\ g < i => f < i
    BY <1>1
  <2> QED
    BY <1>4, <2>1, <2>2 DEF StoredBefore
<1> QED
  BY <1>2, <1>3, <1>4

\* The records of a hash as hgetall lists them.
LEMMA StoredIs ==
  ASSUME SetAssumption, NEW h
  PROVE  /\ Members(h) \subseteq Fields /\ IsFiniteSet(Members(h))
         /\ Lists(Stored(h), Members(h), StoredOrder)
         /\ Stored(h) \in Seq(Fields) /\ Range(Stored(h)) = Members(h) /\ Distinct(Stored(h))
<1>1. Members(h) \in SUBSET Fields /\ IsFiniteSet(Fields)
  BY DEF SetAssumption, Members
<1>2. IsFiniteSet(Members(h))
  BY <1>1, FS_Subset
<1> DEFINE M == Members(h)
<1>3. \A f, g \in M : <<f, g>> \in StoredOrder <=> StoredBefore(f, g)
  BY <1>1 DEF StoredOrder
<1>4. StrictOrder(M, StoredOrder)
  <2>1. \A f \in M : ~StoredBefore(f, f)
    BY <1>1, KeysOrdered
  <2>2. \A f, g \in M : f = g \/ StoredBefore(f, g) \/ StoredBefore(g, f)
    BY <1>1, KeysOrdered
  <2>3. \A f, g, i \in M : StoredBefore(f, g) /\ StoredBefore(g, i) => StoredBefore(f, i)
    BY <1>1, KeysOrdered
  <2> HIDE DEF M
  <2> QED
    BY <1>3, <2>1, <2>2, <2>3 DEF StrictOrder
<1>5. Lists(Stored(h), M, StoredOrder)
  <2>1. Lists(Listed(M, StoredOrder), M, StoredOrder)
    <3>1. IsFiniteSet(M)
      BY <1>2
    <3> HIDE DEF M
    <3> QED
      BY <1>4, <3>1, ListedIs
  <2> QED
    BY <2>1 DEF Stored
<1>6. Stored(h) \in Seq(M) /\ Range(Stored(h)) = M /\ Distinct(Stored(h))
  BY <1>5 DEF Lists, Distinct
<1>7. Stored(h) \in Seq(Fields)
  <2> HIDE DEF M
  <2>1. M \subseteq Fields
    BY <1>1 DEF M
  <2> QED
    BY <1>6, <2>1
<1> QED
  BY <1>1, <1>2, <1>5, <1>6, <1>7

\* Where the records come in the order of the strings.
LEMMA StoredRises ==
  ASSUME SetAssumption, NEW hs, InOrder(hs), NEW i \in DOMAIN hs
  PROVE  Rising(Stored(hs[i]))
<1> DEFINE s == Stored(hs[i])
<1>1. /\ Members(hs[i]) \subseteq Fields /\ Lists(s, Members(hs[i]), StoredOrder)
      /\ s \in Seq(Fields) /\ Range(s) = Members(hs[i])
  BY StoredIs
<1>2. DOMAIN s = 1..Len(s)
  BY <1>1
<1>3. Members(hs[i]) \subseteq Union(hs)
  BY <1>1 DEF Union
<1>4. ASSUME NEW k \in 1..Len(s), NEW l \in 1..Len(s), k < l
      PROVE  s[k] < s[l]
  <2>1. <<s[k], s[l]>> \in StoredOrder
    BY <1>1, <1>2, <1>4 DEF Lists, InOrderOf
  <2>2. s[k] \in Union(hs) /\ s[l] \in Union(hs)
    BY <1>1, <1>2, <1>3 DEF Range
  <2>3. StoredBefore(s[k], s[l])
    BY <2>1 DEF StoredOrder
  <2> QED
    BY <2>2, <2>3 DEF InOrder
<1> QED
  BY <1>4 DEF Rising

\* Two lists become one with every element once.
LEMMA JoinedIs ==
  ASSUME NEW S, NEW a \in Seq(S), NEW b \in Seq(S), Distinct(a), Distinct(b)
  PROVE  LET e == Joined(a, b)
         IN e \in Seq(S) /\ Distinct(e) /\ Range(e) = Range(a) \cup Range(b)
<1> DEFINE T == Range(b) \ Range(a)
           c == Only(b, T)
           e == a \o c
<1>1. c \in Seq(S) /\ Range(c) = Range(b) \cap T /\ Thins(c, b)
  BY OnlyIs
<1> HIDE DEF c
<1>2. Distinct(c)
  BY <1>1, ThinsKeeps
<1> DEFINE n == Len(a)
           m == Len(c)
<1>3. /\ n \in Nat /\ m \in Nat /\ e \in Seq(S) /\ Len(e) = n + m
      /\ \A i \in 1..n : e[i] = a[i]
      /\ \A i \in n + 1..n + m : e[i] = c[i - n]
      /\ DOMAIN a = 1..n /\ DOMAIN c = 1..m /\ DOMAIN e = 1..n + m
  BY <1>1
<1> HIDE DEF e, n, m
<1>4. \A i \in 1..n + m : i \notin 1..n => i \in n + 1..n + m /\ i - n \in 1..m
  BY <1>3
<1>5. \A i \in 1..m : n + i \in n + 1..n + m /\ n + i \in 1..n + m /\ (n + i) - n = i
  BY <1>3
<1>6. 1..n \subseteq 1..n + m
  BY <1>3
<1>7. Range(e) = Range(a) \cup Range(c)
  <2>1. \A x \in Range(e) : x \in Range(a) \cup Range(c)
    <3> SUFFICES ASSUME NEW i \in 1..n + m PROVE e[i] \in Range(a) \cup Range(c)
      BY <1>3 DEF Range
    <3>1. CASE i \in 1..n
      BY <1>3, <3>1 DEF Range
    <3>2. CASE i \notin 1..n
      BY <1>3, <1>4, <3>2 DEF Range
    <3> QED
      BY <3>1, <3>2
  <2>2. Range(a) \subseteq Range(e)
    BY <1>3, <1>6 DEF Range
  <2>3. Range(c) \subseteq Range(e)
    <3> SUFFICES ASSUME NEW i \in 1..m PROVE c[i] \in Range(e)
      BY <1>3 DEF Range
    <3>1. e[n + i] = c[i]
      BY <1>3, <1>5
    <3> QED
      BY <1>3, <1>5, <3>1 DEF Range
  <2> QED
    BY <2>1, <2>2, <2>3
<1>8. ASSUME NEW i \in 1..n + m, NEW j \in 1..n + m, e[i] = e[j]
      PROVE  i = j
  <2>1. CASE i \in 1..n /\ j \in 1..n
    BY <1>3, <1>8, <2>1 DEF Distinct, n
  <2>2. CASE i \notin 1..n /\ j \notin 1..n
    <3>1. c[i - n] = c[j - n] /\ i - n \in 1..m /\ j - n \in 1..m
      BY <1>3, <1>4, <1>8, <2>2
    <3>2. i - n = j - n
      BY <1>2, <3>1 DEF Distinct, m
    <3> QED
      BY <1>3, <3>2
  <2>3. ASSUME NEW k \in 1..n, NEW l \in 1..n + m, l \notin 1..n, e[k] = e[l]
        PROVE  FALSE
    <3>1. e[k] \in Range(a)
      BY <1>3 DEF Range
    <3>2. e[l] \in Range(c)
      BY <1>3, <1>4, <2>3 DEF Range
    <3> QED
      BY <1>1, <2>3, <3>1, <3>2
  <2> QED
    BY <1>8, <2>1, <2>2, <2>3
<1>9. Range(e) = Range(a) \cup Range(b)
  BY <1>1, <1>7
<1>10. Distinct(e)
  BY <1>3, <1>8 DEF Distinct
<1>11. Joined(a, b) = e
  BY DEF Joined, e, c
<1> QED
  BY <1>3, <1>9, <1>10, <1>11

\* What SUNION, SDIFF and SINTER have after i sets.
UnionOf(e, hs, i) ==
  /\ e \in Seq(Fields) /\ Distinct(e)
  /\ Range(e) = {f \in Fields : \E k \in 1..i : f \in Members(hs[k])}

DiffOf(e, hs, i) ==
  LET exact == {f \in Members(hs[1]) : \A k \in 2..i : f \notin Members(hs[k])}
  IN /\ e \in Seq(Fields) /\ exact \subseteq Range(e) /\ Range(e) \subseteq Members(hs[1])
     /\ InOrder(hs) => Rising(e) /\ Range(e) = exact

InterOf(e, hs, i) ==
  LET exact == {f \in Fields : \A k \in 1..i : f \in Members(hs[k])}
  IN /\ e \in Seq(Fields) /\ Range(e) \subseteq exact
     /\ InOrder(hs) => Rising(e) /\ Range(e) = exact

SoFar(op, e, hs, i) ==
  /\ op = "union" => UnionOf(e, hs, i)
  /\ op = "diff"  => DiffOf(e, hs, i)
  /\ op = "inter" => InterOf(e, hs, i)

SetOp == {"diff", "inter", "union"}

LEMMA CombinedIs ==
  /\ \A a, b : Combined("diff", a, b) = SetDifference(a, b)
  /\ \A a, b : Combined("inter", a, b) = SetIntersection(a, b)
  /\ \A a, b : Combined("union", a, b) = Joined(a, b)
<1>1. "diff" # "inter" /\ "diff" # "union" /\ "inter" # "union"
  OBVIOUS
<1> QED
  BY <1>1, Zenon DEF Combined

LEMMA CombinedTyping ==
  ASSUME SetAssumption, NEW op \in SetOp, NEW a \in Seq(Fields), NEW h
  PROVE  Combined(op, a, Stored(h)) \in Seq(Fields)
<1>1. Stored(h) \in Seq(Fields) /\ Fields \subseteq Nat
  BY StoredIs DEF SetAssumption
<1> DEFINE b == Stored(h)
<1> HIDE DEF b
<1>2. b \in Seq(Fields)
  BY <1>1 DEF b
<1>3. SetDifference(a, b) \in Seq(Fields)
  BY <1>1, <1>2, DiffIs
<1>4. SetIntersection(a, b) \in Seq(Fields)
  BY <1>1, <1>2, InterIs
<1>5. Joined(a, b) \in Seq(Fields)
  <2>1. Only(b, Range(b) \ Range(a)) \in Seq(Fields)
    BY <1>2, OnlyIs
  <2> QED
    BY <2>1 DEF Joined
<1>6. Combined(op, a, b) \in Seq(Fields)
  BY <1>3, <1>4, <1>5, CombinedIs DEF SetOp
<1> QED
  BY <1>6 DEF b

OfSetsBody(op, hs, d) ==
  [i \in DOMAIN hs |-> IF i = 1 THEN Stored(hs[1]) ELSE Combined(op, d[i - 1], Stored(hs[i]))]

LEMMA OfSetsRuns ==
  ASSUME SetAssumption, NEW op \in SetOp, NEW H, NEW hs \in Seq(H)
  PROVE  \E d : d = OfSetsBody(op, hs, d) /\ OfSets(op, hs) = d[Len(hs)]
<1> DEFINE D == DOMAIN hs
           X == Seq(Fields)
           m == [i \in D |-> i]
           Step(i, g) == IF i = 1 THEN Stored(hs[1]) ELSE Combined(op, g[i - 1], Stored(hs[i]))
           F == [i \in D |-> [g \in [D -> X] |-> Step(i, g)]]
<1>1. /\ Len(hs) \in Nat /\ D = 1..Len(hs) /\ X # {} /\ m \in [D -> Nat]
      /\ \A i \in D : m[i] <= Len(hs)
  <2>1. Len(hs) \in Nat /\ D = 1..Len(hs)
    OBVIOUS
  <2>2. X # {}
    BY EmptySeq
  <2> HIDE DEF X
  <2> QED
    BY <2>1, <2>2
<1>2. ASSUME NEW i \in D, NEW g \in [D -> X]
      PROVE  Step(i, g) \in X
  <2>1. i # 1 => i - 1 \in D
    BY <1>1
  <2>2. i # 1 => g[i - 1] \in X
    BY <2>1
  <2>3. Stored(hs[1]) \in X
    BY StoredIs
  <2>4. i # 1 => Combined(op, g[i - 1], Stored(hs[i])) \in X
    BY <2>2, CombinedTyping
  <2> QED
    BY <2>3, <2>4
<1>3. F \in [D -> [[D -> X] -> X]]
  <2> HIDE DEF D, X, Step
  <2> QED
    BY <1>2
<1>4. ASSUME NEW i \in D, NEW g \in [D -> X], NEW h \in [D -> X], \A j \in D : m[j] < m[i] => g[j] = h[j]
      PROVE  F[i][g] = F[i][h]
  <2>1. i # 1 => g[i - 1] = h[i - 1]
    <3>1. i # 1 => i - 1 \in D /\ i - 1 < i
      BY <1>1
    <3> QED
      BY <1>4, <3>1
  <2>2. Step(i, g) = Step(i, h)
    BY <2>1
  <2>3. F[i][g] = Step(i, g) /\ F[i][h] = Step(i, h)
    <3> HIDE DEF D, X, Step
    <3> QED
      OBVIOUS
  <2> QED
    BY <2>2, <2>3
<1>5. PICK f \in [D -> X] : Solves(f, F, D)
  <2>1. Founded(F, D, X, m)
    <3> HIDE DEF D, X, F, m
    <3> QED
      BY <1>4 DEF Founded
  <2> HIDE DEF D, X, F, m
  <2> QED
    BY <1>1, <1>3, <2>1, Recursion
<1>6. f = OfSetsBody(op, hs, f)
  <2>1. \A i \in D : f[i] = Step(i, f)
    <3> HIDE DEF D, X, Step
    <3> QED
      BY <1>5 DEF Solves
  <2>2. f = [i \in D |-> f[i]]
    BY <1>5
  <2>3. f = [i \in D |-> Step(i, f)]
    <3> HIDE DEF D, X, Step
    <3> QED
      BY <2>1, <2>2
  <2> QED
    BY <2>3 DEF OfSetsBody
<1> DEFINE d == CHOOSE g : g = OfSetsBody(op, hs, g)
<1>7. d = OfSetsBody(op, hs, d)
  <2> HIDE DEF F
  <2> QED
    BY <1>6, Zenon
<1>8. OfSets(op, hs) = d[Len(hs)]
  BY Zenon DEF OfSets, OfSetsBody
<1> HIDE DEF d
<1> QED
  BY <1>7, <1>8

\* The first set, and one more.
LEMMA FirstSet ==
  ASSUME SetAssumption, NEW op \in SetOp, NEW hs, 1 \in DOMAIN hs
  PROVE  SoFar(op, Stored(hs[1]), hs, 1)
<1> DEFINE e == Stored(hs[1])
           M == Members(hs[1])
<1>1. e \in Seq(Fields) /\ Range(e) = M /\ Distinct(e) /\ M \subseteq Fields
  BY StoredIs
<1>2. InOrder(hs) => Rising(e)
  BY StoredRises
<1>3. 1..1 = {1} /\ 2..1 = {}
  OBVIOUS
<1>4. M = {f \in Fields : \E k \in 1..1 : f \in Members(hs[k])}
  BY <1>1, <1>3
<1>5. M = {f \in M : \A k \in 2..1 : f \notin Members(hs[k])}
  BY <1>3
<1>6. M = {f \in Fields : \A k \in 1..1 : f \in Members(hs[k])}
  BY <1>1, <1>3
<1> HIDE DEF e
<1>7. UnionOf(e, hs, 1)
  BY <1>1, <1>4 DEF UnionOf
<1>8. DiffOf(e, hs, 1)
  BY <1>1, <1>2, <1>5 DEF DiffOf
<1>9. InterOf(e, hs, 1)
  BY <1>1, <1>2, <1>6 DEF InterOf
<1> QED
  BY <1>7, <1>8, <1>9 DEF SoFar, e

LEMMA OneMoreSet ==
  ASSUME SetAssumption, NEW op \in SetOp, NEW hs, NEW i \in DOMAIN hs, i \in Nat, 2 <= i, NEW e,
         SoFar(op, e, hs, i - 1)
  PROVE  SoFar(op, Combined(op, e, Stored(hs[i])), hs, i)
<1> DEFINE b == Stored(hs[i])
           M == Members(hs[i])
<1>1. b \in Seq(Fields) /\ Range(b) = M /\ Distinct(b) /\ M \subseteq Fields /\ Fields \subseteq Nat
  BY StoredIs DEF SetAssumption
<1>2. InOrder(hs) => Rising(b)
  BY StoredRises
<1>3. 1..i = (1..i - 1) \cup {i} /\ 2..i = (2..i - 1) \cup {i}
  OBVIOUS
<1> HIDE DEF b
<1>4. ASSUME op = "union"
      PROVE  UnionOf(Combined(op, e, b), hs, i)
  <2> DEFINE T(j) == {f \in Fields : \E k \in 1..j : f \in Members(hs[k])}
  <2>1. e \in Seq(Fields) /\ Distinct(e) /\ Range(e) = T(i - 1)
    BY <1>4 DEF SoFar, UnionOf
  <2>2. /\ Joined(e, b) \in Seq(Fields) /\ Distinct(Joined(e, b))
        /\ Range(Joined(e, b)) = Range(e) \cup Range(b)
    BY <1>1, <2>1, JoinedIs
  <2>3. T(i) = T(i - 1) \cup M
    BY <1>1, <1>3
  <2>4. Combined(op, e, b) = Joined(e, b)
    BY <1>4, CombinedIs
  <2> QED
    BY <1>1, <2>1, <2>2, <2>3, <2>4 DEF UnionOf
<1>5. ASSUME op = "diff"
      PROVE  DiffOf(Combined(op, e, b), hs, i)
  <2> DEFINE T(j) == {f \in Members(hs[1]) : \A k \in 2..j : f \notin Members(hs[k])}
             d == SetDifference(e, b)
  <2>1. /\ e \in Seq(Fields) /\ T(i - 1) \subseteq Range(e) /\ Range(e) \subseteq Members(hs[1])
        /\ InOrder(hs) => Rising(e) /\ Range(e) = T(i - 1)
    BY <1>5 DEF SoFar, DiffOf
  <2>2. /\ d \in Seq(Fields) /\ Range(d) \subseteq Range(e) /\ Range(e) \ Range(b) \subseteq Range(d)
        /\ Rising(e) /\ Rising(b) => Rising(d) /\ Range(d) = Range(e) \ Range(b)
    BY <1>1, <2>1, DiffIs
  <2>3. T(i) = T(i - 1) \ M
    BY <1>3
  <2>4. Combined(op, e, b) = d
    BY <1>5, CombinedIs
  <2> HIDE DEF d
  <2>5. InOrder(hs) => Rising(d) /\ Range(d) = T(i)
    BY <1>1, <1>2, <2>1, <2>2, <2>3
  <2>6. T(i) \subseteq Range(d) /\ Range(d) \subseteq Members(hs[1])
    BY <1>1, <2>1, <2>2, <2>3
  <2> QED
    BY <2>2, <2>4, <2>5, <2>6 DEF DiffOf
<1>6. ASSUME op = "inter"
      PROVE  InterOf(Combined(op, e, b), hs, i)
  <2> DEFINE T(j) == {f \in Fields : \A k \in 1..j : f \in Members(hs[k])}
             d == SetIntersection(e, b)
  <2>1. /\ e \in Seq(Fields) /\ Range(e) \subseteq T(i - 1)
        /\ InOrder(hs) => Rising(e) /\ Range(e) = T(i - 1)
    BY <1>6 DEF SoFar, InterOf
  <2>2. /\ d \in Seq(Fields) /\ Range(d) \subseteq Range(e) \cap Range(b)
        /\ Rising(e) /\ Rising(b) => Rising(d) /\ Range(d) = Range(e) \cap Range(b)
    BY <1>1, <2>1, InterIs
  <2>3. T(i) = T(i - 1) \cap M
    BY <1>1, <1>3
  <2>4. Combined(op, e, b) = d
    BY <1>6, CombinedIs
  <2> HIDE DEF d
  <2>5. InOrder(hs) => Rising(d) /\ Range(d) = T(i)
    BY <1>1, <1>2, <2>1, <2>2, <2>3
  <2>6. Range(d) \subseteq T(i)
    BY <1>1, <2>1, <2>2, <2>3
  <2> QED
    BY <2>2, <2>4, <2>5, <2>6 DEF InterOf
<1> QED
  BY <1>4, <1>5, <1>6 DEF SoFar, b

LEMMA OfSetsIs ==
  ASSUME SetAssumption, NEW op \in SetOp, NEW H, NEW hs \in Seq(H), hs # <<>>
  PROVE  SoFar(op, OfSets(op, hs), hs, Len(hs))
<1>1. PICK d : d = OfSetsBody(op, hs, d) /\ OfSets(op, hs) = d[Len(hs)]
  BY OfSetsRuns
<1> DEFINE D == DOMAIN hs
           m == [i \in D |-> i]
           P == {i \in D : SoFar(op, d[i], hs, i)}
<1>2. Len(hs) \in D /\ 1 \in D /\ D = 1..Len(hs) /\ Len(hs) \in Nat /\ m \in [D -> Nat]
  <2>1. Len(hs) \in Nat /\ D = 1..Len(hs) /\ Len(hs) # 0
    BY EmptySeq
  <2> QED
    BY <2>1
<1>3. ASSUME NEW i \in D, \A j \in D : m[j] < m[i] => j \in P
      PROVE  i \in P
  <2>1. CASE i = 1
    <3>1. d[1] = Stored(hs[1])
      BY <1>1, <1>2 DEF OfSetsBody
    <3> QED
      BY <1>2, <2>1, <3>1, FirstSet
  <2>2. CASE i # 1
    <3>1. i \in Nat /\ 2 <= i /\ i - 1 \in D /\ i - 1 < i
      BY <1>2, <2>2
    <3>2. i - 1 \in P
      BY <1>3, <3>1
    <3>3. SoFar(op, d[i - 1], hs, i - 1)
      BY <3>2
    <3>4. d[i] = Combined(op, d[i - 1], Stored(hs[i]))
      BY <1>1, <2>2 DEF OfSetsBody
    <3>5. SoFar(op, d[i], hs, i)
      BY <3>1, <3>3, <3>4, OneMoreSet
    <3> QED
      BY <3>5
  <2> QED
    BY <2>1, <2>2
<1>4. D \subseteq P
  <2>1. m \in [D -> Nat] /\ \A i \in D : (\A j \in D : m[j] < m[i] => j \in P) => i \in P
    <3> HIDE DEF P, m
    <3> QED
      BY <1>2, <1>3
  <2> HIDE DEF D, P, m
  <2> QED
    BY <2>1, ByMeasure
<1>5. Len(hs) \in P
  BY <1>2, <1>4
<1> QED
  BY <1>1, <1>5

\* A list without repetitions is as long as its set is large.
LEMMA DistinctLength ==
  ASSUME NEW S, NEW e \in Seq(S), Distinct(e)
  PROVE  Len(e) = Cardinality(Range(e))
<1> DEFINE n == Len(e)
           R == Range(e)
<1>1. n \in Nat /\ IsFiniteSet(1..n) /\ Cardinality(1..n) = n /\ DOMAIN e = 1..n
  <2>1. n \in Nat /\ DOMAIN e = 1..n
    OBVIOUS
  <2> HIDE DEF n
  <2> QED
    BY <2>1, FS_Interval
<1>2. e \in Surjection(1..n, R) /\ e \in Injection(1..n, R)
  <2>1. e = [i \in 1..n |-> e[i]]
    BY <1>1
  <2>2. e \in [1..n -> R]
    BY <1>1, <2>1 DEF Range
  <2>3. \A x \in R : \E i \in 1..n : e[i] = x
    BY <1>1 DEF Range
  <2>4. \A i, j \in 1..n : e[i] = e[j] => i = j
    BY DEF Distinct
  <2> QED
    BY <2>2, <2>3, <2>4 DEF Surjection, Injection, IsInjective
<1> DEFINE I == 1..n
<1> HIDE DEF I, R
<1>3. e \in Surjection(I, R) /\ e \in Injection(I, R) /\ IsFiniteSet(I) /\ Cardinality(I) = n
  BY <1>1, <1>2 DEF I
<1>4. IsFiniteSet(R) /\ Cardinality(R) <= Cardinality(I)
  BY <1>3, FS_Surjection
<1>5. Cardinality(I) <= Cardinality(R)
  BY <1>3, <1>4, FS_Injection
<1>6. Cardinality(R) \in Nat /\ Cardinality(I) \in Nat
  BY <1>3, <1>4, FS_CardinalityType
<1> QED
  BY <1>3, <1>4, <1>5, <1>6 DEF R

\* SUNION returns every member of its sets once.  SDIFF returns at least the difference
\* and members of the first set only, SINTER at most the intersection; both are exact
\* where leveldb keeps the members in the order that std::set_difference and
\* std::set_intersection compare by (ZSetCmdHandler sunion, sdiff, sinter).
THEOREM CollectionSets == Spec => []SetReadsAgree
<1>1. TypeOK => SetReadsAgree
  <2> SUFFICES ASSUME TypeOK, NEW from \in SourceLists
               PROVE  LET hs == [i \in DOMAIN from |-> store[from[i]]]
                          diff  == Range(OfSets("diff", hs))
                          inter == Range(OfSets("inter", hs))
                      IN /\ Range(OfSets("union", hs)) = Union(hs)
                         /\ Len(OfSets("union", hs)) = Cardinality(Union(hs))
                         /\ Difference(hs) \subseteq diff /\ diff \subseteq Members(hs[1])
                         /\ inter \subseteq Intersection(hs)
                         /\ InOrder(hs) => diff = Difference(hs) /\ inter = Intersection(hs)
    BY DEF SetReadsAgree
  <2> DEFINE hs == [i \in DOMAIN from |-> store[from[i]]]
             H == [Fields -> OfKind(kind)]
  <2>1. SetAssumption /\ from \in Seq(Names) \ {<<>>}
    BY CollectionAssumption
  <2>2. hs \in Seq(H) /\ hs # <<>> /\ DOMAIN hs = 1..Len(hs)
    <3>1. store \in [Names -> H]
      BY DEF TypeOK
    <3> HIDE DEF H
    <3>2. /\ Len(from) \in Nat /\ DOMAIN from = 1..Len(from) /\ Len(from) # 0
          /\ \A i \in 1..Len(from) : from[i] \in Names
      BY <2>1, EmptySeq
    <3>3. hs \in [1..Len(from) -> H]
      BY <3>1, <3>2
    <3>4. hs \in Seq(H) /\ Len(hs) = Len(from)
      BY <3>2, <3>3
    <3> QED
      BY <3>2, <3>4
  <2> HIDE DEF hs, H
  <2>3. UnionOf(OfSets("union", hs), hs, Len(hs))
    BY <2>1, <2>2, OfSetsIs DEF SoFar, SetOp
  <2>4. DiffOf(OfSets("diff", hs), hs, Len(hs))
    BY <2>1, <2>2, OfSetsIs DEF SoFar, SetOp
  <2>5. InterOf(OfSets("inter", hs), hs, Len(hs))
    BY <2>1, <2>2, OfSetsIs DEF SoFar, SetOp
  <2>6. /\ Range(OfSets("union", hs)) = Union(hs)
        /\ Len(OfSets("union", hs)) = Cardinality(Union(hs))
    <3>1. Range(OfSets("union", hs)) = Union(hs)
      BY <2>2, <2>3 DEF UnionOf, Union
    <3> QED
      BY <2>3, <3>1, DistinctLength DEF UnionOf
  <2>7. /\ Difference(hs) \subseteq Range(OfSets("diff", hs))
        /\ Range(OfSets("diff", hs)) \subseteq Members(hs[1])
        /\ InOrder(hs) => Range(OfSets("diff", hs)) = Difference(hs)
    BY <2>4 DEF DiffOf, Difference
  <2>8. /\ Range(OfSets("inter", hs)) \subseteq Intersection(hs)
        /\ InOrder(hs) => Range(OfSets("inter", hs)) = Intersection(hs)
    BY <2>2, <2>5 DEF InterOf, Intersection
  <2> QED
    BY <2>6, <2>7, <2>8 DEF hs
<1> QED
  BY <1>1, CollectionTyping, PTL

-----------------------------------------------------------------------------
(* The reads of a sorted set *)

\* An order leaves one list of a set.
LEMMA OneOrder ==
  ASSUME NEW S, NEW R, StrictOrder(S, R),
         NEW a \in Seq(S), NEW b \in Seq(S), InOrderOf(a, R), InOrderOf(b, R), Range(a) = Range(b)
  PROVE  a = b
<1>0. /\ Len(a) \in Nat /\ Len(b) \in Nat /\ DOMAIN a = 1..Len(a) /\ DOMAIN b = 1..Len(b)
      /\ \A i \in 1..Len(a) : a[i] \in S
      /\ \A i \in 1..Len(b) : b[i] \in S
  OBVIOUS
<1>1. Distinct(a) /\ Distinct(b)
  <2>1. ASSUME NEW s, Len(s) \in Nat, DOMAIN s = 1..Len(s), InOrderOf(s, R), \A i \in 1..Len(s) : s[i] \in S
        PROVE  Distinct(s)
    <3>1. \A i, j \in 1..Len(s) : i < j => s[i] # s[j]
      BY <2>1 DEF InOrderOf, StrictOrder
    <3> QED
      BY <2>1, <3>1 DEF Distinct
  <2> QED
    BY <1>0, <2>1
<1>2. Len(a) = Len(b)
  BY <1>1, DistinctLength
<1> DEFINE n == Len(a)
           Bad == {i \in 1..n : a[i] # b[i]}
<1>3. ASSUME Bad # {}
      PROVE  FALSE
  <2>1. PICK i \in Bad : \A j \in Bad : i <= j
    <3>1. Bad \subseteq Nat
      BY <1>0
    <3> HIDE DEF Bad
    <3> QED
      BY <1>3, <3>1, LeastNat
  <2>2. i \in 1..n /\ a[i] # b[i] /\ i \in Nat
    BY <1>0, <2>1
  <2>3. \A j \in 1..n : j < i => a[j] = b[j]
    BY <1>0, <2>1, <2>2
  <2>4. PICK k \in 1..n : a[k] = b[i]
    BY <1>0, <1>2, <2>2 DEF Range
  <2>5. PICK l \in 1..n : b[l] = a[i]
    BY <1>0, <1>2, <2>2 DEF Range
  <2>6. k \in Nat /\ l \in Nat /\ k # i /\ l # i
    BY <1>0, <2>2, <2>4, <2>5
  <2>7. ~(k < i)
    BY <1>1, <1>2, <2>2, <2>3, <2>4, <2>6 DEF Distinct
  <2>8. ~(l < i)
    BY <1>1, <1>2, <2>2, <2>3, <2>5, <2>6 DEF Distinct
  <2>9. i < k /\ i < l
    BY <2>2, <2>6, <2>7, <2>8
  <2>10. <<a[i], b[i]>> \in R
    BY <1>0, <2>2, <2>4, <2>9 DEF InOrderOf
  <2>11. <<b[i], a[i]>> \in R
    BY <1>0, <1>2, <2>2, <2>5, <2>9 DEF InOrderOf
  <2>12. a[i] \in S /\ b[i] \in S
    BY <1>0, <1>2, <2>2
  <2> QED
    BY <2>10, <2>11, <2>12 DEF StrictOrder
<1>4. \A i \in 1..n : a[i] = b[i]
  BY <1>3
<1> QED
  BY <1>2, <1>4, SeqEqual

Backwards(S, R) == {p \in S \X S : <<p[2], p[1]>> \in R}

\* The list from its end.
LEMMA Reversed ==
  ASSUME NEW S, NEW s \in Seq(S)
  PROVE  LET r == Reverse(s)
         IN /\ r \in Seq(S) /\ Len(r) = Len(s) /\ Range(r) = Range(s)
            /\ \A i \in 1..Len(s) : r[i] = s[Len(s) - i + 1] /\ Len(s) - i + 1 \in 1..Len(s)
            /\ Distinct(s) => Distinct(r)
            /\ \A R : InOrderOf(s, R) => InOrderOf(r, Backwards(S, R))
<1> DEFINE n == Len(s)
           r == Reverse(s)
<1>1. n \in Nat /\ DOMAIN s = 1..n
  OBVIOUS
<1>2. \A i \in 1..n : n - i + 1 \in 1..n /\ n - (n - i + 1) + 1 = i
  BY <1>1
<1>3. /\ r \in Seq(S) /\ Len(r) = n /\ DOMAIN r = 1..n
      /\ \A i \in 1..n : r[i] = s[n - i + 1] /\ r[i] \in S
  <2>1. r = [i \in 1..n |-> s[n - i + 1]]
    BY DEF Reverse
  <2>2. \A i \in 1..n : s[n - i + 1] \in S
    BY <1>1, <1>2
  <2> HIDE DEF r, n
  <2>3. r \in [1..n -> S]
    BY <2>1, <2>2
  <2>4. r \in Seq(S) /\ Len(r) = n
    BY <1>1, <2>3
  <2> QED
    BY <2>1, <2>3, <2>4
<1> HIDE DEF r, n
<1>4. Range(r) = Range(s)
  BY <1>1, <1>2, <1>3 DEF Range
<1>5. ASSUME Distinct(s)
      PROVE  Distinct(r)
  <2> SUFFICES ASSUME NEW i \in 1..n, NEW j \in 1..n, r[i] = r[j]
               PROVE  i = j
    BY <1>3 DEF Distinct
  <2>1. n - i + 1 = n - j + 1
    BY <1>2, <1>3, <1>5 DEF Distinct, n
  <2> QED
    BY <1>1, <2>1
<1>6. ASSUME NEW R, InOrderOf(s, R)
      PROVE  InOrderOf(r, Backwards(S, R))
  <2> SUFFICES ASSUME NEW i \in 1..n, NEW j \in 1..n, i < j
               PROVE  <<r[i], r[j]>> \in Backwards(S, R)
    BY <1>3 DEF InOrderOf
  <2>1. n - j + 1 < n - i + 1
    BY <1>1
  <2>2. <<s[n - j + 1], s[n - i + 1]>> \in R
    BY <1>1, <1>2, <1>6, <2>1 DEF InOrderOf
  <2>3. <<r[j], r[i]>> \in R /\ r[i] \in S /\ r[j] \in S
    BY <1>3, <2>2
  <2> QED
    BY <2>3 DEF Backwards
<1> QED
  BY <1>1, <1>2, <1>3, <1>4, <1>5, <1>6 DEF r, n

\* To select is to select from the end, to list the end first.
LEMMA OnlyReversed ==
  ASSUME NEW S, NEW s \in Seq(S), NEW R, StrictOrder(S, R), InOrderOf(s, R), NEW T
  PROVE  Only(Reverse(s), T) = Reverse(Only(s, T))
<1> DEFINE Q == Backwards(S, R)
           r == Reverse(s)
           a == Only(r, T)
           e == Only(s, T)
           b == Reverse(e)
<1>1. r \in Seq(S) /\ Range(r) = Range(s) /\ InOrderOf(r, Q)
  BY Reversed
<1>2. a \in Seq(S) /\ Range(a) = Range(r) \cap T /\ Thins(a, r)
  BY <1>1, OnlyIs
<1>3. e \in Seq(S) /\ Range(e) = Range(s) \cap T /\ Thins(e, s)
  BY OnlyIs
<1> HIDE DEF a, e, r
<1>4. InOrderOf(a, Q)
  <2> HIDE DEF Q
  <2> QED
    BY <1>1, <1>2, ThinsKeeps
<1>5. InOrderOf(e, R)
  BY <1>3, ThinsKeeps
<1>6. b \in Seq(S) /\ Range(b) = Range(e) /\ InOrderOf(b, Q)
  BY <1>3, <1>5, Reversed
<1>7. StrictOrder(S, Q)
  BY DEF StrictOrder, Backwards
<1> HIDE DEF b, Q
<1>8. a = b
  BY <1>1, <1>2, <1>3, <1>4, <1>6, <1>7, OneOrder
<1> QED
  BY <1>8 DEF a, b, e, r

\* The items by score, those of one score in the order of the records.
LEMMA AscendingIs ==
  ASSUME SetAssumption, NEW h, \A f \in Members(h) : h[f] \in Int
  PROVE  LET s == Ascending(h)
         IN /\ s \in Seq(Fields) /\ Range(s) = Members(h) /\ Distinct(s) /\ Len(s) = Card(h)
            /\ s \in Seq(Members(h)) /\ StrictOrder(Members(h), ScoreOrder(h)) /\ InOrderOf(s, ScoreOrder(h))
<1> DEFINE M == Members(h)
           R == ScoreOrder(h)
           s == Ascending(h)
<1>1. M \subseteq Fields /\ IsFiniteSet(M) /\ Lists(Stored(h), M, StoredOrder)
  BY StoredIs
<1>2. \A f, g \in M : <<f, g>> \in R <=> h[f] < h[g] \/ (h[f] = h[g] /\ StoredBefore(f, g))
  BY DEF ScoreOrder
<1>3. StrictOrder(M, R)
  <2>1. \A f \in M : h[f] \in Int
    OBVIOUS
  <2>2. \A f \in M : ~StoredBefore(f, f)
    BY <1>1, KeysOrdered
  <2>3. \A f, g \in M : f = g \/ StoredBefore(f, g) \/ StoredBefore(g, f)
    BY <1>1, KeysOrdered
  <2>4. \A f, g, i \in M : StoredBefore(f, g) /\ StoredBefore(g, i) => StoredBefore(f, i)
    BY <1>1, KeysOrdered
  <2> HIDE DEF M, R
  <2>5. \A f \in M : <<f, f>> \notin R
    BY <1>2, <2>1, <2>2
  <2>6. \A f, g \in M : f = g \/ <<f, g>> \in R \/ <<g, f>> \in R
    <3> SUFFICES ASSUME NEW f \in M, NEW g \in M, f # g
                 PROVE  <<f, g>> \in R \/ <<g, f>> \in R
      OBVIOUS
    <3>1. h[f] \in Int /\ h[g] \in Int
      BY <2>1
    <3>2. h[f] < h[g] \/ h[g] < h[f] \/ h[f] = h[g]
      BY <3>1
    <3> QED
      BY <1>2, <2>3, <3>2
  <2>7. \A f, g, i \in M : <<f, g>> \in R /\ <<g, i>> \in R => <<f, i>> \in R
    BY <1>2, <2>1, <2>4
  <2> QED
    BY <2>5, <2>6, <2>7 DEF StrictOrder
<1>4. Lists(s, M, R)
  <2>1. Lists(Listed(M, R), M, R)
    <3> HIDE DEF M, R
    <3> QED
      BY <1>1, <1>3, ListedIs
  <2> QED
    BY <2>1 DEF Ascending
<1>5. s \in Seq(M) /\ Range(s) = M /\ Distinct(s) /\ Len(s) = Card(h) /\ InOrderOf(s, R)
  BY <1>1, <1>4 DEF Lists, Distinct, Card
<1>6. s \in Seq(Fields)
  <2> HIDE DEF M, s
  <2> QED
    BY <1>1, <1>5
<1> QED
  BY <1>3, <1>5, <1>6

\* The place of an element.
LEMMA RankIs ==
  ASSUME NEW S, NEW s \in Seq(S), Distinct(s), NEW i \in 1..Len(s)
  PROVE  ZRank(s, s[i]) = i - 1
<1>1. DOMAIN s = 1..Len(s)
  OBVIOUS
<1>2. s[i] \in Range(s)
  BY <1>1 DEF Range
<1>3. (CHOOSE j \in DOMAIN s : s[j] = s[i]) = i
  BY <1>1 DEF Distinct
<1> QED
  BY <1>2, <1>3 DEF ZRank

LEMMA RankAtEnds ==
  ASSUME NEW S, NEW s \in Seq(S), Distinct(s), NEW f \in Range(s)
  PROVE  /\ \E i \in 1..Len(s) : f = s[i] /\ ZRank(s, f) = i - 1
         /\ ZRank(s, f) \in 0..Len(s) - 1
         /\ ZRange(s, ZRank(s, f), ZRank(s, f)) = <<f>>
         /\ ZRevRank(s, f) = Len(s) - 1 - ZRank(s, f)
<1> DEFINE n == Len(s)
           r == Reverse(s)
<1>1. PICK i \in 1..n : f = s[i]
  BY DEF Range
<1>2. ZRank(s, f) = i - 1 /\ n \in Nat /\ i \in Nat
  BY <1>1, RankIs
<1>3. ZRange(s, i - 1, i - 1) = <<f>>
  <2>1. s # <<>>
    BY <1>1, EmptySeq
  <2>2. ToIndex(i - 1, n) = i - 1
    BY <1>2 DEF ToIndex, FromEnd, CutToList
  <2>3. ZRange(s, i - 1, i - 1) = SubSeq(s, i, i)
    BY <1>2, <2>1, <2>2 DEF ZRange
  <2>4. SubSeq(s, i, i) = <<s[i]>>
    <3>1. i \in Int /\ \A k \in i..i : s[k] \in S
      <4>1. i..i = {i} /\ s[i] \in S
        BY <1>2
      <4> QED
        BY <1>2, <4>1
    <3> DEFINE e == SubSeq(s, i, i)
    <3>2. /\ e \in Seq(S) /\ Len(e) = IF i <= i THEN i - i + 1 ELSE 0
          /\ \A k \in 1..i - i + 1 : e[k] = s[i + k - 1]
      BY <3>1, SubSeqProperties
    <3> HIDE DEF e
    <3>3. Len(e) = 1 /\ e[1] = s[i]
      <4>1. 1 \in 1..i - i + 1 /\ i + 1 - 1 = i /\ i - i + 1 = 1 /\ i <= i
        BY <3>1
      <4> QED
        BY <3>2, <4>1
    <3>4. e = <<s[i]>>
      BY <3>2, <3>3
    <3> QED
      BY <3>4 DEF e
  <2> QED
    BY <1>1, <2>3, <2>4
<1>4. ZRevRank(s, f) = n - i
  <2> DEFINE k == n - i + 1
  <2>1. /\ r \in Seq(S) /\ Len(r) = n /\ Distinct(r) /\ k \in 1..n
        /\ \A j \in 1..n : r[j] = s[n - j + 1]
    <3>1. k \in 1..n
      BY <1>2
    <3> QED
      BY <3>1, Reversed
  <2>2. r[k] = f
    <3>1. n - k + 1 = i
      BY <1>2
    <3> QED
      BY <1>1, <2>1, <3>1
  <2> HIDE DEF k, r
  <2>3. ZRank(r, r[k]) = k - 1
    BY <2>1, RankIs
  <2>4. k - 1 = n - i
    BY <1>2 DEF k
  <2> QED
    BY <2>2, <2>3, <2>4 DEF ZRevRank, r
<1>5. n - 1 - (i - 1) = n - i /\ i - 1 \in 0..n - 1
  BY <1>2
<1> QED
  BY <1>1, <1>2, <1>3, <1>4, <1>5

\* A slice of the list from its end.
LEMMA RevRangeIs ==
  ASSUME NEW S, NEW s \in Seq(S), NEW i \in -Len(s)..Len(s) - 1, NEW j \in -Len(s)..Len(s) - 1
  PROVE  ZRevRange(s, i, j) = Reverse(ZRange(s, -1 - j, -1 - i))
<1> DEFINE n == Len(s)
           r == Reverse(s)
           a == ToIndex(i, n)
           b == ToIndex(j, n)
<1>1. n \in Nat /\ i \in Int /\ j \in Int /\ n > 0 /\ s # <<>>
  <2>1. n \in Nat
    OBVIOUS
  <2>2. i \in Int /\ j \in Int /\ n > 0
    BY <2>1
  <2> QED
    BY <2>1, <2>2, EmptySeq
<1>2. /\ a \in 0..n - 1 /\ b \in 0..n - 1
      /\ ToIndex(-1 - j, n) = n - 1 - b /\ ToIndex(-1 - i, n) = n - 1 - a
  <2>1. i \in -n..n - 1 /\ j \in -n..n - 1
    OBVIOUS
  <2> HIDE DEF n
  <2> QED
    BY <1>1, <2>1 DEF ToIndex, FromEnd, CutToList
<1>3. r \in Seq(S) /\ Len(r) = n /\ \A k \in 1..n : r[k] = s[n - k + 1]
  BY Reversed
<1>4. r # <<>>
  BY <1>1, <1>3, EmptySeq
<1> DEFINE e == SubSeq(r, a + 1, b + 1)
           d == SubSeq(s, n - b, n - a)
           z == IF a <= b THEN b - a + 1 ELSE 0
<1>5. ZRevRange(s, i, j) = e
  BY <1>3, <1>4 DEF ZRevRange, ZRange
<1>6. ZRange(s, -1 - j, -1 - i) = d
  <2>1. (n - 1 - b) + 1 = n - b /\ (n - 1 - a) + 1 = n - a
    <3> HIDE DEF a, b, n
    <3> QED
      BY <1>1, <1>2
  <2> QED
    BY <1>1, <1>2, <2>1 DEF ZRange
<1> HIDE DEF a, b, r, n
<1>7. e \in Seq(S) /\ Len(e) = z /\ \A k \in 1..z : e[k] = r[a + k]
  <2>1. a + 1 \in 1..n + 1 /\ b + 1 \in 0..n /\ a \in Int /\ b \in Int
    BY <1>1, <1>2
  <2>2. /\ SubSeq(r, a + 1, b + 1) \in Seq(S)
        /\ Len(SubSeq(r, a + 1, b + 1)) = IF a + 1 <= b + 1 THEN (b + 1) - (a + 1) + 1 ELSE 0
        /\ \A k \in 1..(b + 1) - (a + 1) + 1 : SubSeq(r, a + 1, b + 1)[k] = r[a + 1 + k - 1]
    <3>1. \A k \in (a + 1)..(b + 1) : r[k] \in S
      BY <1>2, <1>3
    <3> QED
      BY <2>1, <3>1, SubSeqProperties
  <2>3. z = IF a + 1 <= b + 1 THEN (b + 1) - (a + 1) + 1 ELSE 0
    BY <2>1
  <2>4. \A k \in 1..z : k \in 1..(b + 1) - (a + 1) + 1 /\ a + 1 + k - 1 = a + k
    BY <2>1
  <2> HIDE DEF z
  <2> QED
    BY <2>2, <2>3, <2>4
<1>8. d \in Seq(S) /\ Len(d) = z /\ \A k \in 1..z : d[k] = s[n - b + k - 1]
  <2>1. n - b \in 1..n + 1 /\ n - a \in 0..n /\ a \in Int /\ b \in Int
    BY <1>1, <1>2
  <2>2. /\ SubSeq(s, n - b, n - a) \in Seq(S)
        /\ Len(SubSeq(s, n - b, n - a)) = IF n - b <= n - a THEN (n - a) - (n - b) + 1 ELSE 0
        /\ \A k \in 1..(n - a) - (n - b) + 1 : SubSeq(s, n - b, n - a)[k] = s[n - b + k - 1]
    <3>1. \A k \in (n - b)..(n - a) : s[k] \in S
      <4>1. \A k \in (n - b)..(n - a) : k \in 1..n
        BY <1>1, <1>2
      <4> QED
        BY <4>1 DEF n
    <3>2. n - b \in Int /\ n - a \in Int
      BY <2>1
    <3> DEFINE u == n - b
               v == n - a
    <3> HIDE DEF u, v
    <3>3. /\ SubSeq(s, u, v) \in Seq(S)
          /\ Len(SubSeq(s, u, v)) = IF u <= v THEN v - u + 1 ELSE 0
          /\ \A k \in 1..v - u + 1 : SubSeq(s, u, v)[k] = s[u + k - 1]
      <4>1. u \in Int /\ v \in Int /\ \A k \in u..v : s[k] \in S
        BY <3>1, <3>2 DEF u, v
      <4> QED
        BY <4>1, SubSeqProperties
    <3> QED
      BY <3>3 DEF u, v
  <2>3. z = IF n - b <= n - a THEN (n - a) - (n - b) + 1 ELSE 0
    BY <1>1, <2>1
  <2>4. \A k \in 1..z : k \in 1..(n - a) - (n - b) + 1
    BY <1>1, <2>1
  <2> HIDE DEF z, d
  <2> QED
    BY <2>2, <2>3, <2>4 DEF d
<1>9. z \in Nat
  BY <1>2
<1> HIDE DEF d, e
<1>10. Reverse(d) \in Seq(S) /\ Len(Reverse(d)) = z /\ \A k \in 1..z : Reverse(d)[k] = d[z - k + 1]
  BY <1>8, Reversed
<1>11. ASSUME NEW k \in 1..z
       PROVE  e[k] = Reverse(d)[k]
  <2>1. /\ z - k + 1 \in 1..z /\ a + k \in 1..n
        /\ n - b + (z - k + 1) - 1 = n - (a + k) + 1
    BY <1>1, <1>2, <1>11
  <2>2. e[k] = s[n - (a + k) + 1]
    BY <1>3, <1>7, <2>1
  <2>3. d[z - k + 1] = s[n - b + (z - k + 1) - 1]
    BY <1>8, <2>1
  <2> QED
    BY <1>10, <2>1, <2>2, <2>3
<1>12. e = Reverse(d)
  <2> HIDE DEF z
  <2> QED
    BY <1>7, <1>10, <1>11, SeqEqual
<1> QED
  BY <1>5, <1>6, <1>12

\* Two pages that LIMIT cuts.
LEMMA PagesJoin ==
  ASSUME NEW S, NEW s \in Seq(S), NEW i \in Nat
  PROVE  LET page == Limit(s, 0, i)
             rest == Limit(s, i, -1)
         IN /\ page.sent \o rest.sent = s
            /\ page.announced = Len(page.sent) /\ rest.announced = Len(rest.sent)
<1> DEFINE n == Len(s)
           None == [announced |-> 0, sent |-> <<>>]
           page == Limit(s, 0, i)
           rest == Limit(s, i, -1)
<1>1. n \in Nat /\ 0 \in Int /\ 1 \in Int /\ SubSeq(s, 1, n) = s
  BY SubSeqFull
<1> HIDE DEF page, rest
<1>2. Len(<<>>) = 0 /\ <<>> \o <<>> = <<>> /\ s \o <<>> = s
  BY ConcatEmptySeq
<1> DEFINE Join == /\ page.sent \o rest.sent = s
                  /\ page.announced = Len(page.sent) /\ rest.announced = Len(rest.sent)
<1> HIDE DEF n
<1>3. ASSUME n = 0 PROVE Join
  <2>1. s = <<>>
    BY <1>3, EmptySeq DEF n
  <2>2. page = None /\ rest = None
    BY <1>3 DEF Limit, page, rest, n
  <2> QED
    BY <1>2, <2>1, <2>2
<1>4. ASSUME n > 0, i >= n PROVE Join
  <2>1. page = [announced |-> n, sent |-> s]
    <3>1. CASE i > n
      <4>1. page = [announced |-> n - 0, sent |-> SubSeq(s, 0 + 1, n)]
        BY <1>1, <1>4, <3>1 DEF Limit, page, rest, n
      <4>2. n - 0 = n /\ 0 + 1 = 1
        BY <1>1
      <4> QED
        BY <1>1, <4>1, <4>2
    <3>2. CASE i = n
      <4>1. page = [announced |-> n, sent |-> SubSeq(s, 0 + 1, n)]
        BY <1>1, <1>4, <3>2 DEF Limit, page, rest, n
      <4> QED
        BY <1>1, <4>1
    <3> QED
      BY <1>1, <1>4, <3>1, <3>2
  <2>2. rest = None
    BY <1>1, <1>4 DEF Limit, page, rest, n
  <2>3. page.sent = s /\ page.announced = n /\ rest.sent = <<>> /\ rest.announced = 0
    BY <2>1, <2>2
  <2> QED
    BY <1>2, <2>3 DEF n
<1>5. ASSUME i < n PROVE Join
  <2>1. page = [announced |-> i, sent |-> SubSeq(s, 1, i)]
    BY <1>1, <1>5 DEF Limit, page, rest, n
  <2>2. rest = [announced |-> n - i, sent |-> SubSeq(s, i + 1, n)]
    <3>1. ~(i + (n - i) > n) /\ i + (n - i) = n
      BY <1>1
    <3> QED
      BY <1>1, <1>5, <3>1 DEF Limit, page, rest, n
  <2>3. i \in 1 - 1..n /\ 1 \in 1..n + 1 /\ n \in i..n
    BY <1>1, <1>5
  <2>4. SubSeq(s, 1, i) \o SubSeq(s, i + 1, n) = SubSeq(s, 1, n)
    BY <2>3, ConcatAdjacentSubSeq DEF n
  <2>5. Len(SubSeq(s, 1, i)) = i /\ Len(SubSeq(s, i + 1, n)) = n - i
    <3>1. \A k \in 1..n : s[k] \in S
      BY DEF n
    <3>2. 1..i \subseteq 1..n /\ i + 1..n \subseteq 1..n /\ i + 1 \in Int /\ i \in Int /\ n \in Int
      BY <1>1, <1>5
    <3>3. Len(SubSeq(s, 1, i)) = IF 1 <= i THEN i - 1 + 1 ELSE 0
      <4>1. \A k \in 1..i : s[k] \in S
        BY <3>1, <3>2
      <4> QED
        BY <1>1, <3>2, <4>1, SubSeqProperties
    <3>4. Len(SubSeq(s, i + 1, n)) = IF i + 1 <= n THEN n - (i + 1) + 1 ELSE 0
      <4>1. \A k \in i + 1..n : s[k] \in S
        BY <3>1, <3>2
      <4> QED
        BY <3>2, <4>1, SubSeqProperties
    <3> QED
      BY <1>1, <1>5, <3>3, <3>4
  <2> QED
    BY <1>1, <2>1, <2>2, <2>4, <2>5
<1> QED
  <2>1. n = 0 \/ (n > 0 /\ i >= n) \/ i < n
    BY <1>1
  <2>2. Join
    <3> HIDE DEF Join
    <3> QED
      BY <1>3, <1>4, <1>5, <2>1
  <2> QED
    BY <2>2 DEF page, rest

\* What one sorted set shows (the conjuncts of SortedReadsAgree).
SortedReads(h) ==
  LET s == Ascending(h)
      c == Card(h)
      all == Scored(s, h, -Top, Top)
  IN /\ \A f \in Members(h) :
          /\ ZRange(s, ZRank(s, f), ZRank(s, f)) = <<f>>
          /\ ZRevRank(s, f) = c - 1 - ZRank(s, f)
          /\ \A g \in Members(h) : ZScore(h, f) < ZScore(h, g) => ZRank(s, f) < ZRank(s, g)
     /\ \A i, j \in -Top..Top :
          /\ i < c /\ j >= -c => ZRange(s, i, j) = RedisSlice(s, i, j)
          /\ {i, j} \subseteq -c..c - 1 => ZRevRange(s, i, j) = Reverse(ZRange(s, -1 - j, -1 - i))
          /\ ZRevRangeByScore(s, h, j, i) = Reverse(Scored(s, h, i, j))
          /\ ZCount(h, i, j) = Len(Scored(s, h, i, j))
     /\ \A i \in 0..c :
          LET page == Limit(all, 0, i)
              rest == Limit(all, i, -1)
          IN /\ page.sent \o rest.sent = all
             /\ page.announced = Len(page.sent) /\ rest.announced = Len(rest.sent)

\* A range by rank, from either end, by score, and what ZCOUNT says of it.
LEMMA RangesAgree ==
  ASSUME SetAssumption, NEW h, \A f \in Members(h) : h[f] \in Int, NEW i \in Int, NEW j \in Int
  PROVE  LET s == Ascending(h)
             c == Card(h)
         IN /\ i < c /\ j >= -c => ZRange(s, i, j) = RedisSlice(s, i, j)
            /\ {i, j} \subseteq -c..c - 1 => ZRevRange(s, i, j) = Reverse(ZRange(s, -1 - j, -1 - i))
            /\ ZRevRangeByScore(s, h, j, i) = Reverse(Scored(s, h, i, j))
            /\ ZCount(h, i, j) = Len(Scored(s, h, i, j))
            /\ Scored(s, h, i, j) \in Seq(Fields)
<1> DEFINE M == Members(h)
           R == ScoreOrder(h)
           s == Ascending(h)
           c == Card(h)
           t == Stored(h)
           T == ByScore(h, i, j)
<1>1. /\ s \in Seq(Fields) /\ Range(s) = M /\ Distinct(s) /\ Len(s) = c
      /\ s \in Seq(M) /\ StrictOrder(M, R) /\ InOrderOf(s, R)
  BY AscendingIs
<1>2. t \in Seq(Fields) /\ Range(t) = M /\ Distinct(t)
  BY StoredIs
<1> HIDE DEF s, M, R, c, t, T
<1>3. i < c /\ j >= -c => ZRange(s, i, j) = RedisSlice(s, i, j)
  BY <1>1, RangeLikeRedis
<1>4. {i, j} \subseteq -c..c - 1 => ZRevRange(s, i, j) = Reverse(ZRange(s, -1 - j, -1 - i))
  BY <1>1, RevRangeIs
<1>5. Only(Reverse(s), T) = Reverse(Only(s, T))
  BY <1>1, OnlyReversed
<1>6. ZRevRangeByScore(s, h, j, i) = Reverse(Scored(s, h, i, j))
  BY <1>5 DEF ZRevRangeByScore, Scored, T
<1>7. Only(t, T) \in Seq(Fields) /\ Range(Only(t, T)) = M \cap T /\ Thins(Only(t, T), t)
  BY <1>2, OnlyIs
<1>8. Only(s, T) \in Seq(Fields) /\ Range(Only(s, T)) = M \cap T /\ Thins(Only(s, T), s)
  BY <1>1, OnlyIs
<1>9. Len(Only(t, T)) = Len(Only(s, T))
  <2>1. Distinct(Only(t, T))
    BY <1>2, <1>7, ThinsKeeps
  <2>2. Distinct(Only(s, T))
    BY <1>1, <1>8, ThinsKeeps
  <2>3. Len(Only(t, T)) = Cardinality(M \cap T)
    BY <1>7, <2>1, DistinctLength
  <2>4. Len(Only(s, T)) = Cardinality(M \cap T)
    BY <1>8, <2>2, DistinctLength
  <2> QED
    BY <2>3, <2>4
<1>10. ZCount(h, i, j) = Len(Scored(s, h, i, j))
  BY <1>9 DEF ZCount, Scored, t, T
<1>11. Scored(s, h, i, j) \in Seq(Fields)
  BY <1>8 DEF Scored, T
<1> QED
  BY <1>3, <1>4, <1>6, <1>10, <1>11 DEF s, c

LEMMA SortedReadsHold ==
  ASSUME SetAssumption, Top \in Nat, NEW h, \A f \in Members(h) : h[f] \in Int
  PROVE  SortedReads(h)
<1> DEFINE M == Members(h)
           R == ScoreOrder(h)
           s == Ascending(h)
           c == Card(h)
<1>1. /\ s \in Seq(Fields) /\ Range(s) = M /\ Distinct(s) /\ Len(s) = c /\ c \in Nat
      /\ s \in Seq(M) /\ StrictOrder(M, R) /\ InOrderOf(s, R)
  <2>1. /\ s \in Seq(Fields) /\ Range(s) = M /\ Distinct(s) /\ Len(s) = c
        /\ s \in Seq(M) /\ StrictOrder(M, R) /\ InOrderOf(s, R)
    BY AscendingIs
  <2> HIDE DEF s
  <2>2. Len(s) \in Nat
    BY <2>1
  <2> QED
    BY <2>1, <2>2
<1>2. \A f, g \in M : <<f, g>> \in R <=> h[f] < h[g] \/ (h[f] = h[g] /\ StoredBefore(f, g))
  BY DEF ScoreOrder
<1> HIDE DEF s, M, R, c
<1>3. ASSUME NEW f \in M
      PROVE  /\ ZRange(s, ZRank(s, f), ZRank(s, f)) = <<f>>
             /\ ZRevRank(s, f) = c - 1 - ZRank(s, f)
  BY <1>1, RankAtEnds
<1>4. ASSUME NEW f \in M, NEW g \in M, ZScore(h, f) < ZScore(h, g)
      PROVE  ZRank(s, f) < ZRank(s, g)
  <2>1. h[f] \in Int /\ h[g] \in Int /\ h[f] < h[g]
    BY <1>4 DEF ZScore, M
  <2>2. PICK i \in 1..c : f = s[i] /\ ZRank(s, f) = i - 1
    BY <1>1, RankAtEnds
  <2>3. PICK j \in 1..c : g = s[j] /\ ZRank(s, g) = j - 1
    BY <1>1, RankAtEnds
  <2>4. i # j
    BY <2>1, <2>2, <2>3
  <2>5. ~(j < i)
    <3> SUFFICES ASSUME j < i PROVE FALSE
      OBVIOUS
    <3>1. <<g, f>> \in R
      <4>1. DOMAIN s = 1..c
        BY <1>1
      <4> QED
        BY <1>1, <2>2, <2>3, <4>1 DEF InOrderOf
    <3>2. h[g] < h[f] \/ h[g] = h[f]
      BY <1>2, <3>1
    <3> QED
      BY <2>1, <3>2
  <2>6. i < j
    BY <1>1, <2>4, <2>5
  <2> QED
    BY <1>1, <2>2, <2>3, <2>6
<1>5. ASSUME NEW i \in -Top..Top, NEW j \in -Top..Top
      PROVE  /\ i < c /\ j >= -c => ZRange(s, i, j) = RedisSlice(s, i, j)
             /\ {i, j} \subseteq -c..c - 1 => ZRevRange(s, i, j) = Reverse(ZRange(s, -1 - j, -1 - i))
             /\ ZRevRangeByScore(s, h, j, i) = Reverse(Scored(s, h, i, j))
             /\ ZCount(h, i, j) = Len(Scored(s, h, i, j))
  <2>1. i \in Int /\ j \in Int
    OBVIOUS
  <2> QED
    BY <2>1, RangesAgree DEF s, c
<1> DEFINE all == Scored(s, h, -Top, Top)
<1>6. ASSUME NEW i \in 0..c
      PROVE  LET page == Limit(all, 0, i)
                 rest == Limit(all, i, -1)
             IN /\ page.sent \o rest.sent = all
                /\ page.announced = Len(page.sent) /\ rest.announced = Len(rest.sent)
  <2>1. all \in Seq(Fields)
    BY <1>1, OnlyIs DEF Scored
  <2>2. i \in Nat
    BY <1>1
  <2> HIDE DEF all
  <2> QED
    BY <2>1, <2>2, PagesJoin
<1> QED
  BY <1>3, <1>4, <1>5, <1>6 DEF SortedReads, s, c, M

\* The reads of a sorted set agree with each other, whatever its items: the rank, the
\* rank from the end and the range at a rank, the order by score, the slice of Redis,
\* a range and the one from the end, ZCOUNT and ZRANGEBYSCORE, and the pages of LIMIT
\* (zrank, zrevrank, zrange, zrevrange, zrangebyscore, zcount).
THEOREM CollectionSorted == Spec => []SortedReadsAgree
<1>1. TypeOK => SortedReadsAgree
  <2> SUFFICES ASSUME TypeOK, kind = "zset", NEW n \in Targets[kind]
               PROVE  SortedReads(store[n])
    BY DEF SortedReadsAgree, SortedReads
  <2>1. SetAssumption /\ Top \in Nat /\ n \in Names
    BY CollectionAssumption DEF TypeOK
  <2>2. store[n] \in [Fields -> OfKind("zset")]
    BY <2>1 DEF TypeOK
  <2>3. OfKind("zset") = {NoValue} \cup Int
    BY DEF OfKind
  <2>4. \A f \in Members(store[n]) : store[n][f] \in Int
    BY <2>2, <2>3 DEF Members
  <2> QED
    BY <2>1, <2>4, SortedReadsHold
<1> QED
  BY <1>1, CollectionTyping, PTL

-----------------------------------------------------------------------------
(* Replies *)

LEMMA NoNilBulk == \A v \in Fields \cup Value : Bulk(v) # Nil
<1>1. \A v \in Fields \cup Value : Bulk(v) \in [string : Fields \cup Value, whole : BOOLEAN]
  BY DEF Bulk
<1> QED
  BY <1>1, CollectionAssumption

LEMMA BulkOnce == \A v, w : Bulk(v) = Bulk(w) => v = w
<1>1. \A v : Bulk(v).string = v
  BY DEF Bulk
<1> QED
  BY <1>1

LEMMA HalvesOf ==
  ASSUME NEW n \in Nat, NEW i \in 1..2 * n
  PROVE  /\ i % 2 = 1 => (i + 1) \div 2 \in 1..n
         /\ i % 2 # 1 => i \div 2 \in 1..n
OBVIOUS

LEMMA HashRepliesHold ==
  ASSUME NEW h \in [Fields -> {NoValue} \cup Value]
  PROVE  HashRepliesAgree(h)
<1> DEFINE s == Stored(h)
           n == Len(s)
           keys == Sent(HKeys(h))
           vals == Sent(HVals(h))
           all == HGetAll(h)
<1>1. /\ s \in Seq(Fields) /\ n \in Nat /\ DOMAIN s = 1..n
      /\ \A i \in 1..n : s[i] \in Fields /\ h[s[i]] \in Value
      /\ HLen(h) = n
  <2>1. s \in Seq(Fields) /\ Range(s) = Members(h) /\ HLen(h) = n
    BY StoredIs, CollectionAssumption DEF HLen, Card
  <2> HIDE DEF s
  <2>2. n \in Nat /\ DOMAIN s = 1..n /\ \A i \in 1..n : s[i] \in Members(h)
    BY <2>1 DEF Range
  <2> QED
    BY <2>1, <2>2 DEF Members
<1>2. HKeys(h) = [announced |-> n, bulks |-> [i \in DOMAIN s |-> PrintedField(s[i])]]
  BY DEF HKeys, Array, Strings
<1>3. HVals(h) = [announced |-> n, bulks |-> [i \in DOMAIN s |-> PrintedValue(h[s[i]])]]
  BY DEF HVals, Array, Strings
<1>4. all = [announced |-> 2 * n,
             bulks |-> [i \in 1..2 * n |-> IF i % 2 = 1 THEN PrintedField(s[(i + 1) \div 2])
                                           ELSE PrintedValue(h[s[i \div 2]])]]
  BY DEF HGetAll, Array, Pairs
<1> HIDE DEF s, n, all
<1>5. keys = [i \in 1..n |-> s[i]] /\ vals = [i \in 1..n |-> h[s[i]]]
  BY <1>1, <1>2, <1>3 DEF Sent, PrintedField, PrintedValue
<1> HIDE DEF keys, vals
<1>6. keys = s
  BY <1>1, <1>5
<1>7. all.announced = Len(all.bulks) /\ DOMAIN all.bulks = 1..2 * n
  <2>1. 2 * n \in Nat
    BY <1>1
  <2> QED
    BY <1>4, <2>1
<1>8. HMGet(h, keys) = Array(n, Strings(vals, Bulk))
  <2>1. HMGet(h, keys) = [announced |-> n, bulks |-> [i \in 1..n |-> HGet(h, s[i])]]
    BY <1>1, <1>6 DEF HMGet, Array, Strings, n
  <2>2. Array(n, Strings(vals, Bulk)) = [announced |-> n, bulks |-> [i \in 1..n |-> Bulk(vals[i])]]
    BY <1>5 DEF Array, Strings
  <2>3. \A i \in 1..n : HGet(h, s[i]) = Bulk(vals[i])
    BY <1>1, <1>5, CollectionAssumption DEF HGet, SetAssumption
  <2> QED
    BY <2>1, <2>2, <2>3
<1>9. Sent(all) = [i \in 1..2 * n |-> IF i % 2 = 1 THEN keys[(i + 1) \div 2] ELSE vals[i \div 2]]
  <2>1. Sent(all) = [i \in 1..2 * n |-> all.bulks[i].string]
    BY <1>7 DEF Sent
  <2>2. ASSUME NEW i \in 1..2 * n
        PROVE  all.bulks[i].string = IF i % 2 = 1 THEN keys[(i + 1) \div 2] ELSE vals[i \div 2]
    <3>1. all.bulks[i] = IF i % 2 = 1 THEN PrintedField(s[(i + 1) \div 2]) ELSE PrintedValue(h[s[i \div 2]])
      BY <1>4
    <3>2. i % 2 # 1 => i \div 2 \in 1..n
      BY <1>1, HalvesOf
    <3>3. CASE i % 2 = 1
      BY <1>6, <3>1, <3>3 DEF PrintedField
    <3>4. CASE i % 2 # 1
      BY <1>5, <3>1, <3>2, <3>4 DEF PrintedValue
    <3> QED
      BY <3>3, <3>4
  <2> QED
    BY <2>1, <2>2
<1>10. ASSUME Range(keys) \cap NulFields = {}, Range(vals) \cap NulValues = {}
       PROVE  Sound(all) /\ Sound(HKeys(h)) /\ Sound(HVals(h))
  <2>1. \A i \in 1..n : PrintedField(s[i]).whole /\ PrintedValue(h[s[i]]).whole
    <3> SUFFICES ASSUME NEW i \in 1..n
                 PROVE  PrintedField(s[i]).whole /\ PrintedValue(h[s[i]]).whole
      OBVIOUS
    <3>1. s[i] \in Range(keys) /\ h[s[i]] \in Range(vals)
      BY <1>5 DEF Range
    <3> QED
      BY <1>10, <3>1 DEF PrintedField, PrintedValue
  <2>2. Sound(HKeys(h))
    <3>1. HKeys(h).announced = n /\ HKeys(h).bulks = [i \in 1..n |-> PrintedField(s[i])]
      BY <1>1, <1>2
    <3>2. Len(HKeys(h).bulks) = n /\ DOMAIN HKeys(h).bulks = 1..n
      BY <1>1, <3>1
    <3> QED
      BY <2>1, <3>1, <3>2 DEF Sound
  <2>3. Sound(HVals(h))
    <3>1. HVals(h).announced = n /\ HVals(h).bulks = [i \in 1..n |-> PrintedValue(h[s[i]])]
      BY <1>1, <1>3
    <3>2. Len(HVals(h).bulks) = n /\ DOMAIN HVals(h).bulks = 1..n
      BY <1>1, <3>1
    <3> QED
      BY <2>1, <3>1, <3>2 DEF Sound
  <2>4. Sound(all)
    <3>1. ASSUME NEW i \in 1..2 * n
          PROVE  all.bulks[i].whole
      <4>1. all.bulks[i] = IF i % 2 = 1 THEN PrintedField(s[(i + 1) \div 2]) ELSE PrintedValue(h[s[i \div 2]])
        BY <1>4
      <4>2. (i % 2 = 1 => (i + 1) \div 2 \in 1..n) /\ (i % 2 # 1 => i \div 2 \in 1..n)
        BY <1>1, HalvesOf
      <4> QED
        BY <2>1, <4>1, <4>2
    <3> QED
      BY <1>7, <3>1 DEF Sound
  <2> QED
    BY <2>2, <2>3, <2>4
<1>11. ASSUME NEW f \in Fields
       PROVE  HExists(h, f) = 1 <=> HGet(h, f) \notin {Nil, Bulk(Blank)}
  <2>1. CASE h[f] = NoValue
    BY <2>1 DEF HExists, HGet, Exists
  <2>2. CASE h[f] # NoValue
    <3>1. h[f] \in Value /\ HGet(h, f) = Bulk(h[f]) /\ Bulk(h[f]) # Nil
      BY <2>2, NoNilBulk DEF HGet
    <3> QED
      BY <2>2, <3>1, BulkOnce DEF HExists, Exists
  <2> QED
    BY <2>1, <2>2
<1>12. Len(keys) = HLen(h)
  BY <1>1, <1>6 DEF n
<1> QED
  BY <1>1, <1>7, <1>8, <1>9, <1>10, <1>11, <1>12 DEF HashRepliesAgree, keys, vals, all

LEMMA BulkWhole == \A v : Bulk(v).whole
BY DEF Bulk

\* An array announces what it sends.
LEMMA StringsSound ==
  ASSUME NEW S, NEW s \in Seq(S)
  PROVE  /\ Sound(Array(Len(s), Strings(s, Bulk)))
         /\ Len(Array(Len(s), Strings(s, Bulk)).bulks) = Len(s)
         /\ Range(Array(Len(s), Strings(s, Bulk)).bulks) = {Bulk(x) : x \in Range(s)}
<1> DEFINE n == Len(s)
           r == Array(n, Strings(s, Bulk))
<1>1. n \in Nat /\ DOMAIN s = 1..n
  OBVIOUS
<1>2. r.announced = n /\ r.bulks = [i \in 1..n |-> Bulk(s[i])]
  BY <1>1 DEF Array, Strings
<1> HIDE DEF n, r
<1>3. Len(r.bulks) = n /\ DOMAIN r.bulks = 1..n /\ \A i \in 1..n : r.bulks[i] = Bulk(s[i])
  BY <1>1, <1>2
<1>4. \A i \in 1..n : r.bulks[i].whole
  BY <1>3, BulkWhole
<1>5. Sound(r)
  BY <1>2, <1>3, <1>4 DEF Sound
<1>6. Range(r.bulks) = {Bulk(x) : x \in Range(s)}
  BY <1>1, <1>3 DEF Range
<1> QED
  BY <1>3, <1>5, <1>6 DEF n, r

\* The elements of a list, each with its score.
WithScores(h, s) == Array(2 * Len(s), Pairs(s, Bulk, LAMBDA f : Bulk(h[f])))

LEMMA PairsSound ==
  ASSUME NEW S, NEW s \in Seq(S), NEW h
  PROVE  LET r == WithScores(h, s)
         IN /\ Sound(r) /\ Len(r.bulks) = 2 * Len(s)
            /\ \A f : s = <<f>> => r.bulks = <<Bulk(f), Bulk(h[f])>>
<1> DEFINE n == Len(s)
           r == WithScores(h, s)
<1>1. n \in Nat /\ 2 * n \in Nat
  OBVIOUS
<1>2. /\ r.announced = 2 * n
      /\ r.bulks = [i \in 1..2 * n |-> IF i % 2 = 1 THEN Bulk(s[(i + 1) \div 2]) ELSE Bulk(h[s[i \div 2]])]
  BY DEF WithScores, Array, Pairs
<1> HIDE DEF n, r
<1>3. /\ Len(r.bulks) = 2 * n /\ DOMAIN r.bulks = 1..2 * n
      /\ \A i \in 1..2 * n :
           r.bulks[i] = IF i % 2 = 1 THEN Bulk(s[(i + 1) \div 2]) ELSE Bulk(h[s[i \div 2]])
  BY <1>1, <1>2
<1>4. \A i \in 1..2 * n : r.bulks[i].whole
  BY <1>3, BulkWhole
<1>5. Sound(r)
  BY <1>2, <1>3, <1>4 DEF Sound
<1>6. ASSUME NEW f, s = <<f>>
      PROVE  r.bulks = <<Bulk(f), Bulk(h[f])>>
  <2>1. n = 1 /\ s[1] = f /\ 2 * n = 2
    BY <1>6 DEF n
  <2>2. 1 \in 1..2 /\ 2 \in 1..2 /\ 1 % 2 = 1 /\ (1 + 1) \div 2 = 1 /\ 2 % 2 = 0 /\ 2 \div 2 = 1 /\ 1..2 = {1, 2}
    OBVIOUS
  <2>3. r.bulks[1] = Bulk(f)
    BY <1>3, <2>1, <2>2
  <2>4. r.bulks[2] = Bulk(h[f])
    BY <1>3, <2>1, <2>2
  <2>5. r.bulks = [i \in 1..2 |-> r.bulks[i]]
    BY <1>2, <2>1
  <2> QED
    BY <2>2, <2>3, <2>4, <2>5
<1> QED
  BY <1>3, <1>5, <1>6 DEF n, r

LEMMA SetRepliesHold ==
  ASSUME NEW h, \A f \in Fields : h[f] \in {Itself(f), NoValue}
  PROVE  SetRepliesAgree(h)
<1> DEFINE s == Stored(h)
           n == Len(s)
           all == SMembers(h)
<1>1. /\ s \in Seq(Fields) /\ n \in Nat /\ DOMAIN s = 1..n /\ Range(s) = Members(h) /\ SCard(h) = n
      /\ IsFiniteSet(Fields) /\ Members(h) \in SUBSET Fields /\ n = Cardinality(Members(h))
  <2>1. /\ s \in Seq(Fields) /\ Range(s) = Members(h) /\ SCard(h) = n /\ Distinct(s)
        /\ IsFiniteSet(Fields) /\ Members(h) \in SUBSET Fields
    BY StoredIs, CollectionAssumption DEF SCard, Card, SetAssumption
  <2>2. n = Cardinality(Members(h))
    BY <2>1, DistinctLength
  <2> HIDE DEF s
  <2>3. n \in Nat /\ DOMAIN s = 1..n
    BY <2>1
  <2> QED
    BY <2>1, <2>2, <2>3
<1>2. n <= Top + 1 /\ Top \in Nat
  <2>1. n <= Cardinality(Fields) /\ Cardinality(Fields) \in Nat
    BY <1>1, FS_Subset, FS_CardinalityType
  <2>2. Cardinality(Fields) <= Top + 1 /\ Top \in Nat
    BY CollectionAssumption
  <2> HIDE DEF n
  <2> QED
    BY <1>1, <2>1, <2>2
<1>3. /\ Sound(all) /\ all.announced = n
      /\ Range(all.bulks) = {Bulk(x) : x \in Range(s)}
  <2>1. all = Array(n, Strings(s, Bulk))
    BY DEF SMembers
  <2>2. all.announced = n
    BY <2>1 DEF Array
  <2> HIDE DEF all, s
  <2> QED
    BY <1>1, <2>1, <2>2, StringsSound
<1> HIDE DEF all, s
<1>4. ASSUME NEW f \in Fields \ {0}
      PROVE  SIsMember(h, f) = 1 <=> Bulk(f) \in Range(all.bulks)
  <2>1. Bulk(f) \in Range(all.bulks) <=> f \in Members(h)
    BY <1>1, <1>3, BulkOnce
  <2>2. Exists(h[f]) <=> h[f] # NoValue
    BY CollectionAssumption DEF Exists, Itself, SetAssumption
  <2> QED
    BY <2>1, <2>2 DEF SIsMember, Members
<1>5. {SRandMember(h, rand) : rand \in 0..Top} = IF SCard(h) = 0 THEN {Nil} ELSE Range(all.bulks)
  <2>1. CASE n = 0
    <3>1. s = <<>>
      BY <1>1, <2>1, EmptySeq
    <3>2. \A rand \in 0..Top : SRandMember(h, rand) = Nil
      BY <3>1, Zenon DEF SRandMember, s
    <3>3. 0 \in 0..Top
      BY <1>2
    <3> QED
      BY <1>1, <2>1, <3>2, <3>3
  <2>2. CASE n # 0
    <3>1. s # <<>>
      BY <1>1, <2>2, EmptySeq
    <3>2. \A rand \in 0..Top : SRandMember(h, rand) = Bulk(s[((rand % n) - 1) + 2])
      BY <3>1 DEF SRandMember, s
    <3>3. \A rand \in 0..Top : ((rand % n) - 1) + 2 \in 1..n
      <4> SUFFICES ASSUME NEW rand \in 0..Top
                   PROVE  ((rand % n) - 1) + 2 \in 1..n
        OBVIOUS
      <4> HIDE DEF n
      <4>1. rand % n \in 0..n - 1
        BY <1>1, <2>2
      <4> QED
        BY <1>1, <4>1
    <3>4. ASSUME NEW i \in 1..n
          PROVE  \E rand \in 0..Top : ((rand % n) - 1) + 2 = i
      <4> HIDE DEF n
      <4>1. i - 1 \in 0..Top /\ i - 1 \in 0..n - 1
        BY <1>1, <1>2
      <4>2. (i - 1) % n = i - 1
        BY <1>1, <4>1
      <4>3. (((i - 1) % n) - 1) + 2 = i
        BY <1>1, <4>2
      <4> QED
        BY <4>1, <4>3
    <3>5. Range(all.bulks) = {Bulk(s[i]) : i \in 1..n}
      BY <1>1, <1>3 DEF Range
    <3> HIDE DEF n
    <3>6. {SRandMember(h, rand) : rand \in 0..Top} \subseteq Range(all.bulks)
      BY <3>2, <3>3, <3>5
    <3>7. Range(all.bulks) \subseteq {SRandMember(h, rand) : rand \in 0..Top}
      BY <3>2, <3>4, <3>5
    <3> QED
      BY <1>1, <2>2, <3>6, <3>7
  <2> QED
    BY <2>1, <2>2
<1>6. SCard(h) = all.announced
  BY <1>1, <1>3
<1> QED
  BY <1>3, <1>4, <1>5, <1>6 DEF SetRepliesAgree, all

\* A page of a range, with the scores or without.
LEMMA PageSound ==
  ASSUME NEW S, NEW e \in Seq(S), NEW h, NEW p, p.sent = e, p.announced = Len(e)
  PROVE  /\ Sound(Page(h, p, TRUE)) /\ Len(Page(h, p, TRUE).bulks) = 2 * Len(e)
         /\ Sound(Page(h, p, FALSE)) /\ Len(Page(h, p, FALSE).bulks) = Len(e)
         /\ Page(h, p, FALSE).announced = Len(e)
<1>1. Page(h, p, TRUE) = WithScores(h, e)
  BY DEF Page, WithScores
<1>2. Page(h, p, FALSE) = Array(Len(e), Strings(e, Bulk))
  BY DEF Page
<1>3. Array(Len(e), Strings(e, Bulk)).announced = Len(e)
  BY DEF Array
<1>4. Sound(WithScores(h, e)) /\ Len(WithScores(h, e).bulks) = 2 * Len(e)
  BY PairsSound
<1>5. Sound(Array(Len(e), Strings(e, Bulk))) /\ Len(Array(Len(e), Strings(e, Bulk)).bulks) = Len(e)
  BY StringsSound
<1> QED
  BY <1>1, <1>2, <1>3, <1>4, <1>5

LEMMA PageOfOne ==
  ASSUME NEW f \in Fields, NEW h
  PROVE  Page(h, All(<<f>>), TRUE).bulks = <<Bulk(f), Bulk(h[f])>>
<1> DEFINE e == <<f>>
<1>1. e \in Seq(Fields) /\ Len(e) = 1
  OBVIOUS
<1> HIDE DEF e
<1>2. Page(h, All(e), TRUE) = WithScores(h, e)
  BY DEF Page, WithScores, All
<1>3. \A g : e = <<g>> => WithScores(h, e).bulks = <<Bulk(g), Bulk(h[g])>>
  BY <1>1, PairsSound
<1> QED
  BY <1>2, <1>3 DEF e

\* A range is a list of elements.
LEMMA ZRangeTyping ==
  ASSUME NEW S, NEW s \in Seq(S), NEW i \in Int, NEW j \in Int
  PROVE  ZRange(s, i, j) \in Seq(S) /\ (i = 0 /\ j = -1 => ZRange(s, i, j) = s)
<1>1. CASE s = <<>>
  BY <1>1, EmptySeq DEF ZRange
<1>2. CASE s # <<>>
  <2> DEFINE n == Len(s)
             a == ToIndex(i, n) + 1
             b == ToIndex(j, n) + 1
  <2>1. n \in Nat /\ n > 0
    BY <1>2, EmptySeq
  <2> HIDE DEF n
  <2>2. a \in 1..n /\ b \in 1..n /\ (i = 0 => a = 1) /\ (j = -1 => b = n)
    BY <2>1 DEF ToIndex, FromEnd, CutToList
  <2>3. ZRange(s, i, j) = SubSeq(s, a, b)
    BY <1>2 DEF ZRange, n
  <2> HIDE DEF a, b
  <2>4. SubSeq(s, a, b) \in Seq(S)
    <3>1. \A k \in a..b : s[k] \in S
      <4>1. a..b \subseteq 1..n
        BY <2>1, <2>2
      <4> QED
        BY <4>1 DEF n
    <3> QED
      BY <2>2, <3>1, SubSeqProperties
  <2>5. SubSeq(s, 1, n) = s
    BY SubSeqFull DEF n
  <2> QED
    BY <2>2, <2>3, <2>4, <2>5
<1> QED
  BY <1>1, <1>2

\* A page inside of the list announces what it sends.
LEMMA LimitSound ==
  ASSUME NEW S, NEW s \in Seq(S), NEW offset \in Int, NEW count \in Int,
         Within(s, <<offset, count>>)
  PROVE  LET p == Limit(s, offset, count)
         IN p.sent \in Seq(S) /\ p.announced = Len(p.sent)
<1> DEFINE n == Len(s)
           p == Limit(s, offset, count)
           k == IF count < 0 \/ count > n THEN n - offset ELSE count
<1>1. n \in Nat /\ DOMAIN s = 1..n
  OBVIOUS
<1>2. CASE offset < 0 \/ offset >= n
  <2>1. p = [announced |-> 0, sent |-> <<>>]
    BY <1>2 DEF Limit
  <2> QED
    BY <2>1, EmptySeq
<1>3. CASE ~(offset < 0 \/ offset >= n)
  <2>1. offset \notin 1..n \/ count \notin 0..n \/ offset + count <= n
    <3>1. <<offset, count>> # NoLimit /\ <<offset, count>>[1] = offset /\ <<offset, count>>[2] = count
      BY DEF NoLimit
    <3> QED
      BY <1>1, <3>1 DEF Within
  <2>2. k \in 0..n /\ offset + k <= n
    <3> HIDE DEF n
    <3> QED
      BY <1>1, <1>3, <2>1
  <2>3. p = [announced |-> k, sent |-> SubSeq(s, offset + 1, offset + k)]
    <3>1. p = [announced |-> k, sent |-> SubSeq(s, offset + 1, IF offset + k > n THEN n ELSE offset + k)]
      BY <1>3 DEF Limit
    <3>2. (IF offset + k > n THEN n ELSE offset + k) = offset + k
      <4> HIDE DEF k, n
      <4> QED
        BY <1>1, <2>2
    <3> QED
      BY <3>1, <3>2
  <2> HIDE DEF k, n, p
  <2> DEFINE u == offset + 1
             v == offset + k
  <2>4. u \in Int /\ v \in Int /\ (IF u <= v THEN v - u + 1 ELSE 0) = k /\ u..v \subseteq 1..n
    BY <1>1, <1>3, <2>2
  <2> HIDE DEF u, v
  <2>5. \A l \in u..v : s[l] \in S
    <3>1. \A l \in 1..n : s[l] \in S
      BY DEF n
    <3> QED
      BY <2>4, <3>1
  <2>6. SubSeq(s, u, v) \in Seq(S) /\ Len(SubSeq(s, u, v)) = IF u <= v THEN v - u + 1 ELSE 0
    BY <2>4, <2>5, SubSeqProperties
  <2> QED
    BY <2>3, <2>4, <2>6 DEF u, v, p
<1> QED
  BY <1>2, <1>3

LEMMA SortedRepliesHold ==
  ASSUME NEW h \in [Fields -> {NoValue} \cup Int]
  PROVE  SortedRepliesAgree(h)
<1> DEFINE s == Ascending(h)
           c == Card(h)
           all == Scored(s, h, -Top, Top)
           ends == {-1, 1, c}
<1>1. /\ SetAssumption /\ Top \in Nat
      /\ \A f \in Members(h) : h[f] \in Int
  BY CollectionAssumption DEF Members
<1>2. /\ s \in Seq(Fields) /\ Range(s) = Members(h) /\ Distinct(s) /\ Len(s) = c /\ c \in Nat
      /\ Reverse(s) \in Seq(Fields)
  <2>1. s \in Seq(Fields) /\ Range(s) = Members(h) /\ Distinct(s) /\ Len(s) = c
    BY <1>1, AscendingIs
  <2> HIDE DEF s
  <2>2. Len(s) \in Nat /\ Reverse(s) \in Seq(Fields)
    BY <2>1, Reversed
  <2> QED
    BY <2>1, <2>2
<1>3. ZCard(h) = c
  BY DEF ZCard
<1> HIDE DEF s, c
<1>4. ends \subseteq Int
  BY <1>2
<1>5. \A i, j : RangeReply(h, i, j, TRUE) = Page(h, All(ZRange(s, i, j)), TRUE)
  BY DEF RangeReply, s
<1>6. ASSUME NEW f \in Fields
      PROVE  LET rank == Rank(h, f)
                 revs == RevRanks(h, f)
             IN /\ IF ScoreReply(h, f) = Nil THEN rank = Nil
                   ELSE /\ RangeReply(h, rank, rank, TRUE).bulks = <<Bulk(f), ScoreReply(h, f)>>
                        /\ c - 1 - rank \in revs
                /\ revs \subseteq {Nil} \cup 0..c - 1
                /\ Cuts(f) \cap Members(h) \subseteq {f} =>
                     revs \subseteq {Nil, IF ScoreReply(h, f) = Nil THEN Nil ELSE c - 1 - rank}
  <2> DEFINE rank == Rank(h, f)
             revs == RevRanks(h, f)
  <2>1. rank = Place(ZRank(s, f)) /\ revs = {Nil} \cup {Place(ZRevRank(s, g)) : g \in Cuts(f)}
    BY DEF Rank, RevRanks, s
  <2>0. f \in Cuts(f) /\ Cuts(f) \subseteq Fields
    BY CutsAssumption DEF Cuts
  <2> HIDE DEF rank, revs
  <2>2. revs \subseteq {Nil} \cup 0..c - 1
    <3> SUFFICES ASSUME NEW g \in Cuts(f)
                 PROVE  Place(ZRevRank(s, g)) \in {Nil} \cup 0..c - 1
      BY <2>1
    <3>1. CASE g \in Range(s)
      <4>1. ZRevRank(s, g) = c - 1 - ZRank(s, g) /\ ZRank(s, g) \in 0..c - 1
        BY <1>2, <3>1, RankAtEnds
      <4>2. ZRevRank(s, g) \in 0..c - 1
        BY <1>2, <4>1
      <4>3. Place(ZRevRank(s, g)) = ZRevRank(s, g)
        BY <1>2, <4>2 DEF Place
      <4> QED
        BY <4>2, <4>3
    <3>2. CASE g \notin Range(s)
      <4>1. Range(Reverse(s)) = Range(s)
        BY <1>2, Reversed
      <4>2. ZRevRank(s, g) = -1
        BY <3>2, <4>1 DEF ZRevRank, ZRank
      <4> QED
        BY <4>2 DEF Place
    <3> QED
      BY <3>1, <3>2
  <2>e. \A g : g \notin Members(h) => Place(ZRevRank(s, g)) = Nil
    <3> SUFFICES ASSUME NEW g, g \notin Members(h)
                 PROVE  Place(ZRevRank(s, g)) = Nil
      OBVIOUS
    <3>1. Range(Reverse(s)) = Range(s)
      BY <1>2, Reversed
    <3>2. ZRevRank(s, g) = -1
      BY <1>2, <3>1 DEF ZRevRank, ZRank
    <3> QED
      BY <3>2 DEF Place
  <2>3. CASE h[f] = NoValue
    <3>1. f \notin Range(s)
      BY <1>2, <2>3 DEF Members
    <3>2. ZRank(s, f) = -1
      BY <3>1 DEF ZRank
    <3>3. rank = Nil /\ ScoreReply(h, f) = Nil
      BY <2>1, <2>3, <3>2 DEF Place, ScoreReply
    <3>4. ASSUME Cuts(f) \cap Members(h) \subseteq {f}
          PROVE  revs \subseteq {Nil}
      <4>1. \A g \in Cuts(f) : Place(ZRevRank(s, g)) = Nil
        <5>1. f \notin Members(h)
          BY <2>3 DEF Members
        <5> QED
          BY <2>e, <3>4, <5>1
      <4> QED
        BY <2>1, <4>1
    <3> QED
      BY <2>2, <3>3, <3>4 DEF rank, revs
  <2>4. CASE h[f] # NoValue
    <3>1. f \in Range(s) /\ h[f] \in Int
      BY <1>1, <1>2, <2>4 DEF Members
    <3>2. /\ ZRank(s, f) \in 0..c - 1 /\ ZRange(s, ZRank(s, f), ZRank(s, f)) = <<f>>
          /\ ZRevRank(s, f) = c - 1 - ZRank(s, f)
      BY <1>2, <3>1, RankAtEnds
    <3>3. rank = ZRank(s, f)
      BY <1>2, <2>1, <3>2 DEF Place
    <3>4. ScoreReply(h, f) = Bulk(h[f]) /\ ScoreReply(h, f) # Nil
      <4>1. h[f] \in Fields \cup Value
        BY <3>1 DEF Value
      <4> QED
        BY <2>4, <4>1, NoNilBulk DEF ScoreReply, ZScore
    <3>5. RangeReply(h, rank, rank, TRUE).bulks = <<Bulk(f), Bulk(h[f])>>
      <4>1. ZRange(s, rank, rank) = <<f>>
        BY <3>2, <3>3
      <4> QED
        BY <1>5, <4>1, PageOfOne
    <3>6. c - 1 - rank \in revs
      <4>1. c - 1 - ZRank(s, f) \in 0..c - 1
        BY <1>2, <3>2
      <4>2. Place(ZRevRank(s, f)) = c - 1 - rank
        BY <1>2, <3>2, <3>3, <4>1 DEF Place
      <4> QED
        BY <2>0, <2>1, <4>2
    <3>7. ASSUME Cuts(f) \cap Members(h) \subseteq {f}
          PROVE  revs \subseteq {Nil, c - 1 - rank}
      <4>1. \A g \in Cuts(f) : g = f \/ Place(ZRevRank(s, g)) = Nil
        BY <2>e, <3>7
      <4>2. Place(ZRevRank(s, f)) = c - 1 - rank
        <5>1. c - 1 - ZRank(s, f) \in 0..c - 1
          BY <1>2, <3>2
        <5> QED
          BY <1>2, <3>2, <3>3, <5>1 DEF Place
      <4> QED
        BY <2>1, <4>1, <4>2
    <3> QED
      BY <2>2, <3>4, <3>5, <3>6, <3>7 DEF rank, revs
  <2> QED
    BY <2>3, <2>4
<1>7. RangeReply(h, 0, -1, FALSE).announced = c
  <2>1. RangeReply(h, 0, -1, FALSE) = Page(h, All(s), FALSE)
    <3>1. ZRange(s, 0, -1) = s
      BY <1>2, ZRangeTyping
    <3> QED
      BY <3>1 DEF RangeReply, s
  <2>2. All(s).sent = s /\ All(s).announced = Len(s)
    BY DEF All
  <2>3. Page(h, All(s), FALSE).announced = Len(s)
    BY <1>2, <2>2, PageSound
  <2> QED
    BY <1>2, <2>1, <2>3
<1>8. ASSUME NEW i \in ends, NEW j \in ends
      PROVE  LET r == RangeByScoreReply(h, i, j, NoLimit, TRUE)
             IN /\ Sound(RangeReply(h, i, j, TRUE)) /\ Sound(RevRangeReply(h, i, j, FALSE))
                /\ Sound(r) /\ Len(r.bulks) = 2 * CountReply(h, i, j)
                /\ Len(RevRangeByScoreReply(h, j, i, NoLimit, FALSE).bulks) = CountReply(h, i, j)
  <2> DEFINE e == Scored(s, h, i, j)
  <2>1. i \in Int /\ j \in Int
    BY <1>4, <1>8
  <2>2. \A x : All(x).sent = x /\ All(x).announced = Len(x)
    BY DEF All
  <2>3. Sound(RangeReply(h, i, j, TRUE))
    <3>1. ZRange(s, i, j) \in Seq(Fields)
      BY <1>2, <2>1, ZRangeTyping
    <3>2. Sound(Page(h, All(ZRange(s, i, j)), TRUE))
      BY <2>2, <3>1, PageSound
    <3> QED
      BY <1>5, <3>2
  <2>4. Sound(RevRangeReply(h, i, j, FALSE))
    <3>1. ZRevRange(s, i, j) \in Seq(Fields)
      BY <1>2, <2>1, ZRangeTyping DEF ZRevRange
    <3>2. Sound(Page(h, All(ZRevRange(s, i, j)), FALSE))
      BY <2>2, <3>1, PageSound
    <3> QED
      BY <3>2 DEF RevRangeReply, s
  <2>5. /\ e \in Seq(Fields) /\ ZCount(h, i, j) = Len(e)
        /\ ZRevRangeByScore(s, h, j, i) = Reverse(e)
    BY <1>1, <2>1, RangesAgree DEF s
  <2>6. CountReply(h, i, j) = Len(e)
    BY <2>1, <2>5 DEF CountReply
  <2>7. Reverse(e) \in Seq(Fields) /\ Len(Reverse(e)) = Len(e)
    <3> HIDE DEF e
    <3> QED
      BY <2>5, Reversed
  <2>8. RangeByScoreReply(h, i, j, NoLimit, TRUE) = Page(h, All(e), TRUE)
    BY <2>1 DEF RangeByScoreReply, Limited, Number, s
  <2>9. RevRangeByScoreReply(h, j, i, NoLimit, FALSE) = Page(h, All(Reverse(e)), FALSE)
    <3>1. RevRangeByScoreReply(h, j, i, NoLimit, FALSE) = Page(h, All(ZRevRangeByScore(s, h, j, i)), FALSE)
      BY <2>1 DEF RevRangeByScoreReply, Limited, Number, s
    <3> QED
      BY <2>5, <3>1
  <2> HIDE DEF e
  <2>10. Sound(Page(h, All(e), TRUE)) /\ Len(Page(h, All(e), TRUE).bulks) = 2 * Len(e)
    BY <2>2, <2>5, PageSound
  <2>11. Len(Page(h, All(Reverse(e)), FALSE).bulks) = Len(e)
    <3> DEFINE r == Reverse(e)
    <3>1. r \in Seq(Fields) /\ Len(r) = Len(e)
      BY <2>7
    <3> HIDE DEF r
    <3>2. All(r).sent = r /\ All(r).announced = Len(r)
      BY DEF All
    <3>3. Len(Page(h, All(r), FALSE).bulks) = Len(r)
      BY <3>1, <3>2, PageSound
    <3> QED
      BY <3>1, <3>3 DEF r
  <2> QED
    BY <2>3, <2>4, <2>6, <2>8, <2>9, <2>10, <2>11
<1>9. ASSUME NEW offset \in ends, NEW count \in ends, Within(Scored(Ascending(h), h, -Top, Top), <<offset, count>>)
      PROVE  /\ Sound(RangeByScoreReply(h, -Top, Top, <<offset, count>>, TRUE))
             /\ Sound(RevRangeByScoreReply(h, Top, -Top, <<offset, count>>, FALSE))
  <2> DEFINE r == Reverse(all)
  <2>1. offset \in Int /\ count \in Int /\ -Top \in Int /\ Top \in Int
    BY <1>1, <1>4, <1>9
  <2>2. all \in Seq(Fields) /\ ZRevRangeByScore(s, h, Top, -Top) = r
    BY <1>1, <2>1, RangesAgree DEF s
  <2>3. Within(all, <<offset, count>>)
    BY <1>9 DEF s
  <2>4. /\ <<offset, count>> # NoLimit /\ <<offset, count>>[1] = offset /\ <<offset, count>>[2] = count
    BY DEF NoLimit
  <2>5. RangeByScoreReply(h, -Top, Top, <<offset, count>>, TRUE) = Page(h, Limit(all, offset, count), TRUE)
    BY <2>1, <2>4 DEF RangeByScoreReply, Limited, Number, s
  <2>6. RevRangeByScoreReply(h, Top, -Top, <<offset, count>>, FALSE) = Page(h, Limit(r, offset, count), FALSE)
    <3>1. RevRangeByScoreReply(h, Top, -Top, <<offset, count>>, FALSE)
            = Page(h, Limit(ZRevRangeByScore(s, h, Top, -Top), offset, count), FALSE)
      BY <2>1, <2>4 DEF RevRangeByScoreReply, Limited, Number, s
    <3> QED
      BY <2>2, <3>1
  <2> HIDE DEF all
  <2>7. r \in Seq(Fields) /\ Len(r) = Len(all)
    BY <2>2, Reversed
  <2> HIDE DEF r
  <2>8. Within(r, <<offset, count>>)
    <3>1. DOMAIN r = DOMAIN all
      BY <2>2, <2>7
    <3> QED
      BY <2>3, <2>7, <3>1 DEF Within
  <2>9. Sound(Page(h, Limit(all, offset, count), TRUE))
    <3>1. Limit(all, offset, count).sent \in Seq(Fields)
      BY <2>1, <2>2, <2>3, LimitSound
    <3>2. Limit(all, offset, count).announced = Len(Limit(all, offset, count).sent)
      BY <2>1, <2>2, <2>3, LimitSound
    <3> QED
      BY <3>1, <3>2, PageSound
  <2>10. Sound(Page(h, Limit(r, offset, count), FALSE))
    <3>1. Limit(r, offset, count).sent \in Seq(Fields)
      BY <2>1, <2>7, <2>8, LimitSound
    <3>2. Limit(r, offset, count).announced = Len(Limit(r, offset, count).sent)
      BY <2>1, <2>7, <2>8, LimitSound
    <3> QED
      BY <3>1, <3>2, PageSound
  <2> QED
    BY <2>5, <2>6, <2>9, <2>10
<1> QED
  BY <1>3, <1>6, <1>7, <1>8, <1>9 DEF SortedRepliesAgree, c

\* The replies to the reads of a hash, a set and a sorted set are as long as they
\* announce and agree with each other, whatever the records (HashCmdHandler hkeys,
\* hvals, hgetall, hmget; ZSetCmdHandler smembers, srandmember, zrank, zrevrank, zrange,
\* zrangebyscore, zcount).
THEOREM CollectionReplies == Spec => []RepliesAgree
<1>1. TypeOK => RepliesAgree
  <2> SUFFICES ASSUME TypeOK, NEW n \in Targets[kind]
               PROVE  CASE kind = "hash" -> HashRepliesAgree(store[n])
                        [] kind = "set"  -> SetRepliesAgree(store[n])
                        [] kind = "zset" -> SortedRepliesAgree(store[n])
    BY Zenon DEF RepliesAgree
  <2>1. n \in Names /\ kind \in {"hash", "set", "zset"} /\ store[n] \in [Fields -> OfKind(kind)]
    BY CollectionAssumption DEF TypeOK
  <2>2. kind = "hash" => HashRepliesAgree(store[n])
    <3>1. OfKind("hash") = {NoValue} \cup Value
      BY DEF OfKind
    <3> QED
      BY <2>1, <3>1, HashRepliesHold
  <2>3. kind = "set" => SetRepliesAgree(store[n])
    BY <2>1, SetRepliesHold DEF TypeOK
  <2>4. kind = "zset" => SortedRepliesAgree(store[n])
    <3>1. OfKind("zset") = {NoValue} \cup Int
      BY DEF OfKind
    <3> QED
      BY <2>1, <3>1, SortedRepliesHold
  <2>5. "hash" # "set" /\ "hash" # "zset" /\ "set" # "zset"
    OBVIOUS
  <2> QED
    BY <2>1, <2>2, <2>3, <2>4, <2>5, Zenon
<1> QED
  BY <1>1, CollectionTyping, PTL

-----------------------------------------------------------------------------
(* A command that meets no other one *)

\* The records a call may touch lie within those of its command.
FieldsOf(c) == IF c.fields = <<>> THEN Fields ELSE Range(c.fields)

Allowed(i, c) ==
  /\ i.name \in OnNames(c) /\ i.fields \subseteq FieldsOf(c)
  /\ i.do \in {"hclear", "spop", "by_rank", "by_score", "fill"} => c.fields = <<>>

AllowedOK ==
  \A t \in Threads : cmd[t] # NoCmd => \A i \in DOMAIN prog[t] : Allowed(prog[t][i], cmd[t])

\* A thread that is not disturbed shares no record with another one.
ApartOK ==
  \A t, u \in Threads :
    t # u /\ cmd[t] # NoCmd /\ cmd[u] # NoCmd /\ t \notin disturbed
      => Touched(cmd[t]) \cap Touched(cmd[u]) = {}

IdleOK == \A t \in Threads : prog[t] = <<>> => got[t] = NoValue /\ list[t] = <<>>

OfOneKind ==
  \A t \in Threads : cmd[t] # NoCmd =>
    /\ cmd[t].op \in {"srem", "spop", "smove", "union", "inter", "diff"} => kind = "set"
    /\ cmd[t].op \in {"hsetnx", "hincrby"} => kind = "hash"
    /\ cmd[t].op \in {"zincrby", "by_rank", "by_score"} => kind = "zset"

\* Calls that write the record of f in n, and what they leave there.
About(i, n, f) ==
  /\ i.name = n
  /\ i.do = "hclear" \/ (i.do \in {"hset", "hset_member", "hdel"} /\ f \in i.fields)

Leaves(i, f) ==
  IF i.do = "hset" THEN i.value ELSE IF i.do = "hset_member" THEN Itself(f) ELSE NoValue

\* The record of f in n, now old, will be w once the calls of p are made.
Ends(p, old, n, f, w) ==
  \/ w = old /\ \A i \in DOMAIN p : ~About(p[i], n, f)
  \/ \E i \in DOMAIN p : /\ About(p[i], n, f) /\ w = Leaves(p[i], f)
                         /\ \A j \in DOMAIN p : i < j => ~About(p[j], n, f)

\* What Redis defines for a record.
Target(c, s, h, n, f) == IF n = c.name THEN h[f] ELSE AfterOther(c, s, n)[f]

\* The calls of p write, whatever they find; SREM leaves out a deletion of what is
\* not there.
Writes == {"hset", "hset_member", "hdel", "hclear"}

Steady(c, p) ==
  \A i \in DOMAIN p :
    \/ p[i].do \in Writes
    \/ /\ p[i].do = "if_there" /\ c.op = "srem" /\ i + 1 \in DOMAIN p
       /\ p[i + 1].do = "hdel" /\ p[i + 1].name = p[i].name /\ p[i + 1].fields = p[i].fields
       /\ \E f \in Fields \cap Range(c.fields) : p[i].fields = {f}

\* What they end with is the effect of the command.
Reaches(c, s, r, p) ==
  \E h \in After(c, s) : \A n \in OnNames(c), f \in FieldsOf(c) :
    Ends(p, r[n][f], n, f, Target(c, s, h, n, f))

Finishing(c, s, r, p) == Steady(c, p) /\ Reaches(c, s, r, p)

\* The command has only read.
Unread(c, s, r) == \A n \in OnNames(c), f \in FieldsOf(c) : r[n][f] = s[n][f]

Reading(c, s, r, p, v) ==
  LET n == c.name
      f == c.fields[1]
      w == c.values[1]
      old == s[n][f]
  IN /\ Unread(c, s, r)
     /\ \/ c.op \in {"spop", "by_rank", "by_score"} /\ p = <<Whole(c.op, n)>> /\ c.fields = <<>>
        \/ /\ c.op = "smove" /\ c.fields = <<f>> /\ c.from = <<c.from[1]>>
           /\ p = <<Call("hget_member", n, f, NoValue), Call("hdel", n, f, NoValue),
                    Call("hset_member", c.from[1], f, NoValue)>>
        \/ /\ c.op = "hsetnx" /\ c.fields = <<f>>
           /\ p = <<Call("if_missing", n, f, NoValue), Call("hset", n, f, w)>>
        \/ /\ c.op = "hincrby" /\ c.fields = <<f>>
           /\ \/ /\ v = NoValue
                 /\ p = <<Call("if_there", n, f, NoValue), Call("hget_number", n, f, NoValue),
                          Call("add", n, f, w)>>
              \/ p = <<Call("hget_number", n, f, NoValue), Call("add", n, f, w)>> /\ Exists(old)
              \/ p = <<Call("add", n, f, w)>> /\ v = old /\ old \in Int \cup {NoValue}
        \/ /\ c.op = "zincrby" /\ c.fields = <<f>>
           /\ \/ p = <<Call("hget_score", n, f, w), Call("add", n, f, w)>>
              \/ p = <<Call("add", n, f, w)>> /\ v = old

\* The calls of SUNIONSTORE, SINTERSTORE and SDIFFSTORE, and the sources read after
\* the first j of them.
ClearAt(c) == CASE c.op = "union" -> Len(c.from) + 1
                [] c.op = "inter" -> 2
                [] c.op = "diff"  -> 1

Reads(c, j) == IF j < ClearAt(c) THEN j ELSE j - 1

StoreCall(c, i) ==
  IF i = ClearAt(c) THEN Whole("hclear", c.name)
  ELSE IF i = Len(c.from) + 2 THEN Whole("fill", c.name)
  ELSE Whole(IF Reads(c, i) = 1 /\ c.op # "union" THEN "first" ELSE c.op, c.from[Reads(c, i)])

StoreCalls(c, j) == [i \in 1..Len(c.from) + 2 - j |-> StoreCall(c, i + j)]

\* Where the destination, now h, is cleared: not yet, done, or at it.
StoreAt(c, s, h, p, j) ==
  \/ j < ClearAt(c) /\ p = StoreCalls(c, j) /\ \A f \in Fields : h[f] = s[c.name][f]
  \/ j >= ClearAt(c) /\ p = StoreCalls(c, j) /\ \A f \in Fields : h[f] = NoValue
  \/ /\ j = ClearAt(c)
     /\ \E fs \in SUBSET Fields :
          /\ p = <<[Whole("hdel", c.name) EXCEPT !.fields = fs]>> \o StoreCalls(c, j)
          /\ \A f \in Fields \ fs : h[f] = NoValue

ReadSoFar(c, s, l, j) ==
  IF Reads(c, j) = 0 THEN l = <<>> ELSE SoFar(c.op, l, Sources(c, s), Reads(c, j))

Storing(c, s, r, p, l) ==
  /\ c.op \in SetOp /\ c.fields = <<>> /\ c.from # <<>>
  /\ \A n \in OnNames(c) \ {c.name}, f \in Fields : r[n][f] = s[n][f]
  /\ \E j \in 0..Len(c.from) + 1 : ReadSoFar(c, s, l, j) /\ StoreAt(c, s, r[c.name], p, j)

OnTheWay(c, s, r, p, v, l) ==
  \/ Finishing(c, s, r, p)
  \/ Reading(c, s, r, p, v)
  \/ Storing(c, s, r, p, l)

AloneOK ==
  \A t \in Threads :
    cmd[t] # NoCmd /\ t \notin disturbed /\ ~Deviates(cmd[t], before[t])
      => OnTheWay(cmd[t], before[t], store, prog[t], got[t], list[t])

SoloInv == CollectionInv /\ AllowedOK /\ ApartOK /\ IdleOK /\ OfOneKind /\ AloneOK

\* What AloneLikeRedis says of a step.
RepliesLikeRedis ==
  \A t \in Threads :
    Replies(t) /\ t \notin disturbed /\ ~Deviates(cmd[t], before[t])
      => Effect(cmd[t], before[t], store')

-----------------------------------------------------------------------------
(* What a program of writes ends with *)

LEMMA Pushed ==
  ASSUME NEW S, NEW i, NEW q \in Seq(S)
  PROVE  LET e == <<i>> \o q
         IN /\ DOMAIN e = 1..Len(q) + 1 /\ Len(e) = Len(q) + 1 /\ Len(q) \in Nat
            /\ e[1] = i /\ e # <<>> /\ Head(e) = i /\ Tail(e) = q
            /\ \A j \in 1..Len(q) : j + 1 \in DOMAIN e /\ e[j + 1] = q[j]
            /\ \A j \in DOMAIN e : j # 1 => j - 1 \in 1..Len(q) /\ e[j] = q[j - 1]
<1> DEFINE e == <<i>> \o q
           T == S \cup {i}
<1>1. q \in Seq(T) /\ <<i>> \in Seq(T) /\ Len(<<i>>) = 1 /\ <<i>>[1] = i /\ Len(q) \in Nat
  <2>1. S \subseteq T /\ i \in T
    OBVIOUS
  <2>2. q \in Seq(T)
    BY <2>1, SeqMonotonic
  <2> HIDE DEF T
  <2> QED
    BY <2>1, <2>2
<1>2. e \in Seq(T) /\ Len(e) = 1 + Len(q) /\ \A j \in 1..1 + Len(q) : e[j] = IF j <= 1 THEN <<i>>[j] ELSE q[j - 1]
  <2> HIDE DEF T
  <2> QED
    BY <1>1, ConcatProperties
<1> HIDE DEF e, T
<1>3. DOMAIN e = 1..Len(q) + 1 /\ e[1] = i /\ e # <<>> /\ Head(e) = i
  BY <1>1, <1>2, EmptySeq
<1>4. \A j \in 1..Len(q) : j + 1 \in DOMAIN e /\ e[j + 1] = q[j]
  BY <1>1, <1>2, <1>3
<1>5. \A j \in DOMAIN e : j # 1 => j - 1 \in 1..Len(q) /\ e[j] = q[j - 1]
  BY <1>1, <1>2, <1>3
<1>6. Tail(e) = q
  <2>1. /\ Tail(e) \in Seq(T) /\ Len(Tail(e)) = Len(e) - 1
        /\ \A j \in 1..Len(Tail(e)) : Tail(e)[j] = e[j + 1]
    BY <1>2, <1>3, HeadTailProperties
  <2>2. Len(Tail(e)) = Len(q) /\ \A j \in 1..Len(q) : Tail(e)[j] = q[j]
    BY <1>1, <1>2, <1>4, <2>1
  <2> QED
    BY <1>1, <2>1, <2>2, SeqEqual
<1> QED
  BY <1>1, <1>2, <1>3, <1>4, <1>5, <1>6 DEF e

LEMMA Split ==
  ASSUME NEW S, NEW p \in Seq(S), p # <<>>
  PROVE  /\ p = <<Head(p)>> \o Tail(p) /\ Head(p) \in S /\ Tail(p) \in Seq(S)
         /\ 1 \in DOMAIN p /\ p[1] = Head(p)
<1>1. Head(p) \in S /\ Tail(p) \in Seq(S) /\ Len(p) \in Nat /\ Len(p) # 0 /\ DOMAIN p = 1..Len(p) /\ p[1] = Head(p)
  BY HeadTailProperties, EmptySeq
<1>2. Len(Tail(p)) = Len(p) - 1 /\ \A j \in 1..Len(Tail(p)) : Tail(p)[j] = p[j + 1]
  BY HeadTailProperties
<1> DEFINE e == <<Head(p)>> \o Tail(p)
<1>3. /\ <<Head(p)>> \in Seq(S) /\ Len(<<Head(p)>>) = 1 /\ <<Head(p)>>[1] = Head(p)
  BY <1>1
<1>4. /\ e \in Seq(S) /\ Len(e) = 1 + Len(Tail(p))
      /\ \A j \in 1..1 + Len(Tail(p)) : e[j] = IF j <= 1 THEN <<Head(p)>>[j] ELSE Tail(p)[j - 1]
  BY <1>1, <1>3, ConcatProperties
<1> HIDE DEF e
<1>5. Len(e) = Len(p) /\ \A j \in 1..Len(p) : e[j] = p[j]
  <2>1. Len(e) = Len(p)
    BY <1>1, <1>2, <1>4
  <2>2. ASSUME NEW j \in 1..Len(p) PROVE e[j] = p[j]
    <3>1. CASE j = 1
      BY <1>1, <1>2, <1>3, <1>4, <3>1
    <3>2. CASE j # 1
      <4>1. j - 1 \in 1..Len(Tail(p)) /\ j \in 1..1 + Len(Tail(p)) /\ ~(j <= 1) /\ j - 1 + 1 = j
        BY <1>1, <1>2, <3>2
      <4> QED
        BY <1>2, <1>4, <4>1
    <3> QED
      BY <3>1, <3>2
  <2> QED
    BY <2>1, <2>2
<1>6. e = p
  BY <1>4, <1>5, SeqEqual
<1> QED
  BY <1>1, <1>6 DEF e

LEMMA EndsNow ==
  ASSUME NEW old, NEW n, NEW f, NEW w
  PROVE  Ends(<<>>, old, n, f, w) <=> w = old
BY DEF Ends

LEMMA EndsFirst ==
  ASSUME NEW S, NEW i, NEW q \in Seq(S), NEW old, NEW n, NEW f, NEW w
  PROVE  Ends(<<i>> \o q, old, n, f, w) <=> Ends(q, IF About(i, n, f) THEN Leaves(i, f) ELSE old, n, f, w)
<1> DEFINE e == <<i>> \o q
           new == IF About(i, n, f) THEN Leaves(i, f) ELSE old
           A(x) == About(x, n, f)
           V(x) == Leaves(x, f)
           m == Len(q)
<1>1. /\ DOMAIN e = 1..m + 1 /\ m \in Nat /\ DOMAIN q = 1..m /\ e[1] = i
      /\ \A j \in 1..m : j + 1 \in DOMAIN e /\ e[j + 1] = q[j]
      /\ \A j \in DOMAIN e : j # 1 => j - 1 \in 1..m /\ e[j] = q[j - 1]
  BY Pushed
<1>2. Ends(e, old, n, f, w) <=>
        \/ w = old /\ \A j \in DOMAIN e : ~A(e[j])
        \/ \E j \in DOMAIN e : A(e[j]) /\ w = V(e[j]) /\ \A k \in DOMAIN e : j < k => ~A(e[k])
  BY DEF Ends
<1>3. Ends(q, new, n, f, w) <=>
        \/ w = new /\ \A j \in DOMAIN q : ~A(q[j])
        \/ \E j \in DOMAIN q : A(q[j]) /\ w = V(q[j]) /\ \A k \in DOMAIN q : j < k => ~A(q[k])
  BY DEF Ends
<1>4. new = IF A(i) THEN V(i) ELSE old
  OBVIOUS
<1> HIDE DEF e, new, A, V, m
<1>5. (\A j \in DOMAIN q : ~A(q[j])) <=> (\A j \in DOMAIN e : j # 1 => ~A(e[j]))
  BY <1>1
<1>6. \A j \in 1..m : (\A k \in DOMAIN q : j < k => ~A(q[k])) <=> (\A k \in DOMAIN e : j + 1 < k => ~A(e[k]))
  <2> SUFFICES ASSUME NEW j \in 1..m
               PROVE  (\A k \in DOMAIN q : j < k => ~A(q[k])) <=> (\A k \in DOMAIN e : j + 1 < k => ~A(e[k]))
    OBVIOUS
  <2>1. \A k \in DOMAIN q : k + 1 \in DOMAIN e /\ e[k + 1] = q[k] /\ (j < k => j + 1 < k + 1)
    BY <1>1
  <2>2. \A k \in DOMAIN e : j + 1 < k => k - 1 \in DOMAIN q /\ q[k - 1] = e[k] /\ j < k - 1
    BY <1>1
  <2>3. ASSUME \A k \in DOMAIN q : j < k => ~A(q[k]), NEW k \in DOMAIN e, j + 1 < k PROVE ~A(e[k])
    <3>1. k - 1 \in DOMAIN q /\ q[k - 1] = e[k] /\ j < k - 1
      BY <2>2, <2>3
    <3>2. ~A(q[k - 1])
      BY <2>3, <3>1
    <3> QED
      BY <3>1, <3>2
  <2>4. ASSUME \A k \in DOMAIN e : j + 1 < k => ~A(e[k]), NEW k \in DOMAIN q, j < k PROVE ~A(q[k])
    <3>1. k + 1 \in DOMAIN e /\ e[k + 1] = q[k] /\ j + 1 < k + 1
      BY <2>1, <2>4
    <3>2. ~A(e[k + 1])
      BY <2>4, <3>1
    <3> QED
      BY <3>1, <3>2
  <2> QED
    BY <2>3, <2>4
<1>7. ASSUME Ends(e, old, n, f, w) PROVE Ends(q, new, n, f, w)
  <2>1. CASE w = old /\ \A j \in DOMAIN e : ~A(e[j])
    <3>1. 1 \in DOMAIN e
      BY <1>1
    <3>2. ~A(i)
      BY <1>1, <2>1, <3>1
    <3> QED
      BY <1>3, <1>4, <1>5, <2>1, <3>2
  <2>2. CASE \E j \in DOMAIN e : A(e[j]) /\ w = V(e[j]) /\ \A k \in DOMAIN e : j < k => ~A(e[k])
    <3>1. PICK j \in DOMAIN e : A(e[j]) /\ w = V(e[j]) /\ \A k \in DOMAIN e : j < k => ~A(e[k])
      BY <2>2
    <3>2. CASE j = 1
      <4>1. \A k \in DOMAIN e : k # 1 => 1 < k
        BY <1>1
      <4> QED
        BY <1>1, <1>3, <1>4, <1>5, <3>1, <3>2, <4>1
    <3>3. CASE j # 1
      <4>1. j - 1 \in 1..m /\ e[j] = q[j - 1] /\ j - 1 + 1 = j
        BY <1>1, <3>3
      <4>2. \A k \in DOMAIN q : j - 1 < k => ~A(q[k])
        BY <1>6, <3>1, <4>1
      <4> QED
        BY <1>1, <1>3, <3>1, <4>1, <4>2
    <3> QED
      BY <3>2, <3>3
  <2> QED
    BY <1>2, <1>7, <2>1, <2>2
<1>8. ASSUME Ends(q, new, n, f, w) PROVE Ends(e, old, n, f, w)
  <2>1. CASE w = new /\ \A j \in DOMAIN q : ~A(q[j])
    <3>1. \A k \in DOMAIN e : 1 < k => ~A(e[k])
      BY <1>1, <1>5, <2>1
    <3>2. 1 \in DOMAIN e
      BY <1>1
    <3>3. CASE A(i)
      BY <1>1, <1>2, <1>4, <2>1, <3>1, <3>2, <3>3
    <3>4. CASE ~A(i)
      <4>1. \A k \in DOMAIN e : ~A(e[k])
        BY <1>1, <1>5, <2>1, <3>4
      <4> QED
        BY <1>2, <1>4, <2>1, <3>4, <4>1
    <3> QED
      BY <3>3, <3>4
  <2>2. CASE \E j \in DOMAIN q : A(q[j]) /\ w = V(q[j]) /\ \A k \in DOMAIN q : j < k => ~A(q[k])
    <3>1. PICK j \in DOMAIN q : A(q[j]) /\ w = V(q[j]) /\ \A k \in DOMAIN q : j < k => ~A(q[k])
      BY <2>2
    <3>2. j \in 1..m /\ j + 1 \in DOMAIN e /\ e[j + 1] = q[j]
      BY <1>1
    <3>3. \A k \in DOMAIN e : j + 1 < k => ~A(e[k])
      BY <1>6, <3>1, <3>2
    <3> QED
      BY <1>2, <3>1, <3>2, <3>3
  <2> QED
    BY <1>3, <1>8, <2>1, <2>2
<1> QED
  BY <1>7, <1>8 DEF e, new

LEMMA ReachesOn ==
  ASSUME NEW c, NEW s, NEW r, NEW p, NEW r2, NEW p2, Reaches(c, s, r, p),
         \A n \in OnNames(c), f \in FieldsOf(c) : \A w :
           Ends(p, r[n][f], n, f, w) => Ends(p2, r2[n][f], n, f, w)
  PROVE  Reaches(c, s, r2, p2)
<1>1. PICK h \in After(c, s) : \A n \in OnNames(c), f \in FieldsOf(c) :
        Ends(p, r[n][f], n, f, Target(c, s, h, n, f))
  BY Zenon DEF Reaches
<1>2. \A n \in OnNames(c), f \in FieldsOf(c) : Ends(p2, r2[n][f], n, f, Target(c, s, h, n, f))
  BY <1>1
<1> QED
  BY <1>2, Zenon DEF Reaches

LEMMA SteadyTail ==
  ASSUME NEW S, NEW c, NEW i, NEW q \in Seq(S), Steady(c, <<i>> \o q)
  PROVE  Steady(c, q)
<1> DEFINE e == <<i>> \o q
<1>1. /\ Len(q) \in Nat /\ DOMAIN e = 1..Len(q) + 1 /\ DOMAIN q = 1..Len(q)
      /\ \A j \in 1..Len(q) : j + 1 \in DOMAIN e /\ e[j + 1] = q[j]
  BY Pushed
<1>2. Steady(c, e)
  OBVIOUS
<1> HIDE DEF e
<1> SUFFICES ASSUME NEW j \in DOMAIN q
             PROVE  \/ q[j].do \in Writes
                    \/ /\ q[j].do = "if_there" /\ c.op = "srem" /\ j + 1 \in DOMAIN q
                       /\ q[j + 1].do = "hdel" /\ q[j + 1].name = q[j].name /\ q[j + 1].fields = q[j].fields
                       /\ \E f \in Fields \cap Range(c.fields) : q[j].fields = {f}
  BY DEF Steady
<1>3. j + 1 \in DOMAIN e /\ e[j + 1] = q[j] /\ j \in Nat
  BY <1>1
<1>4. \/ e[j + 1].do \in Writes
      \/ /\ e[j + 1].do = "if_there" /\ c.op = "srem" /\ j + 1 + 1 \in DOMAIN e
         /\ e[j + 1 + 1].do = "hdel" /\ e[j + 1 + 1].name = e[j + 1].name /\ e[j + 1 + 1].fields = e[j + 1].fields
         /\ \E f \in Fields \cap Range(c.fields) : e[j + 1].fields = {f}
  BY <1>2, <1>3 DEF Steady
<1>5. j + 1 + 1 \in DOMAIN e => j + 1 \in DOMAIN q /\ e[j + 1 + 1] = q[j + 1]
  BY <1>1, <1>3
<1> QED
  BY <1>3, <1>4, <1>5

LEMMA SteadyFront ==
  ASSUME NEW S, NEW c, NEW i, NEW q \in Seq(S), i.do \in Writes, Steady(c, q)
  PROVE  Steady(c, <<i>> \o q)
<1> DEFINE e == <<i>> \o q
<1>1. /\ Len(q) \in Nat /\ DOMAIN e = 1..Len(q) + 1 /\ DOMAIN q = 1..Len(q) /\ e[1] = i
      /\ \A j \in 1..Len(q) : j + 1 \in DOMAIN e /\ e[j + 1] = q[j]
      /\ \A j \in DOMAIN e : j # 1 => j - 1 \in 1..Len(q) /\ e[j] = q[j - 1]
  BY Pushed
<1> HIDE DEF e
<1>2. SUFFICES ASSUME NEW j \in DOMAIN e
             PROVE  \/ e[j].do \in Writes
                    \/ /\ e[j].do = "if_there" /\ c.op = "srem" /\ j + 1 \in DOMAIN e
                       /\ e[j + 1].do = "hdel" /\ e[j + 1].name = e[j].name /\ e[j + 1].fields = e[j].fields
                       /\ \E f \in Fields \cap Range(c.fields) : e[j].fields = {f}
  BY DEF Steady, e
<1>3. CASE j = 1
  BY <1>1, <1>3
<1>4. CASE j # 1
  <2> DEFINE k == j - 1
  <2>1. k \in DOMAIN q /\ e[j] = q[k] /\ j = k + 1 /\ k \in Nat
    BY <1>1, <1>4
  <2> HIDE DEF k
  <2>2. \/ q[k].do \in Writes
        \/ /\ q[k].do = "if_there" /\ c.op = "srem" /\ k + 1 \in DOMAIN q
           /\ q[k + 1].do = "hdel" /\ q[k + 1].name = q[k].name /\ q[k + 1].fields = q[k].fields
           /\ \E f \in Fields \cap Range(c.fields) : q[k].fields = {f}
    BY <2>1 DEF Steady
  <2>3. k + 1 \in DOMAIN q => j + 1 \in DOMAIN e /\ e[j + 1] = q[k + 1]
    BY <1>1, <2>1
  <2> QED
    BY <2>1, <2>2, <2>3
<1> QED
  BY <1>3, <1>4

LEMMA SteadyNow ==
  ASSUME NEW S, NEW c, NEW i, NEW q \in Seq(S), Steady(c, <<i>> \o q)
  PROVE  \/ i.do \in Writes
         \/ /\ i.do = "if_there" /\ c.op = "srem" /\ q # <<>>
            /\ Head(q).do = "hdel" /\ Head(q).name = i.name /\ Head(q).fields = i.fields
            /\ \E f \in Fields \cap Range(c.fields) : i.fields = {f}
<1> DEFINE e == <<i>> \o q
<1>1. /\ Len(q) \in Nat /\ DOMAIN e = 1..Len(q) + 1 /\ DOMAIN q = 1..Len(q) /\ e[1] = i
      /\ \A j \in 1..Len(q) : j + 1 \in DOMAIN e /\ e[j + 1] = q[j]
  BY Pushed
<1>2. Steady(c, e)
  OBVIOUS
<1> HIDE DEF e
<1>3. \/ e[1].do \in Writes
      \/ /\ e[1].do = "if_there" /\ c.op = "srem" /\ 1 + 1 \in DOMAIN e
         /\ e[1 + 1].do = "hdel" /\ e[1 + 1].name = e[1].name /\ e[1 + 1].fields = e[1].fields
         /\ \E f \in Fields \cap Range(c.fields) : e[1].fields = {f}
  <2>1. 1 \in DOMAIN e
    BY <1>1
  <2> QED
    BY <1>2, <2>1, Zenon DEF Steady
<1>4. 1 + 1 \in DOMAIN e => 1 \in DOMAIN q /\ e[1 + 1] = q[1] /\ q # <<>> /\ q[1] = Head(q)
  <2>1. 1 + 1 \in DOMAIN e => Len(q) # 0 /\ 1 \in DOMAIN q /\ e[1 + 1] = q[1]
    BY <1>1
  <2>2. Len(q) # 0 => q # <<>>
    BY EmptySeq
  <2>3. q # <<>> => q[1] = Head(q)
    BY Split
  <2> QED
    BY <2>1, <2>2, <2>3
<1> QED
  BY <1>1, <1>3, <1>4

\* A call that writes one record.
Less(i, f, q) == IF i.fields = {f} THEN q ELSE <<[i EXCEPT !.fields = @ \ {f}]>> \o q

LEMMA WriteEnds ==
  ASSUME NEW i \in Instruction, NEW q \in Seq(Instruction), NEW f \in i.fields,
         i.do \in {"hset", "hset_member", "hdel"}, NEW n, NEW g, NEW old, NEW w,
         Ends(<<i>> \o q, old, n, g, w)
  PROVE  Ends(Less(i, f, q), IF n = i.name /\ g = f THEN Leaves(i, f) ELSE old, n, g, w)
<1> DEFINE new == IF n = i.name /\ g = f THEN Leaves(i, f) ELSE old
<1>1. Ends(q, IF About(i, n, g) THEN Leaves(i, g) ELSE old, n, g, w)
  BY EndsFirst
<1>2. About(i, n, g) <=> i.name = n /\ g \in i.fields
  BY DEF About
<1>3. CASE i.fields = {f}
  <2>1. (IF About(i, n, g) THEN Leaves(i, g) ELSE old) = new
    BY <1>2, <1>3
  <2> QED
    BY <1>1, <1>3, <2>1 DEF Less
<1>4. CASE i.fields # {f}
  <2>1. PICK j : j = [i EXCEPT !.fields = @ \ {f}]
    OBVIOUS
  <2>2. j.do = i.do /\ j.name = i.name /\ j.value = i.value /\ j.fields = i.fields \ {f}
    BY <2>1 DEF Instruction
  <2>3. About(j, n, g) <=> i.name = n /\ g \in i.fields \ {f}
    BY <2>2 DEF About
  <2>4. Leaves(j, g) = Leaves(i, g)
    BY <2>2 DEF Leaves
  <2>5. (IF About(i, n, g) THEN Leaves(i, g) ELSE old) = (IF About(j, n, g) THEN Leaves(j, g) ELSE new)
    BY <1>2, <2>3, <2>4
  <2>6. Ends(q, IF About(j, n, g) THEN Leaves(j, g) ELSE new, n, g, w)
    BY <1>1, <2>5
  <2>7. Ends(<<j>> \o q, new, n, g, w)
    BY <2>6, EndsFirst
  <2> QED
    BY <1>4, <2>1, <2>7 DEF Less
<1> QED
  BY <1>3, <1>4

LEMMA WriteFinishes ==
  ASSUME NEW c, NEW s, NEW r, NEW r2, NEW i \in Instruction, NEW q \in Seq(Instruction),
         NEW f \in i.fields, i.do \in {"hset", "hset_member", "hdel"},
         Finishing(c, s, r, <<i>> \o q),
         \A n \in OnNames(c), g \in FieldsOf(c) :
           r2[n][g] = IF n = i.name /\ g = f THEN Leaves(i, f) ELSE r[n][g]
  PROVE  Finishing(c, s, r2, Less(i, f, q))
<1>1. Reaches(c, s, r2, Less(i, f, q))
  BY WriteEnds, ReachesOn DEF Finishing
<1>2. Steady(c, q)
  BY SteadyTail DEF Finishing
<1>3. Steady(c, Less(i, f, q))
  <2>1. PICK j : j = [i EXCEPT !.fields = @ \ {f}]
    OBVIOUS
  <2>2. j.do \in Writes
    BY <2>1 DEF Writes, Instruction
  <2>3. Steady(c, <<j>> \o q)
    BY <1>2, <2>2, SteadyFront
  <2> QED
    BY <1>2, <2>1, <2>3 DEF Less
<1> QED
  BY <1>1, <1>3 DEF Finishing

\* hclear goes over to the deletion of what it finds.
LEMMA ClearEnds ==
  ASSUME NEW i, NEW q \in Seq(Instruction), i.do = "hclear", NEW h, NEW n, NEW g \in Fields, NEW old, NEW w,
         n = i.name => old = h[g],
         Ends(<<i>> \o q, old, n, g, w)
  PROVE  Ends(Each("hdel", i.name, Members(h)) \o q, old, n, g, w)
<1>1. About(i, n, g) <=> i.name = n
  BY DEF About
<1>2. Leaves(i, g) = NoValue
  BY DEF Leaves
<1>3. Ends(q, IF i.name = n THEN NoValue ELSE old, n, g, w)
  BY <1>1, <1>2, EndsFirst
<1>4. CASE Members(h) = {}
  <2>1. i.name = n => old = NoValue
    BY <1>4 DEF Members
  <2>2. Each("hdel", i.name, Members(h)) \o q = q
    <3>1. Each("hdel", i.name, Members(h)) = <<>>
      BY <1>4 DEF Each
    <3> QED
      BY <3>1, ConcatEmptySeq
  <2>3. (IF i.name = n THEN NoValue ELSE old) = old
    BY <2>1
  <2> QED
    BY <1>3, <2>2, <2>3
<1>5. CASE Members(h) # {}
  <2>1. PICK j : j = [do |-> "hdel", name |-> i.name, fields |-> Members(h), value |-> NoValue]
    OBVIOUS
  <2>2. About(j, n, g) <=> i.name = n /\ g \in Members(h)
    BY <2>1 DEF About
  <2>3. Leaves(j, g) = NoValue
    BY <2>1 DEF Leaves
  <2>4. i.name = n /\ g \notin Members(h) => old = NoValue
    BY DEF Members
  <2>5. (IF About(j, n, g) THEN Leaves(j, g) ELSE old) = (IF i.name = n THEN NoValue ELSE old)
    BY <2>2, <2>3, <2>4
  <2>6. Ends(<<j>> \o q, old, n, g, w)
    BY <1>3, <2>5, EndsFirst
  <2>7. Each("hdel", i.name, Members(h)) = <<j>>
    BY <1>5, <2>1 DEF Each
  <2> QED
    BY <2>6, <2>7
<1> QED
  BY <1>4, <1>5

LEMMA EachSteady ==
  ASSUME NEW c, NEW do \in Writes, NEW n, NEW fs, NEW q \in Seq(Instruction), Steady(c, q)
  PROVE  Steady(c, Each(do, n, fs) \o q)
<1>1. CASE fs = {}
  <2>1. Each(do, n, fs) \o q = q
    <3>1. Each(do, n, fs) = <<>>
      BY <1>1 DEF Each
    <3> QED
      BY <3>1, ConcatEmptySeq
  <2> QED
    BY <2>1
<1>2. CASE fs # {}
  <2>1. PICK j : j = [do |-> do, name |-> n, fields |-> fs, value |-> NoValue]
    OBVIOUS
  <2>2. Steady(c, <<j>> \o q)
    BY <2>1, SteadyFront
  <2>3. Each(do, n, fs) = <<j>>
    BY <1>2, <2>1 DEF Each
  <2> QED
    BY <2>2, <2>3
<1> QED
  BY <1>1, <1>2

LEMMA ClearFinishes ==
  ASSUME NEW c, NEW s, NEW r, NEW i, NEW q \in Seq(Instruction), i.do = "hclear",
         FieldsOf(c) \subseteq Fields, Finishing(c, s, r, <<i>> \o q)
  PROVE  Finishing(c, s, r, Each("hdel", i.name, Members(r[i.name])) \o q)
<1> DEFINE p == Each("hdel", i.name, Members(r[i.name])) \o q
<1>1. \A n \in OnNames(c), g \in FieldsOf(c) : \A w :
        Ends(<<i>> \o q, r[n][g], n, g, w) => Ends(p, r[n][g], n, g, w)
  BY ClearEnds
<1>2. Reaches(c, s, r, p)
  <2> HIDE DEF p
  <2> QED
    BY <1>1, ReachesOn DEF Finishing
<1>3. Steady(c, p)
  <2>1. Steady(c, q)
    BY SteadyTail DEF Finishing
  <2> QED
    BY <2>1, EachSteady DEF Writes
<1> QED
  BY <1>2, <1>3 DEF Finishing

\* SREM looks, and goes on with the deletion or behind it.
LEMMA LookFinishes ==
  ASSUME NEW c, NEW s, NEW r, NEW i \in Instruction, NEW q \in Seq(Instruction), i.do = "if_there",
         Finishing(c, s, r, <<i>> \o q)
  PROVE  /\ Finishing(c, s, r, q)
         /\ q # <<>> /\ c.op = "srem" /\ \E f \in Fields \cap Range(c.fields) : i.fields = {f}
         /\ (\A f \in i.fields : r[i.name][f] = NoValue) => Finishing(c, s, r, Tail(q))
<1>1. /\ q # <<>> /\ Head(q).do = "hdel" /\ Head(q).name = i.name /\ Head(q).fields = i.fields
      /\ i.do \notin Writes /\ c.op = "srem" /\ \E f \in Fields \cap Range(c.fields) : i.fields = {f}
  <2>1. i.do \notin Writes
    BY DEF Writes
  <2>2. Steady(c, <<i>> \o q)
    BY DEF Finishing
  <2>3. \/ i.do \in Writes
        \/ /\ i.do = "if_there" /\ c.op = "srem" /\ q # <<>>
           /\ Head(q).do = "hdel" /\ Head(q).name = i.name /\ Head(q).fields = i.fields
           /\ \E f \in Fields \cap Range(c.fields) : i.fields = {f}
    BY <2>2, SteadyNow, Zenon
  <2> QED
    BY <2>1, <2>3
<1>2. Steady(c, q)
  BY SteadyTail DEF Finishing
<1>3. q = <<Head(q)>> \o Tail(q) /\ Tail(q) \in Seq(Instruction)
  BY <1>1, Split
<1>4. Steady(c, Tail(q))
  <2>1. Steady(c, <<Head(q)>> \o Tail(q))
    BY <1>2, <1>3
  <2> QED
    BY <1>3, <2>1, SteadyTail
<1>5. Reaches(c, s, r, q)
  <2>1. ASSUME NEW n, NEW g, NEW old, NEW w, Ends(<<i>> \o q, old, n, g, w)
        PROVE  Ends(q, old, n, g, w)
    <3>1. ~About(i, n, g)
      BY DEF About
    <3> QED
      BY <2>1, <3>1, EndsFirst
  <2> QED
    BY <2>1, ReachesOn DEF Finishing
<1>6. ASSUME \A f \in i.fields : r[i.name][f] = NoValue
      PROVE  Reaches(c, s, r, Tail(q))
  <2>1. ASSUME NEW n, NEW g, NEW w, Ends(q, r[n][g], n, g, w)
        PROVE  Ends(Tail(q), r[n][g], n, g, w)
    <3>1. Ends(Tail(q), IF About(Head(q), n, g) THEN Leaves(Head(q), g) ELSE r[n][g], n, g, w)
      <4>1. Ends(<<Head(q)>> \o Tail(q), r[n][g], n, g, w)
        BY <1>3, <2>1
      <4> QED
        BY <1>3, <4>1, EndsFirst
    <3>2. About(Head(q), n, g) => n = i.name /\ g \in i.fields
      BY <1>1 DEF About
    <3>3. Leaves(Head(q), g) = NoValue
      BY <1>1 DEF Leaves
    <3>4. (IF About(Head(q), n, g) THEN Leaves(Head(q), g) ELSE r[n][g]) = r[n][g]
      BY <1>6, <3>2, <3>3
    <3> QED
      BY <3>1, <3>4
  <2> QED
    BY <1>5, <2>1, ReachesOn
<1> QED
  BY <1>1, <1>2, <1>4, <1>5, <1>6 DEF Finishing

-----------------------------------------------------------------------------
(* What others do, and the reply *)

LEMMA OfCommand ==
  ASSUME NEW c \in Request
  PROVE  /\ c.name \in OnNames(c) /\ OnNames(c) \subseteq Names /\ FieldsOf(c) \subseteq Fields
         /\ \A n, f : <<n, f>> \in Touched(c) <=> n \in OnNames(c) /\ f \in FieldsOf(c)
         /\ DOMAIN c.fields = 1..Len(c.fields) /\ Len(c.fields) \in Nat
         /\ DOMAIN c.from = 1..Len(c.from) /\ Len(c.from) \in Nat
         /\ \A i \in DOMAIN c.fields : c.fields[i] \in FieldsOf(c)
         /\ c.op # "flushdb" => \A i \in DOMAIN c.from : c.from[i] \in OnNames(c)
<1>1. /\ c.name \in Names /\ c.fields \in Seq(Fields) /\ c.from \in Seq(Names)
  BY DEF Request
<1>2. Range(c.from) \subseteq Names /\ Range(c.fields) \subseteq Fields
  BY <1>1, ElementOfSeq DEF Range
<1>3. OnNames(c) \subseteq Names /\ c.name \in OnNames(c)
  BY <1>1, <1>2 DEF OnNames
<1>4. FieldsOf(c) \subseteq Fields
  BY <1>2 DEF FieldsOf
<1>5. Touched(c) = OnNames(c) \X FieldsOf(c)
  BY DEF Touched, FieldsOf
<1>6. \A n, f : <<n, f>> \in Touched(c) <=> n \in OnNames(c) /\ f \in FieldsOf(c)
  BY <1>5
<1>7. /\ DOMAIN c.fields = 1..Len(c.fields) /\ Len(c.fields) \in Nat
      /\ DOMAIN c.from = 1..Len(c.from) /\ Len(c.from) \in Nat
  BY <1>1
<1>8. \A i \in DOMAIN c.fields : c.fields[i] \in FieldsOf(c)
  <2>1. \A i \in DOMAIN c.fields : c.fields # <<>>
    BY <1>1, EmptySeq
  <2> QED
    BY <2>1 DEF FieldsOf, Range
<1>9. c.op # "flushdb" => \A i \in DOMAIN c.from : c.from[i] \in OnNames(c)
  BY DEF OnNames, Range
<1> QED
  BY <1>3, <1>4, <1>6, <1>7, <1>8, <1>9

LEMMA Local ==
  ASSUME NEW c \in Request, NEW s, NEW r, NEW r2, NEW p, NEW v, NEW l,
         \A n \in OnNames(c), f \in FieldsOf(c) : r2[n][f] = r[n][f],
         OnTheWay(c, s, r, p, v, l)
  PROVE  OnTheWay(c, s, r2, p, v, l)
<1>1. CASE Finishing(c, s, r, p)
  <2>1. Reaches(c, s, r2, p)
    BY <1>1, ReachesOn DEF Finishing
  <2> QED
    BY <1>1, <2>1 DEF Finishing, OnTheWay
<1>2. CASE Reading(c, s, r, p, v)
  <2>1. Unread(c, s, r2)
    BY <1>2 DEF Reading, Unread
  <2>2. Reading(c, s, r2, p, v)
    BY <1>2, <2>1 DEF Reading
  <2> QED
    BY <2>2 DEF OnTheWay
<1>3. CASE Storing(c, s, r, p, l)
  <2>1. c.fields = <<>>
    BY <1>3 DEF Storing
  <2>2. FieldsOf(c) = Fields /\ c.name \in OnNames(c)
    BY <2>1, OfCommand DEF FieldsOf
  <2>3. \A n \in OnNames(c), f \in Fields : r2[n][f] = r[n][f]
    BY <2>2
  <2>4. Storing(c, s, r2, p, l)
    <3>1. \A f \in Fields : r2[c.name][f] = r[c.name][f]
      BY <2>2, <2>3
    <3>2. \A n \in OnNames(c) \ {c.name}, f \in Fields : r2[n][f] = r[n][f]
      BY <2>3
    <3>3. \A j : StoreAt(c, s, r[c.name], p, j) => StoreAt(c, s, r2[c.name], p, j)
      BY <3>1 DEF StoreAt
    <3> QED
      BY <1>3, <3>2, <3>3 DEF Storing
  <2> QED
    BY <2>4 DEF OnTheWay
<1> QED
  BY <1>1, <1>2, <1>3 DEF OnTheWay

LEMMA StoreCallsLeft ==
  ASSUME NEW c \in Request, NEW j \in 0..Len(c.from) + 1
  PROVE  StoreCalls(c, j) # <<>>
<1>1. Len(c.from) \in Nat
  BY OfCommand
<1>2. Len(c.from) + 2 - j \in Nat /\ Len(c.from) + 2 - j # 0
  BY <1>1
<1>3. DOMAIN StoreCalls(c, j) = 1..Len(c.from) + 2 - j
  BY DEF StoreCalls
<1> QED
  BY <1>2, <1>3, LenOfFun

LEMMA AtReply ==
  ASSUME NEW c \in Request, NEW s, NEW r, NEW v, NEW l, OnTheWay(c, s, r, <<>>, v, l)
  PROVE  Effect(c, s, r)
<1>1. ~Reading(c, s, r, <<>>, v)
  BY DEF Reading
<1>2. ~Storing(c, s, r, <<>>, l)
  <2>1. \A j \in 0..Len(c.from) + 1 : StoreCalls(c, j) # <<>>
    BY StoreCallsLeft
  <2>2. \A x, j : <<x>> \o StoreCalls(c, j) # <<>>
    <3> SUFFICES ASSUME NEW x, NEW j PROVE <<x>> \o StoreCalls(c, j) # <<>>
      OBVIOUS
    <3>1. PICK q : q = StoreCalls(c, j)
      OBVIOUS
    <3> QED
      BY <3>1
  <2> QED
    BY <2>1, <2>2 DEF Storing, StoreAt
<1>3. Reaches(c, s, r, <<>>)
  BY <1>1, <1>2 DEF OnTheWay, Finishing
<1>4. PICK h \in After(c, s) : \A n \in OnNames(c), f \in FieldsOf(c) :
        Ends(<<>>, r[n][f], n, f, Target(c, s, h, n, f))
  BY <1>3, Zenon DEF Reaches
<1>5. \A n \in OnNames(c), f \in FieldsOf(c) : Target(c, s, h, n, f) = r[n][f]
  BY <1>4, EndsNow
<1>6. \A n \in OnNames(c), f \in Fields :
        <<n, f>> \in Touched(c) => r[n][f] = IF n = c.name THEN h[f] ELSE AfterOther(c, s, n)[f]
  BY <1>5, OfCommand DEF Target
<1> QED
  BY <1>4, <1>6, Zenon DEF Effect

LEMMA StartAlone ==
  ASSUME SoloInv, CollectionInv', NEW t \in Threads, NEW c \in Request, NEW p, p # <<>>,
         Start(t, c, p), \A i \in DOMAIN p : Allowed(p[i], c),
         c.op \in {"srem", "spop", "smove", "union", "inter", "diff"} => kind = "set",
         c.op \in {"hsetnx", "hincrby"} => kind = "hash",
         c.op \in {"zincrby", "by_rank", "by_score"} => kind = "zset",
         ~Deviates(c, store) => OnTheWay(c, store, store, p, NoValue, <<>>)
  PROVE  SoloInv' /\ RepliesLikeRedis
<1>1. /\ kind' = kind /\ store' = store /\ got' = got /\ list' = list
      /\ prog' = [prog EXCEPT ![t] = p] /\ cmd' = [cmd EXCEPT ![t] = c]
      /\ before' = [before EXCEPT ![t] = store]
      /\ prog[t] = <<>>
      /\ disturbed' = disturbed \cup Meets(t, c) \cup (IF Meets(t, c) = {} THEN {} ELSE {t})
  BY DEF Start
<1>2. /\ TypeOK /\ AllowedOK /\ ApartOK /\ IdleOK /\ OfOneKind /\ AloneOK
  BY DEF SoloInv, CollectionInv
<1>3. /\ prog'[t] = p /\ cmd'[t] = c /\ before'[t] = store
      /\ \A u \in Threads : u # t => prog'[u] = prog[u] /\ cmd'[u] = cmd[u] /\ before'[u] = before[u]
      /\ cmd[t] = NoCmd /\ got[t] = NoValue /\ list[t] = <<>>
      /\ c # NoCmd
  BY <1>1, <1>2, CollectionAssumption DEF TypeOK, IdleOK
<1>4. \A u \in Threads : u \notin disturbed' => u \notin disturbed /\ u \notin Meets(t, c)
  BY <1>1
<1>5. AllowedOK'
  BY <1>2, <1>3 DEF AllowedOK
<1>6. ApartOK'
  <2> SUFFICES ASSUME NEW u \in Threads, NEW w \in Threads, u # w, cmd'[u] # NoCmd, cmd'[w] # NoCmd, u \notin disturbed'
               PROVE  Touched(cmd'[u]) \cap Touched(cmd'[w]) = {}
    BY DEF ApartOK
  <2>1. CASE u # t /\ w # t
    BY <1>2, <1>3, <1>4, <2>1 DEF ApartOK
  <2>2. CASE u = t
    <3>1. Meets(t, c) = {}
      BY <1>1, <2>2
    <3>2. w # t /\ cmd'[w] = cmd[w] /\ cmd'[u] = c
      BY <1>3, <2>2
    <3>3. w \notin Meets(t, c)
      BY <3>1
    <3> QED
      BY <3>2, <3>3 DEF Meets
  <2>3. CASE w = t
    <3>1. u # t /\ cmd'[u] = cmd[u] /\ cmd'[w] = c
      BY <1>3, <2>3
    <3>2. u \notin Meets(t, c)
      BY <1>4
    <3> QED
      BY <3>1, <3>2 DEF Meets
  <2> QED
    BY <2>1, <2>2, <2>3
<1>7. IdleOK'
  BY <1>1, <1>2, <1>3 DEF IdleOK
<1>8. OfOneKind'
  BY <1>1, <1>2, <1>3 DEF OfOneKind
<1>9. AloneOK'
  <2> SUFFICES ASSUME NEW u \in Threads, cmd'[u] # NoCmd, u \notin disturbed', ~Deviates(cmd'[u], before'[u])
               PROVE  OnTheWay(cmd'[u], before'[u], store', prog'[u], got'[u], list'[u])
    BY DEF AloneOK
  <2>1. CASE u = t
    BY <1>1, <1>3, <2>1
  <2>2. CASE u # t
    BY <1>1, <1>2, <1>3, <1>4, <2>2 DEF AloneOK
  <2> QED
    BY <2>1, <2>2
<1>10. RepliesLikeRedis
  <2> SUFFICES ASSUME NEW u \in Threads, Replies(u) PROVE FALSE
    BY DEF RepliesLikeRedis
  <2>1. u # t
    BY <1>3 DEF Replies
  <2>2. prog[u] = <<>> /\ cmd[u] # NoCmd
    BY <1>3, <2>1 DEF Replies
  <2> QED
    BY <1>2, <2>2 DEF TypeOK
<1> QED
  BY <1>5, <1>6, <1>7, <1>8, <1>9, <1>10 DEF SoloInv

LEMMA StepAlone ==
  ASSUME SoloInv, CollectionInv', NEW t \in Threads, prog[t] # <<>>, NEW p, NEW v, NEW l,
         Goes(t, p), Keeps(t, p, v, l), kind' = kind,
         \A n \in Names, f \in Fields : <<n, f>> \notin Touched(cmd[t]) => store'[n][f] = store[n][f],
         \A i \in DOMAIN p : Allowed(p[i], cmd[t]),
         t \notin disturbed /\ ~Deviates(cmd[t], before[t])
           => OnTheWay(cmd[t], before[t], store', p, v, l)
  PROVE  SoloInv' /\ RepliesLikeRedis
<1>1. /\ TypeOK /\ AllowedOK /\ ApartOK /\ IdleOK /\ OfOneKind /\ AloneOK
  BY DEF SoloInv, CollectionInv
<1>2. /\ prog' = [prog EXCEPT ![t] = p]
      /\ p # <<>> => cmd' = cmd /\ before' = before /\ disturbed' = disturbed
      /\ p = <<>> => /\ cmd' = [cmd EXCEPT ![t] = NoCmd]
                     /\ before' = [before EXCEPT ![t] = Empty]
                     /\ disturbed' = disturbed \ {t}
      /\ got' = [got EXCEPT ![t] = IF p = <<>> THEN NoValue ELSE v]
      /\ list' = [list EXCEPT ![t] = IF p = <<>> THEN <<>> ELSE l]
  BY DEF Goes, Keeps, history
<1>3. /\ \A u \in Threads : u # t => /\ prog'[u] = prog[u] /\ cmd'[u] = cmd[u] /\ before'[u] = before[u]
                                     /\ got'[u] = got[u] /\ list'[u] = list[u]
                                     /\ (u \notin disturbed' <=> u \notin disturbed)
      /\ prog'[t] = p
      /\ p # <<>> => cmd'[t] = cmd[t] /\ before'[t] = before[t] /\ got'[t] = v /\ list'[t] = l /\ disturbed' = disturbed
      /\ p = <<>> => cmd'[t] = NoCmd /\ got'[t] = NoValue /\ list'[t] = <<>>
  BY <1>1, <1>2 DEF TypeOK
<1>4. \A u \in Threads : cmd'[u] # NoCmd =>
        /\ cmd[u] # NoCmd /\ cmd'[u] = cmd[u] /\ before'[u] = before[u]
        /\ u \notin disturbed' => u \notin disturbed
  BY <1>3
<1>5. AllowedOK'
  BY <1>1, <1>3 DEF AllowedOK
<1>6. ApartOK'
  BY <1>1, <1>4 DEF ApartOK
<1>7. IdleOK'
  BY <1>1, <1>3 DEF IdleOK
<1>8. OfOneKind'
  BY <1>1, <1>4 DEF OfOneKind
<1>9. cmd[t] \in Request /\ cmd[t] # NoCmd
  BY Current DEF SoloInv
<1>10. AloneOK'
  <2> SUFFICES ASSUME NEW u \in Threads, cmd'[u] # NoCmd, u \notin disturbed', ~Deviates(cmd'[u], before'[u])
               PROVE  OnTheWay(cmd'[u], before'[u], store', prog'[u], got'[u], list'[u])
    BY DEF AloneOK
  <2>1. CASE u = t
    BY <1>3, <2>1
  <2>2. CASE u # t
    <3>1. /\ cmd'[u] = cmd[u] /\ before'[u] = before[u] /\ prog'[u] = prog[u] /\ got'[u] = got[u]
          /\ list'[u] = list[u] /\ u \notin disturbed
      BY <1>3, <2>2
    <3>2. OnTheWay(cmd[u], before[u], store, prog[u], got[u], list[u])
      BY <1>1, <3>1 DEF AloneOK
    <3>3. cmd[u] \in Request
      BY <1>1, <3>1 DEF TypeOK
    <3>4. Touched(cmd[u]) \cap Touched(cmd[t]) = {}
      BY <1>1, <1>9, <2>2, <3>1 DEF ApartOK
    <3>5. \A n \in OnNames(cmd[u]), f \in FieldsOf(cmd[u]) : store'[n][f] = store[n][f]
      <4> SUFFICES ASSUME NEW n \in OnNames(cmd[u]), NEW f \in FieldsOf(cmd[u])
                   PROVE  store'[n][f] = store[n][f]
        OBVIOUS
      <4>1. n \in Names /\ f \in Fields /\ <<n, f>> \in Touched(cmd[u])
        BY <3>3, OfCommand
      <4> QED
        BY <3>4, <4>1
    <3>6. OnTheWay(cmd[u], before[u], store', prog[u], got[u], list[u])
      BY <3>2, <3>3, <3>5, Local
    <3> QED
      BY <3>1, <3>6
  <2> QED
    BY <2>1, <2>2
<1>11. RepliesLikeRedis
  <2> SUFFICES ASSUME NEW u \in Threads, Replies(u), u \notin disturbed, ~Deviates(cmd[u], before[u])
               PROVE  Effect(cmd[u], before[u], store')
    BY DEF RepliesLikeRedis
  <2>1. u = t
    <3> SUFFICES ASSUME u # t PROVE FALSE
      OBVIOUS
    <3>1. prog[u] = <<>> /\ cmd[u] # NoCmd
      BY <1>3 DEF Replies
    <3> QED
      BY <1>1, <3>1 DEF TypeOK
  <2>2. p = <<>>
    BY <1>3, <2>1 DEF Replies
  <2>3. OnTheWay(cmd[t], before[t], store', <<>>, v, l)
    BY <2>1, <2>2
  <2> QED
    BY <1>9, <2>1, <2>3, AtReply
<1> QED
  BY <1>5, <1>6, <1>7, <1>8, <1>10, <1>11 DEF SoloInv

LEMMA KilledAlone ==
  ASSUME SoloInv, CollectionInv', Killed
  PROVE  SoloInv' /\ RepliesLikeRedis
<1>1. /\ prog' = [t \in Threads |-> <<>>] /\ cmd' = [t \in Threads |-> NoCmd]
      /\ got' = [t \in Threads |-> NoValue] /\ list' = [t \in Threads |-> <<>>]
      /\ faults' = faults + 1 /\ faults \in Int
  BY CollectionAssumption DEF Killed, SoloInv, CollectionInv, TypeOK
<1>2. \A t \in Threads : prog'[t] = <<>> /\ cmd'[t] = NoCmd /\ got'[t] = NoValue /\ list'[t] = <<>>
  BY <1>1
<1>3. AllowedOK' /\ ApartOK' /\ OfOneKind' /\ AloneOK' /\ IdleOK'
  BY <1>2 DEF AllowedOK, ApartOK, OfOneKind, AloneOK, IdleOK
<1>4. faults' # faults
  BY <1>1
<1> QED
  BY <1>3, <1>4 DEF SoloInv, RepliesLikeRedis, Replies

-----------------------------------------------------------------------------
(* Every command starts on its way *)

LEMMA LastIndex ==
  ASSUME NEW m \in Nat, NEW P, P \subseteq 1..m, P # {}
  PROVE  \E i \in P : \A j \in P : ~(i < j)
<1> DEFINE B == {m - i : i \in P}
<1>1. B \subseteq Nat /\ B # {}
  <2>1. \A i \in P : m - i \in Nat
    OBVIOUS
  <2>2. PICK i : i \in P
    OBVIOUS
  <2>3. m - i \in B
    BY <2>2
  <2> QED
    BY <2>1, <2>3
<1>2. PICK b \in B : \A d \in B : b <= d
  <2> HIDE DEF B
  <2> QED
    BY <1>1, LeastNat
<1>3. PICK i \in P : b = m - i
  BY <1>2
<1>4. \A j \in P : m - i <= m - j
  BY <1>2, <1>3
<1>5. \A j \in P : j \in Nat
  OBVIOUS
<1> QED
  BY <1>3, <1>4, <1>5

\* A program that writes the record of f has a last call that does.
LEMMA LastAbout ==
  ASSUME NEW S, NEW p \in Seq(S), NEW n, NEW f, NEW k \in DOMAIN p, About(p[k], n, f)
  PROVE  \E i \in DOMAIN p : About(p[i], n, f) /\ \A j \in DOMAIN p : i < j => ~About(p[j], n, f)
<1> DEFINE P == {i \in DOMAIN p : About(p[i], n, f)}
<1>1. P \subseteq 1..Len(p) /\ Len(p) \in Nat /\ P # {}
  OBVIOUS
<1>2. PICK i \in P : \A j \in P : ~(i < j)
  <2> HIDE DEF P
  <2> QED
    BY <1>1, LastIndex
<1> QED
  BY <1>2

\* A program that deletes the record of f, and at least does not write it.
LEMMA DeletesEnd ==
  ASSUME NEW S, NEW p \in Seq(S), NEW n, NEW f, NEW old,
         NEW k \in DOMAIN p, About(p[k], n, f),
         \A i \in DOMAIN p : p[i].do \notin {"hset", "hset_member"}
  PROVE  Ends(p, old, n, f, NoValue)
<1>1. PICK i \in DOMAIN p : About(p[i], n, f) /\ \A j \in DOMAIN p : i < j => ~About(p[j], n, f)
  BY LastAbout
<1>2. Leaves(p[i], f) = NoValue
  BY DEF Leaves
<1> QED
  BY <1>1, <1>2 DEF Ends

LEMMA CallIs ==
  ASSUME NEW do, NEW n, NEW f, NEW v
  PROVE  LET x == Call(do, n, f, v)
         IN /\ x.do = do /\ x.name = n /\ x.fields = {f} /\ x.value = v
            /\ do \in {"hset", "hset_member", "hdel"} => \A m, g : About(x, m, g) <=> m = n /\ g = f
            /\ do \notin Writes => \A m, g : ~About(x, m, g)
            /\ do = "hset" => \A g : Leaves(x, g) = v
            /\ do = "hset_member" => \A g : Leaves(x, g) = Itself(g)
            /\ do = "hdel" => \A g : Leaves(x, g) = NoValue
<1>1. PICK x : x = Call(do, n, f, v)
  OBVIOUS
<1>2. x.do = do /\ x.name = n /\ x.fields = {f} /\ x.value = v
  BY <1>1 DEF Call
<1>3. do \in {"hset", "hset_member", "hdel"} => \A m, g : About(x, m, g) <=> m = n /\ g = f
  BY <1>2 DEF About
<1>4. do \notin Writes => \A m, g : ~About(x, m, g)
  BY <1>2 DEF About, Writes
<1>5. /\ do = "hset" => \A g : Leaves(x, g) = v
      /\ do = "hset_member" => \A g : Leaves(x, g) = Itself(g)
      /\ do = "hdel" => \A g : Leaves(x, g) = NoValue
  BY <1>2 DEF Leaves
<1> QED
  BY <1>1, <1>2, <1>3, <1>4, <1>5

LEMMA OneName ==
  ASSUME NEW c, c.op # "flushdb", c.from = <<>>
  PROVE  OnNames(c) = {c.name}
<1>1. Range(<<>>) = {}
  BY DEF Range
<1> QED
  BY <1>1 DEF OnNames

LEMMA FieldsGiven ==
  ASSUME NEW c \in Request, c.fields # <<>>
  PROVE  FieldsOf(c) = Range(c.fields) /\ \A f \in FieldsOf(c) : \E i \in DOMAIN c.fields : c.fields[i] = f
BY DEF FieldsOf, Range

\* HSET, HMSET, SADD, ZADD.
LEMMA WritesFinish ==
  ASSUME NEW c \in Request, NEW s, c.op = "hmset", c.from = <<>>, c.fields # <<>>,
         Hsets(c.name, c.fields, c.values) \in Seq(Instruction)
  PROVE  Finishing(c, s, s, Hsets(c.name, c.fields, c.values))
<1> DEFINE p == Hsets(c.name, c.fields, c.values)
           n == c.name
           h == Written(c, s[n])
<1>1. /\ DOMAIN p = DOMAIN c.fields /\ DOMAIN p = 1..Len(c.fields) /\ Len(c.fields) \in Nat
      /\ \A i \in DOMAIN p : p[i] = Call("hset", n, c.fields[i], c.values[i])
  BY OfCommand DEF Hsets
<1>2. p \in Seq(Instruction)
  OBVIOUS
<1> HIDE DEF p
<1>3. \A i \in DOMAIN p : /\ p[i].do = "hset" /\ \A f : About(p[i], n, f) <=> c.fields[i] = f
                          /\ \A f : Leaves(p[i], f) = c.values[i]
  <2> SUFFICES ASSUME NEW i \in DOMAIN p
               PROVE  /\ p[i].do = "hset" /\ \A f : About(p[i], n, f) <=> c.fields[i] = f
                      /\ \A f : Leaves(p[i], f) = c.values[i]
    OBVIOUS
  <2>1. p[i] = Call("hset", n, c.fields[i], c.values[i])
    BY <1>1
  <2> QED
    BY <2>1, CallIs
<1>4. Steady(c, p)
  BY <1>3 DEF Steady, Writes
<1>5. ASSUME NEW f \in FieldsOf(c) PROVE Ends(p, s[n][f], n, f, h[f])
  <2>1. PICK k \in DOMAIN p : c.fields[k] = f
    BY <1>1, FieldsGiven
  <2>2. About(p[k], n, f)
    BY <1>3, <2>1
  <2>3. PICK i \in DOMAIN p : About(p[i], n, f) /\ \A j \in DOMAIN p : i < j => ~About(p[j], n, f)
    BY <1>2, <2>2, LastAbout
  <2>4. i \in DOMAIN c.fields /\ c.fields[i] = f /\ \A j \in DOMAIN c.fields : i < j => c.fields[j] # f
    BY <1>1, <1>3, <2>3
  <2> DEFINE m == CHOOSE x \in DOMAIN c.fields : c.fields[x] = f /\ \A j \in x + 1..Len(c.fields) : c.fields[j] # f
  <2>5. m \in DOMAIN c.fields /\ c.fields[m] = f /\ \A j \in m + 1..Len(c.fields) : c.fields[j] # f
    <3>1. \A j \in i + 1..Len(c.fields) : j \in DOMAIN c.fields /\ i < j
      BY <1>1, <2>4
    <3>2. \E x \in DOMAIN c.fields : c.fields[x] = f /\ \A j \in x + 1..Len(c.fields) : c.fields[j] # f
      BY <2>4, <3>1
    <3> QED
      BY <3>2, Zenon
  <2> HIDE DEF m
  <2>6. m = i
    <3>1. ~(i < m)
      BY <2>4, <2>5
    <3>2. ~(m < i)
      <4>1. m < i => i \in m + 1..Len(c.fields)
        BY <1>1, <2>4, <2>5
      <4> QED
        BY <2>4, <2>5, <4>1
    <3>3. m \in Int /\ i \in Int
      BY <1>1, <2>4, <2>5
    <3> QED
      BY <3>1, <3>2, <3>3
  <2>7. h[f] = c.values[i]
    <3>1. f \in Range(c.fields) /\ f \in Fields
      BY OfCommand, FieldsGiven
    <3>2. h[f] = c.values[m]
      BY <3>1, Zenon DEF Written, m
    <3> QED
      BY <2>6, <3>2
  <2>8. Leaves(p[i], f) = h[f]
    BY <1>3, <2>3, <2>7
  <2> QED
    BY <2>3, <2>8 DEF Ends
<1>6. Reaches(c, s, s, p)
  <2>1. h \in After(c, s)
    BY DEF After
  <2>2. OnNames(c) = {n}
    BY OneName
  <2> HIDE DEF h
  <2>3. \A m \in OnNames(c), f \in FieldsOf(c) : Ends(p, s[m][f], m, f, Target(c, s, h, m, f))
    BY <1>5, <2>2 DEF Target
  <2> QED
    BY <2>1, <2>3, Zenon DEF Reaches
<1> QED
  BY <1>4, <1>6 DEF Finishing, p

\* A program that deletes every record its command is about.
LEMMA DeletesFinish ==
  ASSUME NEW c \in Request, NEW s, NEW p \in Seq(Instruction),
         c.op \in {"hdel", "srem", "hclear", "flushdb"},
         c.op # "flushdb" => c.from = <<>>,
         c.op \in {"hclear", "flushdb"} <=> c.fields = <<>>,
         Steady(c, p), \A i \in DOMAIN p : p[i].do \notin {"hset", "hset_member"},
         \A n \in OnNames(c), f \in FieldsOf(c) : \E i \in DOMAIN p : About(p[i], n, f)
  PROVE  Finishing(c, s, s, p)
<1> DEFINE h == Without(s[c.name], FieldsOf(c))
<1>1. h \in After(c, s)
  <2>1. CASE c.op \in {"hdel", "srem"}
    <3>1. After(c, s) = {Without(s[c.name], Range(c.fields))}
      BY <2>1 DEF After
    <3>2. FieldsOf(c) = Range(c.fields)
      BY <2>1 DEF FieldsOf
    <3> QED
      BY <3>1, <3>2
  <2>2. CASE c.op \in {"hclear", "flushdb"}
    <3>1. After(c, s) = {Without(s[c.name], Fields)}
      BY <2>2 DEF After
    <3>2. FieldsOf(c) = Fields
      BY <2>2 DEF FieldsOf
    <3> QED
      BY <3>1, <3>2
  <2> QED
    BY <2>1, <2>2
<1>2. ASSUME NEW n \in OnNames(c), NEW f \in FieldsOf(c)
      PROVE  Target(c, s, h, n, f) = NoValue
  <2>1. f \in Fields
    BY OfCommand
  <2>2. h[f] = NoValue
    BY <2>1 DEF Without
  <2>3. n # c.name => c.op = "flushdb"
    BY OneName
  <2>4. c.op = "flushdb" => AfterOther(c, s, n)[f] = NoValue
    BY <2>1 DEF AfterOther, Without
  <2> HIDE DEF h
  <2> QED
    BY <2>2, <2>3, <2>4 DEF Target
<1> HIDE DEF h
<1>3. ASSUME NEW n \in OnNames(c), NEW f \in FieldsOf(c)
      PROVE  Ends(p, s[n][f], n, f, Target(c, s, h, n, f))
  <2>1. PICK i \in DOMAIN p : About(p[i], n, f)
    OBVIOUS
  <2>2. Ends(p, s[n][f], n, f, NoValue)
    BY <2>1, DeletesEnd
  <2> QED
    BY <1>2, <2>2
<1>4. Reaches(c, s, s, p)
  BY <1>1, <1>3, Zenon DEF Reaches
<1> QED
  BY <1>4 DEF Finishing

\* HDEL, ZREM.
LEMMA HdelsFinish ==
  ASSUME NEW c \in Request, NEW s, c.op = "hdel", c.from = <<>>, c.fields # <<>>,
         Hdels(c.name, c.fields) \in Seq(Instruction)
  PROVE  Finishing(c, s, s, Hdels(c.name, c.fields))
<1> DEFINE p == Hdels(c.name, c.fields)
           n == c.name
<1>1. /\ DOMAIN p = DOMAIN c.fields
      /\ \A i \in DOMAIN p : p[i] = Call("hdel", n, c.fields[i], NoValue)
  BY DEF Hdels
<1>2. p \in Seq(Instruction)
  OBVIOUS
<1> HIDE DEF p
<1>3. \A i \in DOMAIN p : p[i].do = "hdel" /\ \A f : About(p[i], n, f) <=> c.fields[i] = f
  <2> SUFFICES ASSUME NEW i \in DOMAIN p
               PROVE  p[i].do = "hdel" /\ \A f : About(p[i], n, f) <=> c.fields[i] = f
    OBVIOUS
  <2>1. p[i] = Call("hdel", n, c.fields[i], NoValue)
    BY <1>1
  <2> QED
    BY <2>1, CallIs
<1>4. Steady(c, p) /\ \A i \in DOMAIN p : p[i].do \notin {"hset", "hset_member"}
  BY <1>3 DEF Steady, Writes
<1>5. \A m \in OnNames(c), f \in FieldsOf(c) : \E i \in DOMAIN p : About(p[i], m, f)
  <2> SUFFICES ASSUME NEW m \in OnNames(c), NEW f \in FieldsOf(c) PROVE \E i \in DOMAIN p : About(p[i], m, f)
    OBVIOUS
  <2>1. m = n
    BY OneName
  <2>2. PICK i \in DOMAIN c.fields : c.fields[i] = f
    BY FieldsGiven
  <2> QED
    BY <1>1, <1>3, <2>1, <2>2
<1> QED
  BY <1>2, <1>4, <1>5, DeletesFinish DEF p

LEMMA HremsFinish ==
  ASSUME NEW c \in Request, NEW s, c.op = "srem", c.from = <<>>, c.fields # <<>>,
         Hrems(c.name, c.fields) \in Seq(Instruction)
  PROVE  Finishing(c, s, s, Hrems(c.name, c.fields))
<1> DEFINE p == Hrems(c.name, c.fields)
           n == c.name
           m == Len(c.fields)
<1>1. /\ DOMAIN p = 1..2 * m /\ m \in Nat /\ DOMAIN c.fields = 1..m
      /\ \A i \in DOMAIN p : p[i] = Call(IF i % 2 = 1 THEN "if_there" ELSE "hdel", n, c.fields[(i + 1) \div 2], NoValue)
  BY OfCommand DEF Hrems
<1>2. p \in Seq(Instruction)
  OBVIOUS
<1> HIDE DEF p
<1>3. \A i \in DOMAIN p : /\ p[i].do = IF i % 2 = 1 THEN "if_there" ELSE "hdel"
                          /\ p[i].name = n /\ p[i].fields = {c.fields[(i + 1) \div 2]}
  BY <1>1, CallIs
<1>4. \A k \in 1..m : 2 * k \in DOMAIN p /\ (2 * k) % 2 = 0 /\ (2 * k + 1) \div 2 = k
  BY <1>1
<1>5. \A i \in 1..2 * m : i % 2 = 1 => i + 1 \in 1..2 * m /\ (i + 1) % 2 = 0 /\ (i + 1) \div 2 = (i + 1 + 1) \div 2
                                       /\ (i + 1) \div 2 \in 1..m
  BY <1>1
<1>6. Steady(c, p)
  <2> SUFFICES ASSUME NEW i \in DOMAIN p
               PROVE  \/ p[i].do \in Writes
                      \/ /\ p[i].do = "if_there" /\ c.op = "srem" /\ i + 1 \in DOMAIN p
                         /\ p[i + 1].do = "hdel" /\ p[i + 1].name = p[i].name /\ p[i + 1].fields = p[i].fields
                         /\ \E f \in Fields \cap Range(c.fields) : p[i].fields = {f}
    BY DEF Steady
  <2>1. CASE i % 2 = 1
    <3>1. i + 1 \in DOMAIN p /\ (i + 1) % 2 # 1 /\ (i + 1) \div 2 = (i + 1 + 1) \div 2 /\ (i + 1) \div 2 \in 1..m
      BY <1>1, <1>5, <2>1
    <3>2. p[i].do = "if_there" /\ p[i].name = n /\ p[i].fields = {c.fields[(i + 1) \div 2]}
      BY <1>3, <2>1
    <3>3. p[i + 1].do = "hdel" /\ p[i + 1].name = n /\ p[i + 1].fields = {c.fields[(i + 1) \div 2]}
      BY <1>3, <3>1
    <3>4. c.fields[(i + 1) \div 2] \in Fields \cap Range(c.fields)
      BY <1>1, <3>1, OfCommand DEF Range
    <3> QED
      BY <3>1, <3>2, <3>3, <3>4
  <2>2. CASE i % 2 # 1
    BY <1>3, <2>2 DEF Writes
  <2> QED
    BY <2>1, <2>2
<1>7. \A i \in DOMAIN p : p[i].do \notin {"hset", "hset_member"}
  BY <1>3
<1>8. \A x \in OnNames(c), f \in FieldsOf(c) : \E i \in DOMAIN p : About(p[i], x, f)
  <2> SUFFICES ASSUME NEW x \in OnNames(c), NEW f \in FieldsOf(c) PROVE \E i \in DOMAIN p : About(p[i], x, f)
    OBVIOUS
  <2>1. PICK k \in 1..m : c.fields[k] = f
    BY <1>1, FieldsGiven
  <2>2. 2 * k \in DOMAIN p /\ p[2 * k].do = "hdel" /\ p[2 * k].name = n /\ p[2 * k].fields = {f}
    <3>1. 2 * k \in DOMAIN p /\ (2 * k) % 2 # 1 /\ (2 * k + 1) \div 2 = k
      BY <1>4, <2>1
    <3> DEFINE i == 2 * k
    <3>2. i \in DOMAIN p /\ i % 2 # 1 /\ (i + 1) \div 2 = k
      BY <3>1
    <3> HIDE DEF i
    <3>3. p[i].do = "hdel" /\ p[i].name = n /\ p[i].fields = {f}
      BY <1>3, <2>1, <3>2
    <3> QED
      BY <3>2, <3>3 DEF i
  <2>3. x = n
    BY OneName
  <2> QED
    BY <2>2, <2>3 DEF About
<1> QED
  BY <1>2, <1>6, <1>7, <1>8, DeletesFinish DEF p

\* The CLEARs but ZCLEAR, and FLUSHDB.
LEMMA ClearsFinish ==
  ASSUME NEW c \in Request, NEW s, c.op \in {"hclear", "flushdb"}, c.fields = <<>>,
         c.op # "flushdb" => c.from = <<>>, NEW p \in Seq(Instruction),
         \A i \in DOMAIN p : p[i].do = "hclear",
         \A n \in OnNames(c) : \E i \in DOMAIN p : p[i].name = n
  PROVE  Finishing(c, s, s, p)
<1>1. Steady(c, p)
  BY DEF Steady, Writes
<1>2. \A n \in OnNames(c), f \in FieldsOf(c) : \E i \in DOMAIN p : About(p[i], n, f)
  BY DEF About
<1> QED
  BY <1>1, <1>2, DeletesFinish

LEMMA StartTyping ==
  ASSUME SoloInv, CollectionInv', NEW t \in Threads, NEW c, NEW p, p # <<>>, Start(t, c, p)
  PROVE  /\ c \in Request /\ p \in Seq(Proper(kind)) /\ p \in Seq(Instruction)
         /\ store \in [Names -> [Fields -> OfKind(kind)]]
<1>1. /\ prog' = [prog EXCEPT ![t] = p] /\ cmd' = [cmd EXCEPT ![t] = c] /\ kind' = kind
  BY DEF Start
<1>2. TypeOK /\ TypeOK' /\ ProgOK'
  BY DEF SoloInv, CollectionInv
<1>3. prog'[t] = p /\ cmd'[t] = c
  BY <1>1, <1>2 DEF TypeOK
<1>4. c \in Request \cup {NoCmd} /\ c # NoCmd /\ p \in Seq(Instruction)
  BY <1>2, <1>3 DEF TypeOK
<1>5. p \in Seq(Proper(kind))
  BY <1>1, <1>2, <1>3 DEF ProgOK
<1>6. store \in [Names -> [Fields -> OfKind(kind)]]
  BY <1>2 DEF TypeOK
<1> QED
  BY <1>4, <1>5, <1>6

LEMMA SameCalls ==
  ASSUME NEW S, NEW p \in Seq(S), NEW m \in Nat, Len(p) = m, NEW g,
         g = [i \in 1..m |-> g[i]], \A i \in 1..m : p[i] = g[i]
  PROVE  p = g
<1>1. p = [i \in 1..m |-> p[i]]
  OBVIOUS
<1> QED
  BY <1>1

LEMMA TwoInARow ==
  ASSUME NEW S, NEW a \in S, NEW b \in S
  PROVE  <<a, b>> \in Seq(S) /\ Len(<<a, b>>) = 2 /\ <<a, b>>[1] = a /\ <<a, b>>[2] = b
OBVIOUS

LEMMA OneInARow ==
  ASSUME NEW S, NEW a \in S
  PROVE  <<a>> \in Seq(S) /\ Len(<<a>>) = 1 /\ <<a>>[1] = a
OBVIOUS

LEMMA GathersAre ==
  ASSUME NEW ns \in Seq(Names), NEW do \in {"hclear", "first", "union", "inter", "diff"}
  PROVE  /\ Gathers(do, ns) \in Seq(Proper("set")) /\ Len(Gathers(do, ns)) = Len(ns)
         /\ \A i \in 1..Len(ns) : Gathers(do, ns)[i] = Whole(do, ns[i])
<1>1. Gathers(do, ns) \in Seq(Proper("set"))
  BY GathersTyping
<1>2. Gathers(do, ns) = [i \in 1..Len(ns) |-> Whole(do, ns[i])] /\ Len(ns) \in Nat
  BY DEF Gathers
<1> QED
  BY <1>1, <1>2

LEMMA UnionCalls ==
  ASSUME NEW c \in Request, c.op = "union"
  PROVE  Gathers("union", c.from) \o <<Whole("hclear", c.name), Whole("fill", c.name)>> = StoreCalls(c, 0)
<1> DEFINE g == Gathers("union", c.from)
           a == Whole("hclear", c.name)
           b == Whole("fill", c.name)
           e == g \o <<a, b>>
           m == Len(c.from)
           P == Proper("set")
<1>1. c.from \in Seq(Names) /\ c.name \in Names /\ m \in Nat
  BY DEF Request
<1>2. a \in P /\ b \in P
  BY <1>1, WholeTyping
<1>3. g \in Seq(P) /\ Len(g) = m /\ \A i \in 1..m : g[i] = Whole("union", c.from[i])
  BY <1>1, GathersAre
<1> HIDE DEF g, a, b, P
<1>4. <<a, b>> \in Seq(P) /\ Len(<<a, b>>) = 2 /\ <<a, b>>[1] = a /\ <<a, b>>[2] = b
  BY <1>2, TwoInARow
<1>5. /\ e \in Seq(P) /\ Len(e) = m + 2
      /\ \A i \in 1..m + 2 : e[i] = IF i <= m THEN g[i] ELSE <<a, b>>[i - m]
  BY <1>1, <1>3, <1>4, ConcatProperties
<1> HIDE DEF e
<1>6. ClearAt(c) = m + 1
  BY DEF ClearAt
<1>7. ASSUME NEW i \in 1..m + 2 PROVE e[i] = StoreCall(c, i)
  <2>1. CASE i <= m
    <3>1. i # m + 1 /\ i # m + 2 /\ i < m + 1 /\ i \in 1..m
      BY <1>1, <2>1
    <3>2. Reads(c, i) = i
      BY <1>6, <3>1 DEF Reads
    <3>3. StoreCall(c, i) = Whole("union", c.from[i])
      BY <1>6, <3>1, <3>2 DEF StoreCall
    <3> QED
      BY <1>3, <1>5, <2>1, <3>1, <3>3
  <2>2. CASE i = m + 1
    <3>1. StoreCall(c, i) = a
      BY <1>6, <2>2 DEF StoreCall, a
    <3>2. ~(i <= m) /\ i - m = 1
      BY <1>1, <2>2
    <3> QED
      BY <1>4, <1>5, <3>1, <3>2
  <2>3. CASE i = m + 2
    <3>1. StoreCall(c, i) = b
      BY <1>1, <1>6, <2>3 DEF StoreCall, b
    <3>2. ~(i <= m) /\ i - m = 2
      BY <1>1, <2>3
    <3> QED
      BY <1>4, <1>5, <3>1, <3>2
  <2> QED
    BY <1>1, <2>1, <2>2, <2>3
<1>8. StoreCalls(c, 0) = [i \in 1..m + 2 |-> StoreCall(c, i)]
  BY <1>1 DEF StoreCalls
<1>9. StoreCalls(c, 0) = [i \in 1..m + 2 |-> StoreCalls(c, 0)[i]] /\ \A i \in 1..m + 2 : e[i] = StoreCalls(c, 0)[i]
  BY <1>7, <1>8
<1>10. m + 2 \in Nat
  BY <1>1
<1>11. e = StoreCalls(c, 0)
  <2> HIDE DEF m
  <2> QED
    BY <1>5, <1>9, <1>10, SameCalls
<1> QED
  BY <1>11 DEF e, g, a, b

\* SINTERSTORE and SDIFFSTORE begin with two calls a and b.
LEMMA CleanCalls ==
  ASSUME NEW c \in Request, c.op \in {"inter", "diff"}, c.from # <<>>, NEW a, NEW b,
         LET first == Whole("first", c.from[1])
             clear == Whole("hclear", c.name)
         IN IF c.op = "inter" THEN a = first /\ b = clear ELSE a = clear /\ b = first
  PROVE  <<a, b>> \o Gathers(c.op, Tail(c.from)) \o <<Whole("fill", c.name)>> = StoreCalls(c, 0)
<1> DEFINE g == Gathers(c.op, Tail(c.from))
           d == Whole("fill", c.name)
           e1 == <<a, b>> \o g
           e == e1 \o <<d>>
           m == Len(c.from)
           P == Proper("set")
<1>1. /\ c.from \in Seq(Names) /\ c.name \in Names /\ m \in Nat /\ m # 0 /\ c.from[1] \in Names
      /\ Tail(c.from) \in Seq(Names) /\ Len(Tail(c.from)) = m - 1
      /\ \A i \in 1..m - 1 : Tail(c.from)[i] = c.from[i + 1]
  <2>1. c.from \in Seq(Names) /\ c.name \in Names
    BY DEF Request
  <2>2. m \in Nat /\ m # 0 /\ c.from[1] \in Names
    BY <2>1, EmptySeq, ElementOfSeq
  <2> QED
    BY <2>1, <2>2, HeadTailProperties
<1>2. a \in P /\ b \in P /\ d \in P
  <2>1. /\ Whole("first", c.from[1]) \in P /\ Whole("hclear", c.name) \in P
        /\ Whole("fill", c.name) \in P
    BY <1>1, WholeTyping
  <2> HIDE DEF P
  <2> QED
    BY <2>1
<1>3. g \in Seq(P) /\ Len(g) = m - 1 /\ \A i \in 1..m - 1 : g[i] = Whole(c.op, c.from[i + 1])
  <2>1. PICK ns : ns = Tail(c.from)
    OBVIOUS
  <2>2. ns \in Seq(Names) /\ Len(ns) = m - 1 /\ \A i \in 1..m - 1 : ns[i] = c.from[i + 1]
    BY <1>1, <2>1
  <2>3. c.op \in {"hclear", "first", "union", "inter", "diff"}
    OBVIOUS
  <2>4. g = Gathers(c.op, ns)
    BY <2>1
  <2>5. /\ Gathers(c.op, ns) \in Seq(P) /\ Len(Gathers(c.op, ns)) = Len(ns)
        /\ \A i \in 1..Len(ns) : Gathers(c.op, ns)[i] = Whole(c.op, ns[i])
    BY <2>2, <2>3, GathersAre
  <2> HIDE DEF g, P, m
  <2> QED
    BY <2>2, <2>4, <2>5
<1>4. ClearAt(c) = IF c.op = "inter" THEN 2 ELSE 1
  BY DEF ClearAt
<1>5. a = StoreCall(c, 1) /\ b = StoreCall(c, 2)
  <2>1. 1 # m + 2 /\ 2 # m + 2
    BY <1>1
  <2>2. CASE c.op = "inter"
    <3>1. Reads(c, 1) = 1
      BY <1>4, <2>2 DEF Reads
    <3> QED
      BY <1>4, <2>1, <2>2, <3>1 DEF StoreCall
  <2>3. CASE c.op = "diff"
    <3>1. Reads(c, 2) = 1
      BY <1>4, <2>3 DEF Reads
    <3> QED
      BY <1>4, <2>1, <2>3, <3>1 DEF StoreCall
  <2> QED
    BY <2>2, <2>3
<1>6. d = StoreCall(c, m + 2)
  BY <1>1, <1>4 DEF StoreCall
<1> HIDE DEF g, d, P
<1>7. <<a, b>> \in Seq(P) /\ Len(<<a, b>>) = 2 /\ <<a, b>>[1] = a /\ <<a, b>>[2] = b
  BY <1>2, TwoInARow
<1>8. <<d>> \in Seq(P) /\ Len(<<d>>) = 1 /\ <<d>>[1] = d
  BY <1>2, OneInARow
<1>9. /\ e1 \in Seq(P) /\ Len(e1) = m + 1
      /\ \A i \in 1..m + 1 : e1[i] = IF i <= 2 THEN <<a, b>>[i] ELSE g[i - 2]
  <2>1. /\ e1 \in Seq(P) /\ Len(e1) = 2 + (m - 1)
        /\ \A i \in 1..2 + (m - 1) : e1[i] = IF i <= 2 THEN <<a, b>>[i] ELSE g[i - 2]
    BY <1>3, <1>7, ConcatProperties
  <2>2. 2 + (m - 1) = m + 1
    BY <1>1
  <2> QED
    BY <2>1, <2>2
<1> HIDE DEF e1
<1>10. /\ e \in Seq(P) /\ Len(e) = m + 2
       /\ \A i \in 1..m + 2 : e[i] = IF i <= m + 1 THEN e1[i] ELSE <<d>>[i - (m + 1)]
  <2>1. /\ e \in Seq(P) /\ Len(e) = m + 1 + 1
        /\ \A i \in 1..m + 1 + 1 : e[i] = IF i <= m + 1 THEN e1[i] ELSE <<d>>[i - (m + 1)]
    BY <1>8, <1>9, ConcatProperties
  <2>2. m + 1 + 1 = m + 2
    BY <1>1
  <2> QED
    BY <2>1, <2>2
<1> HIDE DEF e
<1>11. ASSUME NEW i \in 1..m + 2 PROVE e[i] = StoreCall(c, i)
  <2>1. CASE i = 1 \/ i = 2
    BY <1>1, <1>5, <1>7, <1>9, <1>10, <2>1
  <2>2. CASE 2 < i /\ i <= m + 1
    <3>1. /\ i - 2 \in 1..m - 1 /\ i \in 1..m + 1 /\ i - 2 + 1 = i - 1
          /\ i # m + 2 /\ i - 1 # 1 /\ ~(i <= 2) /\ i # 1 /\ i # 2
      BY <1>1, <2>2
    <3>2. e[i] = Whole(c.op, c.from[i - 1])
      BY <1>3, <1>9, <1>10, <2>2, <3>1
    <3>3. Reads(c, i) = i - 1
      BY <1>4, <3>1, <2>2 DEF Reads
    <3> QED
      BY <1>4, <3>1, <3>2, <3>3 DEF StoreCall
  <2>3. CASE i = m + 2
    <3>1. ~(i <= m + 1) /\ i - (m + 1) = 1
      BY <1>1, <2>3
    <3> QED
      BY <1>6, <1>8, <1>10, <2>3, <3>1
  <2> QED
    BY <1>1, <2>1, <2>2, <2>3
<1>12. StoreCalls(c, 0) = [i \in 1..m + 2 |-> StoreCall(c, i)]
  BY <1>1 DEF StoreCalls
<1>13. StoreCalls(c, 0) = [i \in 1..m + 2 |-> StoreCalls(c, 0)[i]] /\ \A i \in 1..m + 2 : e[i] = StoreCalls(c, 0)[i]
  BY <1>11, <1>12
<1>14. m + 2 \in Nat
  BY <1>1
<1>15. e = StoreCalls(c, 0)
  <2> HIDE DEF m
  <2> QED
    BY <1>10, <1>13, <1>14, SameCalls
<1> QED
  BY <1>15 DEF e, e1, g, d

LEMMA WholeIs ==
  ASSUME NEW do, NEW n
  PROVE  LET x == Whole(do, n) IN x.do = do /\ x.name = n /\ x.fields = {} /\ x.value = NoValue
BY DEF Whole

LEMMA StoreCallAllowed ==
  ASSUME NEW c \in Request, c.op \in SetOp, c.fields = <<>>, c.from # <<>>, NEW i \in 1..Len(c.from) + 2
  PROVE  Allowed(StoreCall(c, i), c)
<1>1. /\ DOMAIN c.from = 1..Len(c.from) /\ Len(c.from) \in Nat /\ c.name \in OnNames(c)
      /\ \A k \in DOMAIN c.from : c.from[k] \in OnNames(c)
  BY OfCommand DEF SetOp
<1>2. Len(c.from) # 0
  BY EmptySeq DEF Request
<1>3. ClearAt(c) \in 1..Len(c.from) + 1
  BY <1>1, <1>2 DEF ClearAt, SetOp
<1>4. i # ClearAt(c) /\ i # Len(c.from) + 2 => Reads(c, i) \in 1..Len(c.from)
  BY <1>1, <1>3 DEF Reads
<1>5. \A do, n : n \in OnNames(c) => Allowed(Whole(do, n), c)
  BY WholeIs DEF Allowed
<1> QED
  BY <1>1, <1>4, <1>5 DEF StoreCall

LEMMA StoreOnTheWay ==
  ASSUME NEW c \in Request, c.op \in SetOp, c.fields = <<>>, c.from # <<>>, NEW s
  PROVE  Storing(c, s, s, StoreCalls(c, 0), <<>>)
<1>1. Len(c.from) \in Nat
  BY OfCommand
<1>2. 0 < ClearAt(c)
  BY <1>1 DEF ClearAt, SetOp
<1>3. ReadSoFar(c, s, <<>>, 0)
  BY <1>2 DEF ReadSoFar, Reads
<1>4. StoreAt(c, s, s[c.name], StoreCalls(c, 0), 0)
  BY <1>2 DEF StoreAt
<1>5. 0 \in 0..Len(c.from) + 1
  BY <1>1
<1> QED
  BY <1>3, <1>4, <1>5 DEF Storing

LEMMA CallAllowed ==
  ASSUME NEW c, NEW n \in OnNames(c), NEW f \in FieldsOf(c), NEW v,
         NEW do, do \notin {"hclear", "spop", "by_rank", "by_score", "fill"}
  PROVE  Allowed(Call(do, n, f, v), c)
BY CallIs DEF Allowed

LEMMA WholeAllowed ==
  ASSUME NEW c, NEW n \in OnNames(c), c.fields = <<>>, NEW do
  PROVE  Allowed(Whole(do, n), c)
BY WholeIs DEF Allowed

LEMMA AllAllowed ==
  ASSUME NEW c, NEW x, NEW y, NEW z
  PROVE  /\ Allowed(x, c) => \A i \in DOMAIN <<x>> : Allowed(<<x>>[i], c)
         /\ Allowed(x, c) /\ Allowed(y, c) => \A i \in DOMAIN <<x, y>> : Allowed(<<x, y>>[i], c)
         /\ Allowed(x, c) /\ Allowed(y, c) /\ Allowed(z, c)
              => \A i \in DOMAIN <<x, y, z>> : Allowed(<<x, y, z>>[i], c)
<1>1. DOMAIN <<x>> = 1..1 /\ DOMAIN <<x, y>> = 1..2 /\ DOMAIN <<x, y, z>> = 1..3
  OBVIOUS
<1>2. \A i \in 1..1 : <<x>>[i] = x
  OBVIOUS
<1>3. \A i \in 1..2 : <<x, y>>[i] \in {x, y}
  OBVIOUS
<1>4. \A i \in 1..3 : <<x, y, z>>[i] \in {x, y, z}
  OBVIOUS
<1> QED
  BY <1>1, <1>2, <1>3, <1>4

\* The first field of a request about one.
LEMMA OneField ==
  ASSUME NEW c \in Request, NEW f, c.fields = <<f>>
  PROVE  /\ c.fields[1] = f /\ c.fields = <<c.fields[1]>> /\ FieldsOf(c) = {f} /\ f \in Fields
         /\ c.fields # <<>> /\ Range(c.fields) = {f}
<1>1. c.fields[1] = f /\ c.fields # <<>> /\ DOMAIN c.fields = 1..1
  OBVIOUS
<1>2. 1..1 = {1}
  OBVIOUS
<1>3. Range(c.fields) = {f}
  BY <1>1, <1>2 DEF Range
<1>4. FieldsOf(c) = {f}
  BY <1>1, <1>3 DEF FieldsOf
<1>5. f \in Fields
  BY <1>4, OfCommand
<1> QED
  BY <1>1, <1>3, <1>4, <1>5

LEMMA HmsetAlone ==
  ASSUME SoloInv, CollectionInv', NEW t \in Threads, NEW n, NEW fs \in Seq(Fields), fs # <<>>, NEW vs,
         Start(t, [Plain("hmset", n) EXCEPT !.fields = fs, !.values = vs], Hsets(n, fs, vs))
  PROVE  SoloInv' /\ RepliesLikeRedis
<1>1. PICK c : c = [Plain("hmset", n) EXCEPT !.fields = fs, !.values = vs]
  OBVIOUS
<1>2. c.op = "hmset" /\ c.name = n /\ c.fields = fs /\ c.values = vs /\ c.from = <<>>
  BY <1>1 DEF Plain
<1>3. PICK p : p = Hsets(n, fs, vs)
  OBVIOUS
<1>4. /\ Len(fs) \in Nat /\ Len(fs) # 0 /\ DOMAIN p = 1..Len(fs)
      /\ \A i \in DOMAIN p : p[i] = Call("hset", n, fs[i], vs[i])
  BY <1>3, EmptySeq DEF Hsets
<1>5. p # <<>>
  BY <1>4, LenOfFun
<1>6. Start(t, c, p)
  BY <1>1, <1>3
<1>7. c \in Request /\ p \in Seq(Instruction)
  BY <1>5, <1>6, StartTyping
<1>8. \A i \in DOMAIN p : Allowed(p[i], c)
  <2>1. \A i \in DOMAIN p : fs[i] \in FieldsOf(c) /\ n \in OnNames(c)
    BY <1>2, <1>4, <1>7, OfCommand
  <2> QED
    BY <1>4, <2>1, CallAllowed
<1>9. Finishing(c, store, store, p)
  BY <1>2, <1>3, <1>7, WritesFinish
<1>10. OnTheWay(c, store, store, p, NoValue, <<>>)
  BY <1>9 DEF OnTheWay
<1> QED
  BY <1>2, <1>5, <1>6, <1>7, <1>8, <1>10, StartAlone

LEMMA HDelAlone ==
  ASSUME SoloInv, CollectionInv', NEW t \in Threads, HDel(t)
  PROVE  SoloInv' /\ RepliesLikeRedis
<1>0. PICK n \in Targets[kind], fs \in FieldLists :
        Start(t, [Plain("hdel", n) EXCEPT !.fields = fs], Hdels(n, fs))
  BY DEF HDel
<1>1. PICK c : c = [Plain("hdel", n) EXCEPT !.fields = fs]
  OBVIOUS
<1>2. c.op = "hdel" /\ c.name = n /\ c.fields = fs /\ c.from = <<>>
  BY <1>1 DEF Plain
<1>3. PICK p : p = Hdels(n, fs)
  OBVIOUS
<1>4. /\ fs \in Seq(Fields) /\ fs # <<>> /\ Len(fs) \in Nat /\ Len(fs) # 0 /\ DOMAIN p = 1..Len(fs)
      /\ \A i \in DOMAIN p : p[i] = Call("hdel", n, fs[i], NoValue)
  <2>1. fs \in Seq(Fields) /\ fs # <<>>
    BY Given
  <2> QED
    BY <1>3, <2>1, EmptySeq DEF Hdels
<1>5. p # <<>>
  BY <1>4, LenOfFun
<1>6. Start(t, c, p)
  BY <1>0, <1>1, <1>3
<1>7. c \in Request /\ p \in Seq(Instruction)
  BY <1>5, <1>6, StartTyping
<1>8. \A i \in DOMAIN p : Allowed(p[i], c)
  <2>1. \A i \in DOMAIN p : fs[i] \in FieldsOf(c) /\ n \in OnNames(c)
    BY <1>2, <1>4, <1>7, OfCommand
  <2> QED
    BY <1>4, <2>1, CallAllowed
<1>9. Finishing(c, store, store, p)
  BY <1>2, <1>3, <1>4, <1>7, HdelsFinish
<1>10. OnTheWay(c, store, store, p, NoValue, <<>>)
  BY <1>9 DEF OnTheWay
<1> QED
  BY <1>2, <1>5, <1>6, <1>7, <1>8, <1>10, StartAlone

LEMMA SRemAlone ==
  ASSUME SoloInv, CollectionInv', NEW t \in Threads, SRem(t), kind = "set"
  PROVE  SoloInv' /\ RepliesLikeRedis
<1>0. PICK n \in Targets[kind], fs \in FieldLists :
        Start(t, [Plain("srem", n) EXCEPT !.fields = fs], Hrems(n, fs))
  BY DEF SRem
<1>1. PICK c : c = [Plain("srem", n) EXCEPT !.fields = fs]
  OBVIOUS
<1>2. c.op = "srem" /\ c.name = n /\ c.fields = fs /\ c.from = <<>>
  BY <1>1 DEF Plain
<1>3. PICK p : p = Hrems(n, fs)
  OBVIOUS
<1>4. /\ fs \in Seq(Fields) /\ fs # <<>> /\ Len(fs) \in Nat
      /\ 2 * Len(fs) \in Nat /\ 2 * Len(fs) # 0 /\ DOMAIN p = 1..2 * Len(fs)
      /\ \A i \in DOMAIN p : p[i] = Call(IF i % 2 = 1 THEN "if_there" ELSE "hdel", n, fs[(i + 1) \div 2], NoValue)
  <2>1. fs \in Seq(Fields) /\ fs # <<>>
    BY Given
  <2>2. Len(fs) \in Nat /\ Len(fs) # 0
    BY <2>1, EmptySeq
  <2>3. DOMAIN p = 1..2 * Len(fs)
    BY <1>3 DEF Hrems
  <2>4. \A i \in 1..2 * Len(fs) : p[i] = Call(IF i % 2 = 1 THEN "if_there" ELSE "hdel", n, fs[(i + 1) \div 2], NoValue)
    BY <1>3 DEF Hrems
  <2> QED
    BY <2>1, <2>2, <2>3, <2>4
<1>5. p # <<>>
  BY <1>4, LenOfFun
<1>6. Start(t, c, p)
  BY <1>0, <1>1, <1>3
<1>7. c \in Request /\ p \in Seq(Instruction)
  BY <1>5, <1>6, StartTyping
<1>8. \A i \in DOMAIN p : Allowed(p[i], c)
  <2> SUFFICES ASSUME NEW i \in DOMAIN p PROVE Allowed(p[i], c)
    OBVIOUS
  <2>1. (i + 1) \div 2 \in 1..Len(fs)
    BY <1>4
  <2>2. fs[(i + 1) \div 2] \in FieldsOf(c) /\ n \in OnNames(c)
    BY <1>2, <1>4, <1>7, <2>1, OfCommand
  <2>3. (IF i % 2 = 1 THEN "if_there" ELSE "hdel") \notin {"hclear", "spop", "by_rank", "by_score", "fill"}
    OBVIOUS
  <2>4. p[i] = Call(IF i % 2 = 1 THEN "if_there" ELSE "hdel", n, fs[(i + 1) \div 2], NoValue)
    BY <1>4
  <2> QED
    BY <2>2, <2>3, <2>4, CallAllowed
<1>9. Finishing(c, store, store, p)
  BY <1>2, <1>3, <1>4, <1>7, HremsFinish
<1>10. OnTheWay(c, store, store, p, NoValue, <<>>)
  BY <1>9 DEF OnTheWay
<1> QED
  BY <1>2, <1>5, <1>6, <1>7, <1>8, <1>10, StartAlone

LEMMA HClearAlone ==
  ASSUME SoloInv, CollectionInv', NEW t \in Threads, HClear(t)
  PROVE  SoloInv' /\ RepliesLikeRedis
<1>0. PICK n \in Targets[kind] : Start(t, Plain("hclear", n), <<Whole("hclear", n)>>)
  BY DEF HClear
<1>1. PICK c : c = Plain("hclear", n)
  OBVIOUS
<1>2. c.op = "hclear" /\ c.name = n /\ c.fields = <<>> /\ c.from = <<>>
  BY <1>1 DEF Plain
<1>3. PICK p : p = <<Whole("hclear", n)>>
  OBVIOUS
<1>4. p # <<>> /\ DOMAIN p = {1} /\ p[1] = Whole("hclear", n) /\ p[1].do = "hclear" /\ p[1].name = n
  BY <1>3, WholeIs
<1>6. Start(t, c, p)
  BY <1>0, <1>1, <1>3
<1>7. c \in Request /\ p \in Seq(Instruction)
  BY <1>4, <1>6, StartTyping
<1>8. \A i \in DOMAIN p : Allowed(p[i], c)
  BY <1>2, <1>4, <1>7, WholeAllowed, OfCommand
<1>9. Finishing(c, store, store, p)
  <2>1. \A m \in OnNames(c) : m = n
    BY <1>2, OneName
  <2> QED
    BY <1>2, <1>4, <1>7, <2>1, ClearsFinish
<1>10. OnTheWay(c, store, store, p, NoValue, <<>>)
  BY <1>9 DEF OnTheWay
<1> QED
  BY <1>2, <1>4, <1>6, <1>7, <1>8, <1>10, StartAlone

LEMMA FlushAlone ==
  ASSUME SoloInv, CollectionInv', NEW t \in Threads, FlushDb(t)
  PROVE  SoloInv' /\ RepliesLikeRedis
<1>0. PICK ns \in SetToSeqs(Names) : Start(t, Plain("flushdb", ns[1]), Gathers("hclear", ns))
  BY DEF FlushDb
<1>1. PICK c : c = Plain("flushdb", ns[1])
  OBVIOUS
<1>2. c.op = "flushdb" /\ c.fields = <<>>
  BY <1>1 DEF Plain
<1>3. PICK p : p = Gathers("hclear", ns)
  OBVIOUS
<1>a. PICK m \in Nat : ns \in [1..m -> Names] /\ m # 0 /\ \A n \in Names : \E i \in 1..m : ns[i] = n
  <2> DEFINE k == Cardinality(Names)
             I == 1..k
  <2>1. IsFiniteSet(Names) /\ Names # {}
    BY CollectionAssumption DEF SetAssumption
  <2>2. k \in Nat /\ k # 0
    BY <2>1, FS_CardinalityType, FS_EmptySet
  <2>3. ns \in [I -> Names] /\ \A i, j \in I : ns[i] = ns[j] => i = j
    BY DEF SetToSeqs
  <2>4. Cardinality(I) = k
    <3> HIDE DEF k
    <3> QED
      BY <2>2, FS_Interval
  <2> HIDE DEF I
  <2>5. ns \in Injection(I, Names)
    BY <2>3 DEF Injection, IsInjective
  <2>6. ns \in Surjection(I, Names)
    BY <2>1, <2>4, <2>5, FS_Injection
  <2>7. \A n \in Names : \E i \in I : ns[i] = n
    BY <2>6 DEF Surjection
  <2> QED
    BY <2>2, <2>3, <2>7 DEF I
<1>4. DOMAIN p = 1..m /\ \A i \in 1..m : p[i] = Whole("hclear", ns[i]) /\ p[i].do = "hclear" /\ p[i].name = ns[i]
  <2>1. DOMAIN p = 1..m /\ \A i \in 1..m : p[i] = Whole("hclear", ns[i])
    BY <1>3, <1>a DEF Gathers
  <2> QED
    BY <2>1, WholeIs
<1>5. p # <<>>
  BY <1>4, <1>a, LenOfFun
<1>6. Start(t, c, p)
  BY <1>0, <1>1, <1>3
<1>7. c \in Request /\ p \in Seq(Instruction)
  BY <1>5, <1>6, StartTyping
<1>b. OnNames(c) = Names
  BY <1>2 DEF OnNames
<1>8. \A i \in DOMAIN p : Allowed(p[i], c)
  BY <1>2, <1>4, <1>a, <1>b, WholeAllowed
<1>9. Finishing(c, store, store, p)
  BY <1>2, <1>4, <1>7, <1>a, <1>b, ClearsFinish
<1>10. OnTheWay(c, store, store, p, NoValue, <<>>)
  BY <1>9 DEF OnTheWay
<1> QED
  BY <1>2, <1>5, <1>6, <1>7, <1>8, <1>10, StartAlone

LEMMA WalkAlone ==
  ASSUME SoloInv, CollectionInv', NEW t \in Threads, NEW c, c.op \in {"spop", "by_rank", "by_score"},
         c.fields = <<>>, c.from = <<>>, Start(t, c, <<Whole(c.op, c.name)>>),
         kind = IF c.op = "spop" THEN "set" ELSE "zset"
  PROVE  SoloInv' /\ RepliesLikeRedis
<1>1. PICK p : p = <<Whole(c.op, c.name)>>
  OBVIOUS
<1>2. p # <<>> /\ Start(t, c, p)
  BY <1>1
<1>3. c \in Request
  BY <1>2, StartTyping
<1>4. \A i \in DOMAIN p : Allowed(p[i], c)
  <2>1. Allowed(Whole(c.op, c.name), c)
    BY <1>3, OfCommand, WholeAllowed
  <2> QED
    BY <1>1, <2>1, AllAllowed
<1>5. Reading(c, store, store, p, NoValue)
  BY <1>1 DEF Reading, Unread
<1>6. OnTheWay(c, store, store, p, NoValue, <<>>)
  BY <1>5 DEF OnTheWay
<1> QED
  BY <1>2, <1>3, <1>4, <1>6, StartAlone

LEMMA HSetNXAlone ==
  ASSUME SoloInv, CollectionInv', NEW t \in Threads, HSetNX(t), kind = "hash"
  PROVE  SoloInv' /\ RepliesLikeRedis
<1>0. PICK n \in Targets[kind], f \in Fields, v \in Values :
        Start(t, [Plain("hsetnx", n) EXCEPT !.fields = <<f>>, !.values = <<v>>],
              <<Call("if_missing", n, f, NoValue), Call("hset", n, f, v)>>)
  BY DEF HSetNX
<1>1. PICK c : c = [Plain("hsetnx", n) EXCEPT !.fields = <<f>>, !.values = <<v>>]
  OBVIOUS
<1>2. c.op = "hsetnx" /\ c.name = n /\ c.fields = <<f>> /\ c.values[1] = v /\ c.from = <<>>
  BY <1>1 DEF Plain
<1>3. PICK p : p = <<Call("if_missing", n, f, NoValue), Call("hset", n, f, v)>>
  OBVIOUS
<1>4. p # <<>> /\ Start(t, c, p)
  BY <1>0, <1>1, <1>3
<1>5. c \in Request
  BY <1>4, StartTyping
<1>6. n \in OnNames(c) /\ f \in FieldsOf(c) /\ c.fields[1] = f /\ c.fields = <<c.fields[1]>>
  BY <1>2, <1>5, OfCommand, OneField
<1>7. \A i \in DOMAIN p : Allowed(p[i], c)
  <2>1. Allowed(Call("if_missing", n, f, NoValue), c) /\ Allowed(Call("hset", n, f, v), c)
    BY <1>6, CallAllowed
  <2> QED
    BY <1>3, <2>1, AllAllowed
<1>8. Reading(c, store, store, p, NoValue)
  BY <1>2, <1>3, <1>6 DEF Reading, Unread
<1>9. OnTheWay(c, store, store, p, NoValue, <<>>)
  BY <1>8 DEF OnTheWay
<1> QED
  BY <1>2, <1>4, <1>5, <1>7, <1>9, StartAlone

LEMMA HIncrByAlone ==
  ASSUME SoloInv, CollectionInv', NEW t \in Threads, HIncrBy(t), kind = "hash"
  PROVE  SoloInv' /\ RepliesLikeRedis
<1>0. PICK n \in Targets[kind], f \in Fields, by \in Numbers :
        Start(t, [Plain("hincrby", n) EXCEPT !.fields = <<f>>, !.values = <<by>>],
              <<Call("if_there", n, f, NoValue), Call("hget_number", n, f, NoValue),
                Call("add", n, f, by)>>)
  BY DEF HIncrBy
<1>1. PICK c : c = [Plain("hincrby", n) EXCEPT !.fields = <<f>>, !.values = <<by>>]
  OBVIOUS
<1>2. c.op = "hincrby" /\ c.name = n /\ c.fields = <<f>> /\ c.values[1] = by /\ c.from = <<>>
  BY <1>1 DEF Plain
<1>3. PICK p : p = <<Call("if_there", n, f, NoValue), Call("hget_number", n, f, NoValue),
                     Call("add", n, f, by)>>
  OBVIOUS
<1>4. p # <<>> /\ Start(t, c, p)
  BY <1>0, <1>1, <1>3
<1>5. c \in Request
  BY <1>4, StartTyping
<1>6. n \in OnNames(c) /\ f \in FieldsOf(c) /\ c.fields[1] = f /\ c.fields = <<c.fields[1]>>
  BY <1>2, <1>5, OfCommand, OneField
<1>7. \A i \in DOMAIN p : Allowed(p[i], c)
  <2>1. /\ Allowed(Call("if_there", n, f, NoValue), c)
        /\ Allowed(Call("hget_number", n, f, NoValue), c)
        /\ Allowed(Call("add", n, f, by), c)
    BY <1>6, CallAllowed
  <2> QED
    BY <1>3, <2>1, AllAllowed
<1>8. Reading(c, store, store, p, NoValue)
  BY <1>2, <1>3, <1>6 DEF Reading, Unread
<1>9. OnTheWay(c, store, store, p, NoValue, <<>>)
  BY <1>8 DEF OnTheWay
<1> QED
  BY <1>2, <1>4, <1>5, <1>7, <1>9, StartAlone

LEMMA ZIncrByAlone ==
  ASSUME SoloInv, CollectionInv', NEW t \in Threads, ZIncrBy(t), kind = "zset"
  PROVE  SoloInv' /\ RepliesLikeRedis
<1>0. PICK n \in Targets[kind], f \in Fields, by \in Numbers :
        Start(t, [Plain("zincrby", n) EXCEPT !.fields = <<f>>, !.values = <<by>>],
              <<Call("hget_score", n, f, by), Call("add", n, f, by)>>)
  BY DEF ZIncrBy
<1>1. PICK c : c = [Plain("zincrby", n) EXCEPT !.fields = <<f>>, !.values = <<by>>]
  OBVIOUS
<1>2. c.op = "zincrby" /\ c.name = n /\ c.fields = <<f>> /\ c.values[1] = by /\ c.from = <<>>
  BY <1>1 DEF Plain
<1>3. PICK p : p = <<Call("hget_score", n, f, by), Call("add", n, f, by)>>
  OBVIOUS
<1>4. p # <<>> /\ Start(t, c, p)
  BY <1>0, <1>1, <1>3
<1>5. c \in Request
  BY <1>4, StartTyping
<1>6. n \in OnNames(c) /\ f \in FieldsOf(c) /\ c.fields[1] = f /\ c.fields = <<c.fields[1]>>
  BY <1>2, <1>5, OfCommand, OneField
<1>7. \A i \in DOMAIN p : Allowed(p[i], c)
  <2>1. Allowed(Call("hget_score", n, f, by), c) /\ Allowed(Call("add", n, f, by), c)
    BY <1>6, CallAllowed
  <2> QED
    BY <1>3, <2>1, AllAllowed
<1>8. Reading(c, store, store, p, NoValue)
  BY <1>2, <1>3, <1>6 DEF Reading, Unread
<1>9. OnTheWay(c, store, store, p, NoValue, <<>>)
  BY <1>8 DEF OnTheWay
<1> QED
  BY <1>2, <1>4, <1>5, <1>7, <1>9, StartAlone

LEMMA SMoveAlone ==
  ASSUME SoloInv, CollectionInv', NEW t \in Threads, SMove(t), kind = "set"
  PROVE  SoloInv' /\ RepliesLikeRedis
<1>0. PICK n \in Targets[kind], d \in Targets[kind], f \in Fields :
        Start(t, [Plain("smove", n) EXCEPT !.fields = <<f>>, !.from = <<d>>],
              <<Call("hget_member", n, f, NoValue), Call("hdel", n, f, NoValue),
                Call("hset_member", d, f, NoValue)>>)
  BY DEF SMove
<1>1. PICK c : c = [Plain("smove", n) EXCEPT !.fields = <<f>>, !.from = <<d>>]
  OBVIOUS
<1>2. c.op = "smove" /\ c.name = n /\ c.fields = <<f>> /\ c.from = <<d>> /\ c.from[1] = d /\ c.from = <<c.from[1]>>
  BY <1>1 DEF Plain
<1>3. PICK p : p = <<Call("hget_member", n, f, NoValue), Call("hdel", n, f, NoValue),
                     Call("hset_member", d, f, NoValue)>>
  OBVIOUS
<1>4. p # <<>> /\ Start(t, c, p)
  BY <1>0, <1>1, <1>3
<1>5. c \in Request
  BY <1>4, StartTyping
<1>6. n \in OnNames(c) /\ d \in OnNames(c) /\ f \in FieldsOf(c) /\ c.fields[1] = f /\ c.fields = <<c.fields[1]>>
  <2>1. 1 \in DOMAIN c.from
    BY <1>2
  <2> QED
    BY <1>2, <1>5, <2>1, OfCommand, OneField
<1>7. \A i \in DOMAIN p : Allowed(p[i], c)
  <2>1. /\ Allowed(Call("hget_member", n, f, NoValue), c)
        /\ Allowed(Call("hdel", n, f, NoValue), c)
        /\ Allowed(Call("hset_member", d, f, NoValue), c)
    BY <1>6, CallAllowed
  <2> QED
    BY <1>3, <2>1, AllAllowed
<1>8. Reading(c, store, store, p, NoValue)
  BY <1>2, <1>3, <1>6 DEF Reading, Unread
<1>9. OnTheWay(c, store, store, p, NoValue, <<>>)
  BY <1>8 DEF OnTheWay
<1> QED
  BY <1>2, <1>4, <1>5, <1>7, <1>9, StartAlone

LEMMA StoreAlone ==
  ASSUME SoloInv, CollectionInv', NEW t \in Threads, NEW c, c.op \in SetOp, c.fields = <<>>,
         c.from # <<>>, kind = "set", NEW p, p # <<>>, Start(t, c, p),
         c \in Request => p = StoreCalls(c, 0)
  PROVE  SoloInv' /\ RepliesLikeRedis
<1>1. c \in Request
  BY StartTyping
<1>2. p = StoreCalls(c, 0)
  BY <1>1
<1>3. \A i \in DOMAIN p : Allowed(p[i], c)
  <2>1. Len(c.from) \in Nat
    BY <1>1, OfCommand
  <2>2. DOMAIN p = 1..Len(c.from) + 2 /\ \A i \in DOMAIN p : p[i] = StoreCall(c, i)
    BY <1>2, <2>1 DEF StoreCalls
  <2> QED
    BY <1>1, <2>2, StoreCallAllowed
<1>4. OnTheWay(c, store, store, p, NoValue, <<>>)
  BY <1>1, <1>2, StoreOnTheWay DEF OnTheWay
<1> QED
  BY <1>1, <1>3, <1>4, StartAlone DEF SetOp

LEMMA HashAlone ==
  ASSUME SoloInv, CollectionInv', NEW t \in Threads, HashCommand(t)
  PROVE  SoloInv' /\ RepliesLikeRedis
<1>1. CASE HMSet(t)
  <2>1. PICK n \in Targets[kind], fs \in FieldLists : \E vs \in [DOMAIN fs -> Values] :
          Start(t, [Plain("hmset", n) EXCEPT !.fields = fs, !.values = vs], Hsets(n, fs, vs))
    BY <1>1 DEF HMSet
  <2>2. fs \in Seq(Fields) /\ fs # <<>>
    BY Given
  <2> QED
    BY <2>1, <2>2, HmsetAlone
<1> QED
  BY <1>1, HSetNXAlone, HIncrByAlone, HDelAlone, HClearAlone DEF HashCommand

LEMMA SetAlone ==
  ASSUME SoloInv, CollectionInv', NEW t \in Threads, SetCommand(t)
  PROVE  SoloInv' /\ RepliesLikeRedis
<1>0. kind = "set"
  BY DEF SetCommand
<1>1. CASE SAdd(t)
  <2>1. PICK n \in Targets[kind], fs \in FieldLists :
          Start(t, [Plain("hmset", n) EXCEPT !.fields = fs, !.values = Selves(fs)], Hsets(n, fs, Selves(fs)))
    BY <1>1 DEF SAdd
  <2>2. fs \in Seq(Fields) /\ fs # <<>>
    BY Given
  <2> QED
    BY <2>1, <2>2, HmsetAlone
<1>2. CASE SPop(t)
  <2>1. PICK n \in Targets[kind] : Start(t, Plain("spop", n), <<Whole("spop", n)>>)
    BY <1>2 DEF SPop
  <2>2. PICK c : c = Plain("spop", n)
    OBVIOUS
  <2>3. c.op = "spop" /\ c.name = n /\ c.fields = <<>> /\ c.from = <<>>
    BY <2>2 DEF Plain
  <2> QED
    BY <1>0, <2>1, <2>2, <2>3, WalkAlone
<1>3. CASE SUnionStore(t)
  <2>1. PICK n \in Targets[kind], from \in SourceLists :
          Start(t, [Plain("union", n) EXCEPT !.from = from],
                Gathers("union", from) \o <<Whole("hclear", n), Whole("fill", n)>>)
    BY <1>3 DEF SUnionStore
  <2>2. PICK c : c = [Plain("union", n) EXCEPT !.from = from]
    OBVIOUS
  <2>3. c.op = "union" /\ c.name = n /\ c.fields = <<>> /\ c.from = from /\ from # <<>>
    BY <2>2, Given DEF Plain
  <2>4. PICK p : p = Gathers("union", from) \o <<Whole("hclear", n), Whole("fill", n)>>
    OBVIOUS
  <2>5. c \in Request => p = StoreCalls(c, 0)
    BY <2>3, <2>4, UnionCalls
  <2>6. p # <<>>
    BY <2>4
  <2>7. Start(t, c, p)
    BY <2>1, <2>2, <2>4
  <2>8. c.op \in SetOp /\ c.fields = <<>> /\ c.from # <<>>
    BY <2>3 DEF SetOp
  <2> QED
    BY <1>0, <2>5, <2>6, <2>7, <2>8, StoreAlone
<1>4. CASE SInterStore(t)
  <2>1. PICK n \in Targets[kind], from \in SourceLists :
          Start(t, [Plain("inter", n) EXCEPT !.from = from],
                <<Whole("first", from[1]), Whole("hclear", n)>>
                  \o Gathers("inter", Tail(from)) \o <<Whole("fill", n)>>)
    BY <1>4 DEF SInterStore
  <2>2. PICK c : c = [Plain("inter", n) EXCEPT !.from = from]
    OBVIOUS
  <2>3. c.op = "inter" /\ c.name = n /\ c.fields = <<>> /\ c.from = from /\ from # <<>>
    BY <2>2, Given DEF Plain
  <2>4. PICK p : p = <<Whole("first", from[1]), Whole("hclear", n)>>
                       \o Gathers("inter", Tail(from)) \o <<Whole("fill", n)>>
    OBVIOUS
  <2>5. c \in Request => p = StoreCalls(c, 0)
    BY <2>3, <2>4, CleanCalls
  <2>6. p # <<>>
    BY <2>4
  <2>7. Start(t, c, p)
    BY <2>1, <2>2, <2>4
  <2>8. c.op \in SetOp /\ c.fields = <<>> /\ c.from # <<>>
    BY <2>3 DEF SetOp
  <2> QED
    BY <1>0, <2>5, <2>6, <2>7, <2>8, StoreAlone
<1>5. CASE SDiffStore(t)
  <2>1. PICK n \in Targets[kind], from \in SourceLists :
          Start(t, [Plain("diff", n) EXCEPT !.from = from],
                <<Whole("hclear", n), Whole("first", from[1])>>
                  \o Gathers("diff", Tail(from)) \o <<Whole("fill", n)>>)
    BY <1>5 DEF SDiffStore
  <2>2. PICK c : c = [Plain("diff", n) EXCEPT !.from = from]
    OBVIOUS
  <2>3. c.op = "diff" /\ c.name = n /\ c.fields = <<>> /\ c.from = from /\ from # <<>>
    BY <2>2, Given DEF Plain
  <2>4. PICK p : p = <<Whole("hclear", n), Whole("first", from[1])>>
                       \o Gathers("diff", Tail(from)) \o <<Whole("fill", n)>>
    OBVIOUS
  <2>5. c \in Request => p = StoreCalls(c, 0)
    BY <2>3, <2>4, CleanCalls
  <2>6. p # <<>>
    BY <2>4
  <2>7. Start(t, c, p)
    BY <2>1, <2>2, <2>4
  <2>8. c.op \in SetOp /\ c.fields = <<>> /\ c.from # <<>>
    BY <2>3 DEF SetOp
  <2> QED
    BY <1>0, <2>5, <2>6, <2>7, <2>8, StoreAlone
<1> QED
  BY <1>0, <1>1, <1>2, <1>3, <1>4, <1>5, SRemAlone, SMoveAlone, HClearAlone DEF SetCommand, SClear

LEMMA ZSetAlone ==
  ASSUME SoloInv, CollectionInv', NEW t \in Threads, ZSetCommand(t)
  PROVE  SoloInv' /\ RepliesLikeRedis
<1>0. kind = "zset"
  BY DEF ZSetCommand
<1>1. CASE ZAdd(t)
  <2>1. PICK n \in Targets[kind], fs \in FieldLists : \E vs \in [DOMAIN fs -> Numbers] :
          Start(t, [Plain("hmset", n) EXCEPT !.fields = fs, !.values = vs], Hsets(n, fs, vs))
    BY <1>1 DEF ZAdd
  <2>2. fs \in Seq(Fields) /\ fs # <<>>
    BY Given
  <2> QED
    BY <2>1, <2>2, HmsetAlone
<1>2. CASE ZRemRangeByRank(t)
  <2>1. PICK n \in Targets[kind], i \in Indexes, j \in Indexes :
          Start(t, [Plain("by_rank", n) EXCEPT !.low = i, !.high = j], <<Whole("by_rank", n)>>)
    BY <1>2 DEF ZRemRangeByRank
  <2>2. PICK c : c = [Plain("by_rank", n) EXCEPT !.low = i, !.high = j]
    OBVIOUS
  <2>3. c.op = "by_rank" /\ c.name = n /\ c.fields = <<>> /\ c.from = <<>>
    BY <2>2 DEF Plain
  <2>4. Start(t, c, <<Whole(c.op, c.name)>>)
    BY <2>1, <2>2, <2>3
  <2>5. c.op # "spop" /\ c.op \in {"spop", "by_rank", "by_score"}
    BY <2>3
  <2>6. kind = IF c.op = "spop" THEN "set" ELSE "zset"
    BY <1>0, <2>5
  <2> QED
    BY <2>3, <2>4, <2>5, <2>6, WalkAlone
<1>3. CASE ZClear(t)
  <2>1. PICK n \in Targets[kind] :
          Start(t, [Plain("by_rank", n) EXCEPT !.low = 0, !.high = -1], <<Whole("by_rank", n)>>)
    BY <1>3 DEF ZClear
  <2>2. PICK c : c = [Plain("by_rank", n) EXCEPT !.low = 0, !.high = -1]
    OBVIOUS
  <2>3. c.op = "by_rank" /\ c.name = n /\ c.fields = <<>> /\ c.from = <<>>
    BY <2>2 DEF Plain
  <2>4. Start(t, c, <<Whole(c.op, c.name)>>)
    BY <2>1, <2>2, <2>3
  <2>5. c.op # "spop" /\ c.op \in {"spop", "by_rank", "by_score"}
    BY <2>3
  <2>6. kind = IF c.op = "spop" THEN "set" ELSE "zset"
    BY <1>0, <2>5
  <2> QED
    BY <2>3, <2>4, <2>5, <2>6, WalkAlone
<1>4. CASE ZRemRangeByScore(t)
  <2>1. PICK n \in Targets[kind], i \in Numbers, j \in Numbers :
          Start(t, [Plain("by_score", n) EXCEPT !.low = i, !.high = j], <<Whole("by_score", n)>>)
    BY <1>4 DEF ZRemRangeByScore
  <2>2. PICK c : c = [Plain("by_score", n) EXCEPT !.low = i, !.high = j]
    OBVIOUS
  <2>3. c.op = "by_score" /\ c.name = n /\ c.fields = <<>> /\ c.from = <<>>
    BY <2>2 DEF Plain
  <2>4. Start(t, c, <<Whole(c.op, c.name)>>)
    BY <2>1, <2>2, <2>3
  <2>5. c.op # "spop" /\ c.op \in {"spop", "by_rank", "by_score"}
    BY <2>3
  <2>6. kind = IF c.op = "spop" THEN "set" ELSE "zset"
    BY <1>0, <2>5
  <2> QED
    BY <2>3, <2>4, <2>5, <2>6, WalkAlone
<1> QED
  BY <1>0, <1>1, <1>2, <1>3, <1>4, ZIncrByAlone, HDelAlone DEF ZSetCommand

\* The first call of a program and the others.
LEMMA SplitIs ==
  ASSUME NEW i, NEW q \in Seq(Instruction)
  PROVE  /\ \A x : <<i>> \o q = <<x>> => i = x /\ q = <<>>
         /\ \A x, y : <<i>> \o q = <<x, y>> => i = x /\ q = <<y>>
         /\ \A x, y, z : <<i>> \o q = <<x, y, z>> => i = x /\ q = <<y, z>>
<1>1. PICK e : e = <<i>> \o q
  OBVIOUS
<1>2. Head(e) = i /\ Tail(e) = q
  BY <1>1, Pushed
<1>3. \A x : e = <<x>> => Head(e) = x /\ Tail(e) = <<>>
  OBVIOUS
<1>4. \A x, y : e = <<x, y>> => Head(e) = x /\ Tail(e) = <<y>>
  OBVIOUS
<1>5. \A x, y, z : e = <<x, y, z>> => Head(e) = x /\ Tail(e) = <<y, z>>
  OBVIOUS
<1> QED
  BY <1>1, <1>2, <1>3, <1>4, <1>5

\* Where a command that has only read may be.
Walking(c, i, q) ==
  c.op \in {"spop", "by_rank", "by_score"} /\ i = Whole(c.op, c.name) /\ q = <<>> /\ c.fields = <<>>

Moving(c, i, q) ==
  /\ c.op = "smove" /\ c.fields = <<c.fields[1]>> /\ c.from = <<c.from[1]>>
  /\ i = Call("hget_member", c.name, c.fields[1], NoValue)
  /\ q = <<Call("hdel", c.name, c.fields[1], NoValue), Call("hset_member", c.from[1], c.fields[1], NoValue)>>

Trying(c, i, q) ==
  /\ c.op = "hsetnx" /\ c.fields = <<c.fields[1]>>
  /\ i = Call("if_missing", c.name, c.fields[1], NoValue)
  /\ q = <<Call("hset", c.name, c.fields[1], c.values[1])>>

Adding(c) == Call("add", c.name, c.fields[1], c.values[1])

Counting(c, s, i, q, v) ==
  LET n == c.name
      f == c.fields[1]
      old == s[n][f]
  IN /\ c.op = "hincrby" /\ c.fields = <<f>>
     /\ \/ /\ v = NoValue /\ i = Call("if_there", n, f, NoValue)
           /\ q = <<Call("hget_number", n, f, NoValue), Adding(c)>>
        \/ i = Call("hget_number", n, f, NoValue) /\ q = <<Adding(c)>> /\ Exists(old)
        \/ i = Adding(c) /\ q = <<>> /\ v = old /\ old \in Int \cup {NoValue}

Scoring(c, s, i, q, v) ==
  LET n == c.name
      f == c.fields[1]
  IN /\ c.op = "zincrby" /\ c.fields = <<f>>
     /\ \/ i = Call("hget_score", n, f, c.values[1]) /\ q = <<Adding(c)>>
        \/ i = Adding(c) /\ q = <<>> /\ v = s[n][f]

LEMMA ReadingSplit ==
  ASSUME NEW c, NEW s, NEW r, NEW i, NEW q \in Seq(Instruction), NEW v, Reading(c, s, r, <<i>> \o q, v)
  PROVE  /\ Unread(c, s, r)
         /\ \/ Walking(c, i, q) \/ Moving(c, i, q) \/ Trying(c, i, q)
            \/ Counting(c, s, i, q, v) \/ Scoring(c, s, i, q, v)
<1>1. PICK p : p = <<i>> \o q
  OBVIOUS
<1>2. /\ \A x : p = <<x>> => i = x /\ q = <<>>
      /\ \A x, y : p = <<x, y>> => i = x /\ q = <<y>>
      /\ \A x, y, z : p = <<x, y, z>> => i = x /\ q = <<y, z>>
  BY <1>1, SplitIs
<1>3. Reading(c, s, r, p, v)
  BY <1>1
<1> DEFINE n == c.name
           f == c.fields[1]
           w == c.values[1]
           old == s[n][f]
<1>4. CASE c.op \in {"spop", "by_rank", "by_score"} /\ p = <<Whole(c.op, n)>> /\ c.fields = <<>>
  BY <1>2, <1>3, <1>4 DEF Walking, Reading
<1>5. CASE /\ c.op = "smove" /\ c.fields = <<f>> /\ c.from = <<c.from[1]>>
           /\ p = <<Call("hget_member", n, f, NoValue), Call("hdel", n, f, NoValue),
                    Call("hset_member", c.from[1], f, NoValue)>>
  <2>1. Moving(c, i, q)
    BY <1>2, <1>5 DEF Moving
  <2> QED
    BY <1>3, <2>1 DEF Reading
<1>6. CASE /\ c.op = "hsetnx" /\ c.fields = <<f>>
           /\ p = <<Call("if_missing", n, f, NoValue), Call("hset", n, f, w)>>
  <2>1. Trying(c, i, q)
    BY <1>2, <1>6 DEF Trying
  <2> QED
    BY <1>3, <2>1 DEF Reading
<1>7. CASE /\ c.op = "hincrby" /\ c.fields = <<f>>
           /\ \/ /\ v = NoValue
                 /\ p = <<Call("if_there", n, f, NoValue), Call("hget_number", n, f, NoValue),
                          Call("add", n, f, w)>>
              \/ p = <<Call("hget_number", n, f, NoValue), Call("add", n, f, w)>> /\ Exists(old)
              \/ p = <<Call("add", n, f, w)>> /\ v = old /\ old \in Int \cup {NoValue}
  <2>1. Counting(c, s, i, q, v)
    BY <1>2, <1>7 DEF Counting, Adding
  <2> QED
    BY <1>3, <2>1 DEF Reading
<1>8. CASE /\ c.op = "zincrby" /\ c.fields = <<f>>
           /\ \/ p = <<Call("hget_score", n, f, w), Call("add", n, f, w)>>
              \/ p = <<Call("add", n, f, w)>> /\ v = old
  <2>1. Scoring(c, s, i, q, v)
    BY <1>2, <1>8 DEF Scoring, Adding
  <2> QED
    BY <1>3, <2>1 DEF Reading
<1> QED
  BY <1>3, <1>4, <1>5, <1>6, <1>7, <1>8, Zenon DEF Reading

\* A function on 1..m is a list.
LEMMA AsList ==
  ASSUME NEW m \in Nat, NEW p, p = [k \in 1..m |-> p[k]], NEW S, S = {p[k] : k \in 1..m}
  PROVE  p \in Seq(S) /\ Len(p) = m
<1>1. \A k \in 1..m : p[k] \in S
  OBVIOUS
<1>2. p \in [1..m -> S]
  BY <1>1
<1> QED
  BY <1>2

LEMMA StoreCallsList ==
  ASSUME NEW c \in Request, NEW j \in 0..Len(c.from) + 1
  PROVE  /\ \E S : StoreCalls(c, j) \in Seq(S)
         /\ Len(StoreCalls(c, j)) = Len(c.from) + 2 - j
         /\ \A k \in 1..Len(c.from) + 2 - j : StoreCalls(c, j)[k] = StoreCall(c, k + j)
<1> DEFINE m == Len(c.from) + 2 - j
           F(k) == StoreCall(c, k)
<1>1. PICK p : p = StoreCalls(c, j)
  OBVIOUS
<1>2. m \in Nat
  BY OfCommand
<1>3. p = [k \in 1..m |-> F(k + j)]
  BY <1>1 DEF StoreCalls
<1>4. p = [k \in 1..m |-> p[k]] /\ \A k \in 1..m : p[k] = F(k + j)
  <2> HIDE DEF m, F
  <2> QED
    BY <1>3
<1>5. PICK S : S = {p[k] : k \in 1..m}
  OBVIOUS
<1>6. p \in Seq(S) /\ Len(p) = m
  <2> HIDE DEF m
  <2> QED
    BY <1>2, <1>4, <1>5, AsList
<1> QED
  BY <1>1, <1>4, <1>6

\* Where a STORE may be: at call j + 1, or deleting what the destination held.
AtCall(c, s, h, i, q, j) ==
  /\ i = StoreCall(c, j + 1) /\ q = StoreCalls(c, j + 1)
  /\ IF j < ClearAt(c) THEN \A f \in Fields : h[f] = s[c.name][f]
                       ELSE \A f \in Fields : h[f] = NoValue

Emptying(c, h, i, q, j) ==
  /\ j = ClearAt(c) /\ q = StoreCalls(c, j)
  /\ \E fs \in SUBSET Fields :
       /\ i = [Whole("hdel", c.name) EXCEPT !.fields = fs]
       /\ \A f \in Fields \ fs : h[f] = NoValue

SourcesKept(c, s, r) == \A n \in OnNames(c) \ {c.name}, f \in Fields : r[n][f] = s[n][f]

LEMMA StoringSplit ==
  ASSUME NEW c \in Request, NEW s, NEW r, NEW i, NEW q \in Seq(Instruction), NEW l,
         Storing(c, s, r, <<i>> \o q, l)
  PROVE  /\ c.op \in SetOp /\ c.fields = <<>> /\ c.from # <<>> /\ SourcesKept(c, s, r)
         /\ \E j \in 0..Len(c.from) + 1 :
              ReadSoFar(c, s, l, j) /\ (AtCall(c, s, r[c.name], i, q, j) \/ Emptying(c, r[c.name], i, q, j))
<1>1. PICK p : p = <<i>> \o q
  OBVIOUS
<1>2. Head(p) = i /\ Tail(p) = q
  BY <1>1, Pushed
<1>3. Storing(c, s, r, p, l)
  BY <1>1
<1>4. PICK j \in 0..Len(c.from) + 1 : ReadSoFar(c, s, l, j) /\ StoreAt(c, s, r[c.name], p, j)
  BY <1>3 DEF Storing
<1>5. Len(c.from) \in Nat
  BY OfCommand
<1>6. ASSUME p = StoreCalls(c, j)
      PROVE  i = StoreCall(c, j + 1) /\ q = StoreCalls(c, j + 1)
  <2> DEFINE F(k) == StoreCall(c, k)
             m == Len(c.from) + 2 - j
  <2>1. m \in Nat /\ m >= 1
    BY <1>4, <1>5
  <2>2. p = [k \in 1..m |-> F(k + j)]
    BY <1>6 DEF StoreCalls
  <2>3. StoreCalls(c, j + 1) = [k \in 1..m - 1 |-> F(k + (j + 1))]
    <3>1. m - 1 = Len(c.from) + 2 - (j + 1)
      BY <1>4, <1>5
    <3> QED
      BY <3>1 DEF StoreCalls
  <2> HIDE DEF F, m
  <2>4. Head(p) = F(j + 1)
    BY <1>4, <2>1, <2>2
  <2>5. Tail(p) = [k \in 1..m - 1 |-> F(k + (j + 1))]
    <3>1. PICK S : S = {p[k] : k \in 1..m}
      OBVIOUS
    <3>2. p \in Seq(S) /\ Len(p) = m
      BY <2>1, <2>2, <3>1, AsList
    <3>4. p # <<>>
      BY <2>1, <3>2, EmptySeq
    <3>5. Tail(p) \in Seq(S) /\ Len(Tail(p)) = m - 1 /\ \A k \in 1..m - 1 : Tail(p)[k] = p[k + 1]
      BY <3>2, <3>4, HeadTailProperties
    <3>3. \A k \in 1..m - 1 : p[k + 1] = F(k + (j + 1))
      <4> SUFFICES ASSUME NEW k \in 1..m - 1 PROVE p[k + 1] = F(k + (j + 1))
        OBVIOUS
      <4>1. k + 1 \in 1..m /\ (k + 1) + j = k + (j + 1)
        BY <1>4, <2>1
      <4> QED
        BY <2>2, <4>1
    <3>6. PICK g : g = [k \in 1..m - 1 |-> F(k + (j + 1))]
      OBVIOUS
    <3>7. g = [k \in 1..m - 1 |-> g[k]] /\ \A k \in 1..m - 1 : Tail(p)[k] = g[k]
      BY <3>3, <3>5, <3>6
    <3>8. m - 1 \in Nat
      BY <2>1
    <3>9. Tail(p) = g
      <4>1. PICK u, m1 : u = Tail(p) /\ m1 = m - 1
        OBVIOUS
      <4>2. /\ m1 \in Nat /\ u \in Seq(S) /\ Len(u) = m1
            /\ g = [k \in 1..m1 |-> g[k]] /\ \A k \in 1..m1 : u[k] = g[k]
        BY <3>5, <3>7, <3>8, <4>1
      <4>3. u = g
        BY <4>2, SameCalls
      <4> QED
        BY <4>1, <4>3
    <3> QED
      BY <3>6, <3>9
  <2> QED
    BY <1>2, <2>3, <2>4, <2>5 DEF F
<1>0. c.op \in SetOp /\ c.fields = <<>> /\ c.from # <<>> /\ SourcesKept(c, s, r)
  BY <1>3 DEF Storing, SourcesKept
<1>7. CASE j < ClearAt(c) /\ p = StoreCalls(c, j) /\ \A f \in Fields : r[c.name][f] = s[c.name][f]
  BY <1>0, <1>4, <1>6, <1>7 DEF AtCall
<1>8. CASE j >= ClearAt(c) /\ p = StoreCalls(c, j) /\ \A f \in Fields : r[c.name][f] = NoValue
  <2>1. ClearAt(c) \in Int
    BY <1>3, <1>5 DEF ClearAt, Storing, SetOp
  <2>2. ~(j < ClearAt(c))
    BY <1>4, <1>8, <2>1
  <2> QED
    BY <1>0, <1>4, <1>6, <1>8, <2>2 DEF AtCall
<1>9. CASE /\ j = ClearAt(c)
           /\ \E fs \in SUBSET Fields :
                /\ p = <<[Whole("hdel", c.name) EXCEPT !.fields = fs]>> \o StoreCalls(c, j)
                /\ \A f \in Fields \ fs : r[c.name][f] = NoValue
  <2>1. PICK fs \in SUBSET Fields :
           /\ p = <<[Whole("hdel", c.name) EXCEPT !.fields = fs]>> \o StoreCalls(c, j)
           /\ \A f \in Fields \ fs : r[c.name][f] = NoValue
    BY <1>9
  <2>2. PICK x : x = [Whole("hdel", c.name) EXCEPT !.fields = fs]
    OBVIOUS
  <2>3. PICK S : StoreCalls(c, j) \in Seq(S)
    BY StoreCallsList
  <2>4. Head(p) = x /\ Tail(p) = StoreCalls(c, j)
    BY <2>1, <2>2, <2>3, Pushed
  <2> QED
    BY <1>0, <1>2, <1>4, <1>9, <2>1, <2>2, <2>4 DEF Emptying
<1> QED
  BY <1>4, <1>7, <1>8, <1>9 DEF StoreAt

-----------------------------------------------------------------------------
(* The calls of a command that meets no other *)

\* Where a thread is that is not disturbed.
OnTime(t) ==
  t \notin disturbed /\ ~Deviates(cmd[t], before[t])

LEMMA Here ==
  ASSUME SoloInv, NEW t \in Threads, prog[t] # <<>>
  PROVE  /\ prog[t] = <<Now(t)>> \o Rest(t)
         /\ Now(t) \in Instruction /\ Now(t) \in Proper(kind)
         /\ Rest(t) \in Seq(Instruction) /\ Rest(t) \in Seq(Proper(kind))
         /\ cmd[t] \in Request /\ cmd[t] # NoCmd
         /\ Allowed(Now(t), cmd[t])
         /\ \A j \in DOMAIN Rest(t) : Allowed(Rest(t)[j], cmd[t])
         /\ OnTime(t) => OnTheWay(cmd[t], before[t], store, <<Now(t)>> \o Rest(t), got[t], list[t])
<1>1. CollectionInv
  BY DEF SoloInv
<1>2. /\ Now(t) \in Instruction /\ Now(t) \in Proper(kind) /\ Rest(t) \in Seq(Proper(kind))
      /\ cmd[t] \in Request /\ cmd[t] # NoCmd
  BY <1>1, Current
<1>3. prog[t] \in Seq(Proper(kind))
  BY <1>1, Current
<1>4. Rest(t) \in Seq(Instruction)
  <2>1. Proper(kind) \subseteq Instruction
    BY DEF Proper
  <2> QED
    BY <1>2, <2>1
<1>5. prog[t] = <<Now(t)>> \o Rest(t)
  BY <1>3, Split DEF Now, Rest
<1>6. \A j \in DOMAIN prog[t] : Allowed(prog[t][j], cmd[t])
  BY <1>2 DEF SoloInv, AllowedOK
<1>7. 1 \in DOMAIN prog[t] /\ prog[t][1] = Now(t)
  BY <1>3, Split DEF Now
<1>8. \A j \in DOMAIN Rest(t) : j + 1 \in DOMAIN prog[t] /\ prog[t][j + 1] = Rest(t)[j]
  <2>1. PICK e, q : e = prog[t] /\ q = Rest(t)
    OBVIOUS
  <2>2. e = <<Now(t)>> \o q /\ q \in Seq(Instruction)
    BY <1>4, <1>5, <2>1
  <2>3. \A j \in 1..Len(q) : j + 1 \in DOMAIN e /\ e[j + 1] = q[j]
    BY <2>2, Pushed
  <2>4. DOMAIN q = 1..Len(q)
    BY <2>2
  <2> QED
    BY <2>1, <2>3, <2>4
<1>9. OnTime(t) => OnTheWay(cmd[t], before[t], store, prog[t], got[t], list[t])
  BY <1>2 DEF SoloInv, AloneOK, OnTime
<1> QED
  BY <1>2, <1>4, <1>5, <1>6, <1>7, <1>8, <1>9

\* The records, typed.
LEMMA Records ==
  ASSUME SoloInv, NEW t \in Threads
  PROVE  /\ store \in [Names -> [Fields -> OfKind(kind)]]
         /\ before[t] \in [Names -> [Fields -> OfKind(kind)]]
BY DEF SoloInv, CollectionInv, TypeOK

LEMMA AllowedPushed ==
  ASSUME NEW c, NEW S, NEW i, NEW q \in Seq(S), Allowed(i, c), \A j \in DOMAIN q : Allowed(q[j], c)
  PROVE  \A j \in DOMAIN (<<i>> \o q) : Allowed((<<i>> \o q)[j], c)
<1>1. PICK e : e = <<i>> \o q
  OBVIOUS
<1>2. e[1] = i /\ \A j \in DOMAIN e : j # 1 => j - 1 \in 1..Len(q) /\ e[j] = q[j - 1]
  BY <1>1, Pushed
<1>3. DOMAIN q = 1..Len(q)
  OBVIOUS
<1> QED
  BY <1>1, <1>2, <1>3

LEMMA AllowedLess ==
  ASSUME NEW c, NEW i \in Instruction, NEW q \in Seq(Instruction), NEW f, Allowed(i, c),
         \A j \in DOMAIN q : Allowed(q[j], c)
  PROVE  \A j \in DOMAIN Less(i, f, q) : Allowed(Less(i, f, q)[j], c)
<1>1. PICK x : x = [i EXCEPT !.fields = @ \ {f}]
  OBVIOUS
<1>2. x.do = i.do /\ x.name = i.name /\ x.fields = i.fields \ {f}
  BY <1>1 DEF Instruction
<1>3. Allowed(x, c)
  BY <1>2 DEF Allowed
<1>4. \A j \in DOMAIN (<<x>> \o q) : Allowed((<<x>> \o q)[j], c)
  BY <1>3, AllowedPushed
<1> QED
  BY <1>1, <1>4 DEF Less

\* The calls of a command that has only read.
LEMMA ReadingHead ==
  ASSUME NEW c, NEW s, NEW r, NEW i, NEW q \in Seq(Instruction), NEW v, Reading(c, s, r, <<i>> \o q, v)
  PROVE  /\ i.do = "hget_member" => Moving(c, i, q)
         /\ i.do = "if_missing" => Trying(c, i, q)
         /\ i.do \in {"if_there", "hget_number"} => Counting(c, s, i, q, v)
         /\ i.do = "hget_score" => Scoring(c, s, i, q, v)
         /\ i.do = "add" => Counting(c, s, i, q, v) \/ Scoring(c, s, i, q, v)
         /\ i.do \in {"spop", "by_rank", "by_score"} => Walking(c, i, q)
         /\ i.do \in {"hget_member", "if_missing", "if_there", "hget_number", "hget_score", "add",
                       "spop", "by_rank", "by_score"}
<1>1. \/ Walking(c, i, q) \/ Moving(c, i, q) \/ Trying(c, i, q)
      \/ Counting(c, s, i, q, v) \/ Scoring(c, s, i, q, v)
  BY ReadingSplit
<1>2. Walking(c, i, q) => i.do \in {"spop", "by_rank", "by_score"}
  BY WholeIs DEF Walking
<1>3. Moving(c, i, q) => i.do = "hget_member"
  <2> SUFFICES ASSUME Moving(c, i, q) PROVE i.do = "hget_member"
    OBVIOUS
  <2>1. i = Call("hget_member", c.name, c.fields[1], NoValue)
    BY DEF Moving
  <2> QED
    BY <2>1 DEF Call
<1>4. Trying(c, i, q) => i.do = "if_missing"
  <2> SUFFICES ASSUME Trying(c, i, q) PROVE i.do = "if_missing"
    OBVIOUS
  <2>1. i = Call("if_missing", c.name, c.fields[1], NoValue)
    BY DEF Trying
  <2> QED
    BY <2>1 DEF Call
<1>5. Counting(c, s, i, q, v) => i.do \in {"if_there", "hget_number", "add"}
  <2> SUFFICES ASSUME Counting(c, s, i, q, v) PROVE i.do \in {"if_there", "hget_number", "add"}
    OBVIOUS
  <2>1. \E do \in {"if_there", "hget_number", "add"} : \E x : i = Call(do, c.name, c.fields[1], x)
    BY DEF Counting, Adding
  <2> QED
    BY <2>1, CallIs
<1>6. Scoring(c, s, i, q, v) => i.do \in {"hget_score", "add"}
  <2> SUFFICES ASSUME Scoring(c, s, i, q, v) PROVE i.do \in {"hget_score", "add"}
    OBVIOUS
  <2>1. \E do \in {"hget_score", "add"} : \E x : i = Call(do, c.name, c.fields[1], x)
    BY DEF Scoring, Adding
  <2> QED
    BY <2>1, CallIs
<1> HIDE DEF Walking, Moving, Trying, Counting, Scoring
<1> QED
  BY <1>1, <1>2, <1>3, <1>4, <1>5, <1>6

LEMMA FinishingHead ==
  ASSUME NEW c, NEW s, NEW r, NEW i, NEW q \in Seq(Instruction), Finishing(c, s, r, <<i>> \o q)
  PROVE  i.do \in {"hset", "hset_member", "hdel", "hclear", "if_there"}
BY SteadyNow DEF Finishing, Writes

\* A call of a STORE.
LEMMA StoreCallIs ==
  ASSUME NEW c \in Request, NEW j \in 0..Len(c.from) + 1, c.op \in SetOp
  PROVE  LET x == StoreCall(c, j + 1)
         IN /\ x.do \in {"hclear", "fill", "first", "union", "inter", "diff"}
            /\ x.do \in {"hclear", "fill"} => x = Whole(x.do, c.name)
            /\ x.do = "hclear" => j + 1 = ClearAt(c)
            /\ x.do = "fill" => j = Len(c.from) + 1 /\ j >= ClearAt(c)
            /\ x.do \in {"first", "union", "inter", "diff"} =>
                 /\ j + 1 # ClearAt(c) /\ j <= Len(c.from)
                 /\ x = Whole(x.do, c.from[Reads(c, j + 1)])
                 /\ x.do = IF Reads(c, j + 1) = 1 /\ c.op # "union" THEN "first" ELSE c.op
<1>1. Len(c.from) \in Nat
  BY OfCommand
<1>2. ClearAt(c) \in 1..Len(c.from) + 2
  BY <1>1 DEF ClearAt, SetOp
<1>3. CASE j + 1 = ClearAt(c)
  <2>1. StoreCall(c, j + 1) = Whole("hclear", c.name)
    BY <1>3 DEF StoreCall
  <2> QED
    BY <1>3, <2>1, WholeIs
<1>4. CASE j + 1 # ClearAt(c) /\ j + 1 = Len(c.from) + 2
  <2>1. StoreCall(c, j + 1) = Whole("fill", c.name)
    BY <1>4 DEF StoreCall
  <2>2. j = Len(c.from) + 1 /\ j >= ClearAt(c)
    BY <1>1, <1>2, <1>4
  <2> QED
    BY <2>1, <2>2, WholeIs
<1>5. CASE j + 1 # ClearAt(c) /\ j + 1 # Len(c.from) + 2
  <2>1. PICK do : do = IF Reads(c, j + 1) = 1 /\ c.op # "union" THEN "first" ELSE c.op
    OBVIOUS
  <2>2. StoreCall(c, j + 1) = Whole(do, c.from[Reads(c, j + 1)])
    BY <1>5, <2>1 DEF StoreCall
  <2>3. do \in {"first", "union", "inter", "diff"} /\ j <= Len(c.from)
    BY <1>1, <1>5, <2>1 DEF SetOp
  <2> QED
    BY <1>5, <2>1, <2>2, <2>3, WholeIs
<1> QED
  BY <1>3, <1>4, <1>5

LEMMA PutOn ==
  ASSUME NEW c \in Request, NEW s, NEW r, NEW r2, NEW v, NEW l,
         NEW i \in Instruction, NEW q \in Seq(Instruction), NEW f \in i.fields, Allowed(i, c),
         i.do \in {"hset", "hset_member", "hdel"},
         \A n \in Names, g \in Fields :
           r2[n][g] = IF n = i.name /\ g = f THEN Leaves(i, f) ELSE r[n][g],
         OnTheWay(c, s, r, <<i>> \o q, v, l)
  PROVE  OnTheWay(c, s, r2, Less(i, f, q), v, l)
<1>1. i.name \in OnNames(c) /\ f \in FieldsOf(c) /\ i.name \in Names /\ f \in Fields
  BY DEF Allowed, Instruction
<1>2. OnNames(c) \subseteq Names /\ FieldsOf(c) \subseteq Fields /\ c.name \in OnNames(c)
  BY OfCommand
<1>3. CASE Finishing(c, s, r, <<i>> \o q)
  <2>1. \A n \in OnNames(c), g \in FieldsOf(c) :
          r2[n][g] = IF n = i.name /\ g = f THEN Leaves(i, f) ELSE r[n][g]
    BY <1>2
  <2>2. Finishing(c, s, r2, Less(i, f, q))
    BY <1>3, <2>1, WriteFinishes
  <2> QED
    BY <2>2 DEF OnTheWay
<1>4. ~Reading(c, s, r, <<i>> \o q, v)
  BY ReadingHead
<1>5. CASE Storing(c, s, r, <<i>> \o q, l)
  <2>1. /\ c.op \in SetOp /\ c.fields = <<>> /\ c.from # <<>> /\ SourcesKept(c, s, r)
        /\ \E j \in 0..Len(c.from) + 1 :
             ReadSoFar(c, s, l, j) /\ (AtCall(c, s, r[c.name], i, q, j) \/ Emptying(c, r[c.name], i, q, j))
    BY <1>5, StoringSplit, Zenon
  <2>2. PICK j \in 0..Len(c.from) + 1 :
             ReadSoFar(c, s, l, j) /\ (AtCall(c, s, r[c.name], i, q, j) \/ Emptying(c, r[c.name], i, q, j))
    BY <2>1, Zenon
  <2>3. i # StoreCall(c, j + 1)
    BY <2>1, StoreCallIs
  <2>4. Emptying(c, r[c.name], i, q, j)
    BY <2>2, <2>3 DEF AtCall
  <2>5. PICK fs \in SUBSET Fields :
           /\ i = [Whole("hdel", c.name) EXCEPT !.fields = fs]
           /\ \A g \in Fields \ fs : r[c.name][g] = NoValue
    BY <2>4 DEF Emptying
  <2>6. i.do = "hdel" /\ i.name = c.name /\ i.fields = fs /\ i.value = NoValue
    BY <2>5 DEF Whole
  <2>7. Leaves(i, f) = NoValue
    BY <2>6 DEF Leaves
  <2>8. \A g \in Fields \ (fs \ {f}) : r2[c.name][g] = NoValue
    BY <1>1, <2>5, <2>6, <2>7
  <2>9. \A n \in OnNames(c) \ {c.name}, g \in Fields : r2[n][g] = s[n][g]
    BY <1>2, <2>1, <2>6 DEF SourcesKept
  <2>10. StoreAt(c, s, r2[c.name], Less(i, f, q), j)
    <3>1. CASE fs = {f}
      <4>1. Less(i, f, q) = StoreCalls(c, j)
        BY <2>4, <2>6, <3>1 DEF Less, Emptying
      <4>2. j >= ClearAt(c)
        BY <2>4 DEF Emptying
      <4>3. \A g \in Fields : r2[c.name][g] = NoValue
        BY <2>8, <3>1
      <4> QED
        BY <4>1, <4>2, <4>3 DEF StoreAt
    <3>2. CASE fs # {f}
      <4>1. PICK x : x = [i EXCEPT !.fields = @ \ {f}]
        OBVIOUS
      <4>2. Less(i, f, q) = <<x>> \o StoreCalls(c, j)
        BY <2>4, <2>6, <3>2, <4>1 DEF Less, Emptying
      <4>3. x = [Whole("hdel", c.name) EXCEPT !.fields = fs \ {f}]
        BY <2>5, <4>1 DEF Whole
      <4>4. fs \ {f} \in SUBSET Fields
        OBVIOUS
      <4> QED
        BY <2>4, <2>8, <4>2, <4>3, <4>4 DEF StoreAt, Emptying
    <3> QED
      BY <3>1, <3>2
  <2>11. Storing(c, s, r2, Less(i, f, q), l)
    BY <2>1, <2>2, <2>9, <2>10 DEF Storing
  <2> QED
    BY <2>11 DEF OnTheWay
<1> QED
  BY <1>3, <1>4, <1>5 DEF OnTheWay

\* A call that writes one record.
LEMMA PutAlone ==
  ASSUME SoloInv, CollectionInv', NEW t \in Threads, prog[t] # <<>>,
         NEW f \in Now(t).fields, Now(t).do \in {"hset", "hset_member", "hdel"},
         store' = [store EXCEPT ![Now(t).name][f] = Leaves(Now(t), f)],
         Goes(t, Behind(t, f)), Keeps(t, Behind(t, f), got[t], list[t]), kind' = kind
  PROVE  SoloInv' /\ RepliesLikeRedis
<1> DEFINE i == Now(t)
           q == Rest(t)
           c == cmd[t]
           s == before[t]
<1>1. /\ i \in Instruction /\ q \in Seq(Instruction) /\ c \in Request
      /\ Allowed(i, c) /\ \A j \in DOMAIN q : Allowed(q[j], c)
      /\ OnTime(t) => OnTheWay(c, s, store, <<i>> \o q, got[t], list[t])
  BY Here
<1>2. i.name \in OnNames(c) /\ f \in FieldsOf(c) /\ i.name \in Names /\ f \in Fields
  BY <1>1 DEF Allowed, Instruction
<1>3. OnNames(c) \subseteq Names /\ FieldsOf(c) \subseteq Fields
  BY <1>1, OfCommand
<1>4. \A n \in Names, g \in Fields :
        store'[n][g] = IF n = i.name /\ g = f THEN Leaves(i, f) ELSE store[n][g]
  BY <1>2, Records
<1>5. Behind(t, f) = Less(i, f, q)
  BY DEF Behind, Less
<1>6. PICK p : p = Less(i, f, q)
  OBVIOUS
<1> HIDE DEF i, q, c, s
<1>7. \A j \in DOMAIN p : Allowed(p[j], c)
  BY <1>1, <1>6, AllowedLess
<1>8. \A n \in Names, g \in Fields : <<n, g>> \notin Touched(c) => store'[n][g] = store[n][g]
  BY <1>1, <1>2, <1>4, OfCommand
<1>9. ASSUME OnTime(t)
      PROVE  OnTheWay(c, s, store', p, got[t], list[t])
  <2>1. i.do \in {"hset", "hset_member", "hdel"} /\ f \in i.fields
    BY DEF i
  <2>2. OnTheWay(c, s, store, <<i>> \o q, got[t], list[t])
    BY <1>1, <1>9
  <2>3. PICK r2 : r2 = store'
    OBVIOUS
  <2>4. \A n \in Names, g \in Fields : r2[n][g] = IF n = i.name /\ g = f THEN Leaves(i, f) ELSE store[n][g]
    BY <1>4, <2>3
  <2> QED
    <3>1. PICK v, l : v = got[t] /\ l = list[t]
      OBVIOUS
    <3>2. OnTheWay(c, s, store, <<i>> \o q, v, l)
      BY <2>2, <3>1
    <3>3. OnTheWay(c, s, r2, Less(i, f, q), v, l)
      BY <1>1, <2>1, <2>4, <3>2, PutOn
    <3> QED
      BY <1>6, <2>3, <3>1, <3>3
<1>10. Goes(t, p) /\ Keeps(t, p, got[t], list[t])
  BY <1>5, <1>6
<1> QED
  BY <1>7, <1>8, <1>9, <1>10, StepAlone DEF OnTime, c, s

LEMMA LookAlone ==
  ASSUME SoloInv, CollectionInv', NEW t \in Threads, prog[t] # <<>>, NEW p, NEW v, NEW l,
         Goes(t, p), Keeps(t, p, v, l), kind' = kind, store' = store,
         \A i \in DOMAIN p : Allowed(p[i], cmd[t]),
         OnTime(t) => OnTheWay(cmd[t], before[t], store, p, v, l)
  PROVE  SoloInv' /\ RepliesLikeRedis
<1>1. OnTime(t) => OnTheWay(cmd[t], before[t], store', p, v, l)
  OBVIOUS
<1> QED
  BY <1>1, StepAlone DEF OnTime

LEMMA HsetCall ==
  ASSUME SoloInv, CollectionInv', NEW t \in Threads, Hset(t)
  PROVE  SoloInv' /\ RepliesLikeRedis
<1>1. PICK f : /\ Calls(t, "hset") /\ f \in Now(t).fields
               /\ store' = [store EXCEPT ![Now(t).name][f] = Now(t).value]
               /\ Goes(t, Behind(t, f)) /\ Keeps(t, Behind(t, f), got[t], list[t])
               /\ kind' = kind
  BY DEF Hset
<1>2. prog[t] # <<>> /\ Now(t).do = "hset"
  BY <1>1 DEF Calls
<1>3. Leaves(Now(t), f) = Now(t).value
  BY <1>2 DEF Leaves
<1> QED
  BY <1>1, <1>2, <1>3, PutAlone

LEMMA HsetMemberCall ==
  ASSUME SoloInv, CollectionInv', NEW t \in Threads, HsetMember(t)
  PROVE  SoloInv' /\ RepliesLikeRedis
<1>1. PICK f : /\ Calls(t, "hset_member") /\ f \in Now(t).fields
               /\ store' = [store EXCEPT ![Now(t).name][f] = Itself(f)]
               /\ Goes(t, Behind(t, f)) /\ Keeps(t, Behind(t, f), got[t], list[t])
               /\ kind' = kind
  BY DEF HsetMember
<1>2. prog[t] # <<>> /\ Now(t).do = "hset_member"
  BY <1>1 DEF Calls
<1>3. Leaves(Now(t), f) = Itself(f)
  BY <1>2 DEF Leaves
<1> QED
  BY <1>1, <1>2, <1>3, PutAlone

LEMMA HdelCall ==
  ASSUME SoloInv, CollectionInv', NEW t \in Threads, Hdel(t)
  PROVE  SoloInv' /\ RepliesLikeRedis
<1>1. PICK f : /\ Calls(t, "hdel") /\ f \in Now(t).fields
               /\ store' = [store EXCEPT ![Now(t).name][f] = NoValue]
               /\ Goes(t, Behind(t, f)) /\ Keeps(t, Behind(t, f), got[t], list[t])
               /\ kind' = kind
  BY DEF Hdel
<1>2. prog[t] # <<>> /\ Now(t).do = "hdel"
  BY <1>1 DEF Calls
<1>3. Leaves(Now(t), f) = NoValue
  BY <1>2 DEF Leaves
<1> QED
  BY <1>1, <1>2, <1>3, PutAlone

\* Where the next call is left out.
LEMMA SkipIs ==
  ASSUME NEW S, NEW p \in Seq(S), p # <<>>
  PROVE  SubSeq(p, 3, Len(p)) = IF Tail(p) = <<>> THEN <<>> ELSE Tail(Tail(p))
<1>1. Tail(p) \in Seq(S) /\ Len(Tail(p)) = Len(p) - 1 /\ \A k \in 1..Len(p) - 1 : Tail(p)[k] = p[k + 1]
  BY HeadTailProperties
<1>2. Len(p) \in Nat /\ Len(p) >= 1
  BY EmptySeq
<1>3. CASE Tail(p) = <<>>
  <2>1. Len(p) = 1
    <3>1. PICK u : u = Tail(p)
      OBVIOUS
    <3>2. Len(u) = 0
      BY <1>3, <3>1
    <3> QED
      BY <1>1, <1>2, <3>1, <3>2
  <2>2. SubSeq(p, 3, 1) = <<>>
    BY SubSeqEmpty
  <2> QED
    BY <1>3, <2>1, <2>2
<1>4. CASE Tail(p) # <<>>
  <2>1. Len(Tail(p)) # 0
    BY <1>1, <1>4, EmptySeq
  <2>2. Len(p) >= 2
    BY <1>1, <1>2, <2>1
  <2>3. /\ Tail(Tail(p)) \in Seq(S) /\ Len(Tail(Tail(p))) = Len(p) - 2
        /\ \A k \in 1..Len(p) - 2 : Tail(Tail(p))[k] = Tail(p)[k + 1]
    <3>1. PICK u : u = Tail(p)
      OBVIOUS
    <3>2. /\ Tail(u) \in Seq(S) /\ Len(Tail(u)) = Len(u) - 1
          /\ \A k \in 1..Len(u) - 1 : Tail(u)[k] = u[k + 1]
      BY <1>1, <1>4, <3>1, HeadTailProperties
    <3> QED
      BY <1>1, <1>2, <3>1, <3>2
  <2>4. \A k \in 1..Len(p) - 2 : Tail(Tail(p))[k] = p[k + 2]
    <3> SUFFICES ASSUME NEW k \in 1..Len(p) - 2 PROVE Tail(Tail(p))[k] = p[k + 2]
      OBVIOUS
    <3>1. k + 1 \in 1..Len(p) - 1 /\ (k + 1) + 1 = k + 2
      BY <1>2
    <3> QED
      BY <1>1, <2>3, <3>1
  <2>5. \A k \in 3..Len(p) : p[k] \in S
    BY <1>2, ElementOfSeq
  <2>6. /\ SubSeq(p, 3, Len(p)) \in Seq(S) /\ Len(SubSeq(p, 3, Len(p))) = Len(p) - 2
        /\ \A k \in 1..Len(p) - 2 : SubSeq(p, 3, Len(p))[k] = p[k + 2]
    <3>1. PICK m, w : m = Len(p) /\ w = SubSeq(p, 3, m)
      OBVIOUS
    <3>2. 3 \in Int /\ m \in Int /\ m >= 2 /\ \A k \in 3..m : p[k] \in S
      BY <1>2, <2>2, <2>5, <3>1
    <3>3. /\ w \in Seq(S) /\ Len(w) = IF 3 <= m THEN m - 3 + 1 ELSE 0
          /\ \A k \in 1..m - 3 + 1 : w[k] = p[3 + k - 1]
      BY <3>1, <3>2, SubSeqProperties
    <3>4. m - 3 + 1 = m - 2 /\ \A k \in 1..m - 2 : 3 + k - 1 = k + 2
      BY <3>2
    <3>5. Len(w) = m - 2 /\ \A k \in 1..m - 2 : w[k] = p[k + 2]
      BY <3>2, <3>3, <3>4
    <3> QED
      BY <3>1, <3>3, <3>5
  <2>7. PICK u, w : u = Tail(Tail(p)) /\ w = SubSeq(p, 3, Len(p))
    OBVIOUS
  <2>8. u \in Seq(S) /\ w \in Seq(S) /\ Len(u) = Len(w) /\ \A k \in 1..Len(u) : u[k] = w[k]
    BY <2>3, <2>4, <2>6, <2>7
  <2>9. u = w
    BY <2>8
  <2> QED
    BY <1>4, <2>7, <2>9
<1> QED
  BY <1>3, <1>4

LEMMA StoringHead ==
  ASSUME NEW c \in Request, NEW s, NEW r, NEW i, NEW q \in Seq(Instruction), NEW l,
         Storing(c, s, r, <<i>> \o q, l)
  PROVE  i.do \in {"hclear", "fill", "first", "union", "inter", "diff", "hdel"}
<1>1. PICK j \in 0..Len(c.from) + 1 : AtCall(c, s, r[c.name], i, q, j) \/ Emptying(c, r[c.name], i, q, j)
  BY StoringSplit, Zenon
<1>2. c.op \in SetOp
  BY StoringSplit, Zenon
<1>3. CASE AtCall(c, s, r[c.name], i, q, j)
  BY <1>2, <1>3, StoreCallIs DEF AtCall
<1>4. CASE Emptying(c, r[c.name], i, q, j)
  BY <1>4 DEF Emptying, Whole
<1> QED
  BY <1>1, <1>3, <1>4

\* Effects that a program reaches.
LEMMA FinishingBy ==
  ASSUME NEW c, NEW s, NEW r, NEW p, Steady(c, p), NEW h \in After(c, s),
         \A n \in OnNames(c), f \in FieldsOf(c) : Ends(p, r[n][f], n, f, Target(c, s, h, n, f))
  PROVE  Finishing(c, s, r, p)
BY DEF Finishing, Reaches

LEMMA NothingLeft ==
  ASSUME NEW c, NEW s, NEW r, NEW h \in After(c, s),
         \A n \in OnNames(c), f \in FieldsOf(c) : Target(c, s, h, n, f) = r[n][f]
  PROVE  Finishing(c, s, r, <<>>)
<1>1. Steady(c, <<>>)
  BY DEF Steady
<1>2. \A n \in OnNames(c), f \in FieldsOf(c) : Ends(<<>>, r[n][f], n, f, Target(c, s, h, n, f))
  BY EndsNow
<1> QED
  BY <1>1, <1>2, FinishingBy

LEMMA OneWriteLeft ==
  ASSUME NEW c, NEW s, NEW r, NEW i, i.do \in Writes, NEW h \in After(c, s),
         \A n \in OnNames(c), f \in FieldsOf(c) :
           Target(c, s, h, n, f) = IF About(i, n, f) THEN Leaves(i, f) ELSE r[n][f]
  PROVE  Finishing(c, s, r, <<i>>)
<1>1. <<i>> = <<i>> \o <<>> /\ <<>> \in Seq(Instruction)
  BY EmptySeq
<1>2. Steady(c, <<i>>)
  BY DEF Steady
<1>3. \A n \in OnNames(c), f \in FieldsOf(c) : Ends(<<i>>, r[n][f], n, f, Target(c, s, h, n, f))
  <2> SUFFICES ASSUME NEW n \in OnNames(c), NEW f \in FieldsOf(c)
               PROVE  Ends(<<i>>, r[n][f], n, f, Target(c, s, h, n, f))
    OBVIOUS
  <2>1. Target(c, s, h, n, f) = IF About(i, n, f) THEN Leaves(i, f) ELSE r[n][f]
    OBVIOUS
  <2>2. CASE About(i, n, f)
    BY <2>1, <2>2 DEF Ends
  <2>3. CASE ~About(i, n, f)
    BY <2>1, <2>3 DEF Ends
  <2> QED
    BY <2>2, <2>3
<1> QED
  BY <1>2, <1>3, FinishingBy

LEMMA WrittenOne ==
  ASSUME NEW c, NEW f, c.fields = <<f>>, NEW h
  PROVE  \A g \in Fields : Written(c, h)[g] = IF g = f THEN c.values[1] ELSE h[g]
<1>1. Range(c.fields) = {f}
  BY DEF Range
<1>2. DOMAIN c.fields = {1} /\ Len(c.fields) = 1 /\ c.fields[1] = f
  OBVIOUS
<1>3. \A j \in 1 + 1..Len(c.fields) : c.fields[j] # f
  BY <1>2
<1>4. (CHOOSE i \in DOMAIN c.fields : c.fields[i] = f /\ \A j \in i + 1..Len(c.fields) : c.fields[j] # f) = 1
  BY <1>2, <1>3
<1> SUFFICES ASSUME NEW g \in Fields PROVE Written(c, h)[g] = IF g = f THEN c.values[1] ELSE h[g]
  OBVIOUS
<1>5. CASE g = f
  BY <1>1, <1>4, <1>5 DEF Written
<1>6. CASE g # f
  BY <1>1, <1>6 DEF Written
<1> QED
  BY <1>5, <1>6

LEMMA OtherNames ==
  ASSUME NEW c, c.op \notin {"smove", "flushdb"}, NEW s, NEW h, NEW n, NEW f
  PROVE  Target(c, s, h, n, f) = IF n = c.name THEN h[f] ELSE s[n][f]
BY DEF Target, AfterOther

\* hexists.
LEMMA LookOn ==
  ASSUME NEW c \in Request, NEW s, NEW r, NEW v, NEW l,
         NEW i \in Instruction, NEW q \in Seq(Instruction), NEW f \in i.fields, Allowed(i, c),
         i.do \in {"if_there", "if_missing"}, ~Deviates(c, s),
         c.op = "srem" => \A g \in Fields \ {0} : r[i.name][g] # Blank,
         OnTheWay(c, s, r, <<i>> \o q, v, l),
         NEW p, p = IF Exists(r[i.name][f]) <=> i.do = "if_there" THEN q
                    ELSE IF q = <<>> THEN <<>> ELSE Tail(q)
  PROVE  OnTheWay(c, s, r, p, v, l)
<1>1. CASE Finishing(c, s, r, <<i>> \o q)
  <2>1. i.do = "if_there"
    BY <1>1, FinishingHead
  <2>2. /\ Finishing(c, s, r, q)
        /\ q # <<>> /\ c.op = "srem" /\ \E g \in Fields \cap Range(c.fields) : i.fields = {g}
        /\ (\A g \in i.fields : r[i.name][g] = NoValue) => Finishing(c, s, r, Tail(q))
    BY <1>1, <2>1, LookFinishes
  <2>3. CASE Exists(r[i.name][f])
    BY <2>1, <2>2, <2>3 DEF OnTheWay
  <2>4. CASE ~Exists(r[i.name][f])
    <3>1. i.fields = {f} /\ f \in Fields /\ f \in Range(c.fields)
      BY <2>2
    <3>2. f # 0
      BY <2>2, <3>1 DEF Deviates
    <3>3. r[i.name][f] = NoValue
      BY <2>2, <2>4, <3>1, <3>2 DEF Exists
    <3> QED
      BY <2>1, <2>2, <2>4, <3>1, <3>3 DEF OnTheWay
  <2> QED
    BY <2>3, <2>4
<1>2. ~Storing(c, s, r, <<i>> \o q, l)
  BY StoringHead
<1>3. CASE Reading(c, s, r, <<i>> \o q, v) /\ i.do = "if_missing"
  <2>1. Trying(c, i, q) /\ Unread(c, s, r)
    BY <1>3, ReadingHead, ReadingSplit
  <2> DEFINE n == c.name
             g == c.fields[1]
             w == c.values[1]
             h == s[n]
             put == Call("hset", n, g, w)
  <2>2. c.op = "hsetnx" /\ c.fields = <<g>> /\ q = <<put>>
    BY <2>1 DEF Trying
  <2>3. i.name = n /\ i.fields = {g}
    BY <2>1, CallIs DEF Trying
  <2>4. /\ FieldsOf(c) = {g} /\ g \in Fields /\ n \in OnNames(c)
        /\ After(c, s) = {IF h[g] = NoValue THEN Written(c, h) ELSE h}
    BY <2>2, OneField, OfCommand DEF After
  <2>5. f = g /\ h[g] # Blank /\ r[n][g] = h[g] /\ r[i.name][f] = h[g]
    BY <2>1, <2>2, <2>3, <2>4 DEF Deviates, Unread
  <2>6. \A x \in OnNames(c) : r[x][g] = s[x][g]
    BY <2>1, <2>4 DEF Unread
  <2>7. CASE h[g] = NoValue
    <3>1. p = q
      BY <1>3, <2>5, <2>7 DEF Exists
    <3>2. put.do \in Writes /\ (\A x, y : About(put, x, y) <=> x = n /\ y = g) /\ \A y : Leaves(put, y) = w
      BY CallIs DEF Writes
    <3>3. Written(c, h) \in After(c, s) /\ Written(c, h)[g] = w
      BY <2>2, <2>4, <2>7, WrittenOne
    <3> HIDE DEF put, n, g, w, h
    <3>4. \A x \in OnNames(c), y \in FieldsOf(c) :
            Target(c, s, Written(c, h), x, y) = IF About(put, x, y) THEN Leaves(put, y) ELSE r[x][y]
      <4> SUFFICES ASSUME NEW x \in OnNames(c)
                   PROVE  Target(c, s, Written(c, h), x, g) = IF About(put, x, g) THEN Leaves(put, g) ELSE r[x][g]
        BY <2>4
      <4>1. Target(c, s, Written(c, h), x, g) = IF x = c.name THEN Written(c, h)[g] ELSE s[x][g]
        BY <2>2, OtherNames
      <4> QED
        BY <2>6, <3>2, <3>3, <4>1 DEF n
    <3>5. Finishing(c, s, r, <<put>>)
      BY <3>2, <3>3, <3>4, OneWriteLeft
    <3> QED
      BY <2>2, <3>1, <3>5 DEF OnTheWay
  <2>8. CASE h[g] # NoValue
    <3>1. p = <<>>
      <4>1. <<put>> # <<>> /\ Tail(<<put>>) = <<>>
        OBVIOUS
      <4> HIDE DEF put
      <4> QED
        BY <1>3, <2>2, <2>5, <2>8, <4>1 DEF Exists
    <3>2. h \in After(c, s)
      BY <2>4, <2>8
    <3> HIDE DEF n, g, w, h
    <3>3. \A x \in OnNames(c), y \in FieldsOf(c) : Target(c, s, h, x, y) = r[x][y]
      <4> SUFFICES ASSUME NEW x \in OnNames(c) PROVE Target(c, s, h, x, g) = r[x][g]
        BY <2>4
      <4>1. Target(c, s, h, x, g) = IF x = c.name THEN h[g] ELSE s[x][g]
        BY <2>2, OtherNames
      <4> QED
        BY <2>6, <4>1 DEF n, h
    <3>4. Finishing(c, s, r, <<>>)
      BY <3>2, <3>3, NothingLeft
    <3> QED
      BY <3>1, <3>4 DEF OnTheWay
  <2> QED
    BY <2>7, <2>8
<1>4. CASE Reading(c, s, r, <<i>> \o q, v) /\ i.do = "if_there"
  <2>1. Counting(c, s, i, q, v) /\ Unread(c, s, r)
    BY <1>4, ReadingHead, ReadingSplit
  <2> DEFINE n == c.name
             g == c.fields[1]
             old == s[n][g]
             look == Call("hget_number", n, g, NoValue)
             add == Adding(c)
  <2>2. c.op = "hincrby" /\ c.fields = <<g>>
    BY <2>1 DEF Counting
  <2>3. v = NoValue /\ i = Call("if_there", n, g, NoValue) /\ q = <<look, add>>
    <3>1. \A x : Call("hget_number", n, g, x).do # "if_there" /\ Call("add", n, g, x).do # "if_there"
      BY DEF Call
    <3> QED
      BY <1>4, <2>1, <3>1 DEF Counting, Adding
  <2>4. i.name = n /\ i.fields = {g}
    BY <2>3 DEF Call
  <2>5. FieldsOf(c) = {g} /\ g \in Fields /\ n \in OnNames(c)
    BY <2>2, OneField, OfCommand
  <2>6. f = g /\ old # Blank /\ r[i.name][f] = old
    BY <2>1, <2>2, <2>4, <2>5 DEF Deviates, Unread
  <2>7. CASE Exists(old)
    <3>1. p = <<look, add>>
      BY <1>4, <2>3, <2>6, <2>7
    <3>2. Reading(c, s, r, p, v)
      BY <2>1, <2>2, <2>7, <3>1 DEF Reading, Adding
    <3> QED
      BY <3>2 DEF OnTheWay
  <2>8. CASE ~Exists(old)
    <3>1. old = NoValue
      BY <2>6, <2>8 DEF Exists
    <3>2. p = <<add>>
      <4>1. \A x, y : <<x, y>> # <<>> /\ Tail(<<x, y>>) = <<y>>
        OBVIOUS
      <4> HIDE DEF look, add
      <4> QED
        BY <1>4, <2>3, <2>6, <2>8, <4>1
    <3>3. Reading(c, s, r, p, v)
      BY <2>1, <2>2, <2>3, <3>1, <3>2 DEF Reading, Adding
    <3> QED
      BY <3>3 DEF OnTheWay
  <2> QED
    BY <2>7, <2>8
<1> QED
  BY <1>1, <1>2, <1>3, <1>4 DEF OnTheWay

LEMMA AllowedTail ==
  ASSUME NEW c, NEW S, NEW q \in Seq(S), q # <<>>, \A j \in DOMAIN q : Allowed(q[j], c)
  PROVE  \A j \in DOMAIN Tail(q) : Allowed(Tail(q)[j], c)
<1>1. PICK u : u = Tail(q)
  OBVIOUS
<1>2. u \in Seq(S) /\ Len(u) = Len(q) - 1 /\ \A k \in 1..Len(u) : u[k] = q[k + 1]
  BY <1>1, HeadTailProperties
<1>3. DOMAIN u = 1..Len(u) /\ DOMAIN q = 1..Len(q) /\ Len(q) \in Nat
  BY <1>2
<1>4. \A k \in DOMAIN u : k + 1 \in DOMAIN q /\ u[k] = q[k + 1]
  BY <1>2, <1>3
<1> QED
  BY <1>1, <1>4

LEMMA AllowedNone ==
  ASSUME NEW c
  PROVE  \A j \in DOMAIN <<>> : Allowed(<<>>[j], c)
OBVIOUS

LEMMA HexistsCall ==
  ASSUME SoloInv, CollectionInv', NEW t \in Threads, Hexists(t)
  PROVE  SoloInv' /\ RepliesLikeRedis
<1>1. PICK do \in {"if_there", "if_missing"}, f \in Fields :
        /\ Calls(t, do) /\ f \in Now(t).fields
        /\ LET p == IF Exists(Hash(t)[f]) = (do = "if_there") THEN Rest(t)
                    ELSE SubSeq(prog[t], 3, Len(prog[t]))
           IN Goes(t, p) /\ Keeps(t, p, got[t], list[t])
        /\ UNCHANGED <<kind, store, ops, faults, kept>>
  BY DEF Hexists
<1>2. prog[t] # <<>> /\ Now(t).do = do
  BY <1>1 DEF Calls
<1> DEFINE i == Now(t)
           q == Rest(t)
           c == cmd[t]
           s == before[t]
<1>3. /\ prog[t] = <<i>> \o q
      /\ i \in Instruction /\ q \in Seq(Instruction) /\ c \in Request /\ c # NoCmd
      /\ Allowed(i, c) /\ \A j \in DOMAIN q : Allowed(q[j], c)
      /\ OnTime(t) => OnTheWay(c, s, store, <<i>> \o q, got[t], list[t])
  BY <1>2, Here
<1>4. PICK p : p = IF Exists(store[i.name][f]) <=> i.do = "if_there" THEN q
                   ELSE IF q = <<>> THEN <<>> ELSE Tail(q)
  OBVIOUS
<1>5. Goes(t, p) /\ Keeps(t, p, got[t], list[t])
  <2>1. prog[t] \in Seq(Proper(kind))
    BY <1>2, Current DEF SoloInv
  <2>2. SubSeq(prog[t], 3, Len(prog[t])) = IF q = <<>> THEN <<>> ELSE Tail(q)
    BY <1>2, <2>1, SkipIs DEF Rest
  <2>3. PICK u : u = SubSeq(prog[t], 3, Len(prog[t]))
    OBVIOUS
  <2>4. LET p1 == IF Exists(Hash(t)[f]) = (do = "if_there") THEN Rest(t) ELSE u
        IN Goes(t, p1) /\ Keeps(t, p1, got[t], list[t])
    BY <1>1, <2>3
  <2>5. p = IF Exists(Hash(t)[f]) = (do = "if_there") THEN Rest(t) ELSE u
    <3>1. Exists(Hash(t)[f]) \in BOOLEAN
      BY DEF Exists
    <3> QED
      BY <1>2, <1>4, <2>2, <2>3, <3>1 DEF Hash
  <2> QED
    BY <2>4, <2>5
<1>6. \A j \in DOMAIN p : Allowed(p[j], c)
  <2>1. q # <<>> => \A j \in DOMAIN Tail(q) : Allowed(Tail(q)[j], c)
    BY <1>3, AllowedTail
  <2>2. \A j \in DOMAIN <<>> : Allowed(<<>>[j], c)
    BY AllowedNone
  <2> QED
    BY <1>3, <1>4, <2>1, <2>2
<1>7. c.op = "srem" => \A g \in Fields \ {0} : store[i.name][g] # Blank
  <2> SUFFICES ASSUME c.op = "srem", NEW g \in Fields \ {0} PROVE store[i.name][g] # Blank
    OBVIOUS
  <2>1. kind = "set"
    BY <1>3 DEF SoloInv, OfOneKind
  <2>2. i.name \in Names
    BY <1>3 DEF Instruction
  <2>3. store[i.name][g] \in {Itself(g), NoValue}
    BY <2>1, <2>2 DEF SoloInv, CollectionInv, TypeOK
  <2>4. NoValue # Blank /\ Text # Blank
    BY CollectionAssumption DEF SetAssumption, Value
  <2> QED
    BY <2>3, <2>4 DEF Itself
<1> HIDE DEF i, q, c, s
<1>8. ASSUME OnTime(t)
      PROVE  OnTheWay(c, s, store, p, got[t], list[t])
  <2>1. ~Deviates(c, s) /\ OnTheWay(c, s, store, <<i>> \o q, got[t], list[t])
    BY <1>3, <1>8 DEF OnTime, c, s
  <2>2. f \in i.fields /\ i.do \in {"if_there", "if_missing"}
    BY <1>1, <1>2 DEF i
  <2>3. PICK v, l : v = got[t] /\ l = list[t]
    OBVIOUS
  <2>4. OnTheWay(c, s, store, <<i>> \o q, v, l)
    BY <2>1, <2>3
  <2>5. OnTheWay(c, s, store, p, v, l)
    BY <1>3, <1>4, <1>7, <2>1, <2>2, <2>4, LookOn
  <2> QED
    BY <2>3, <2>5
<1> QED
  BY <1>1, <1>2, <1>5, <1>6, <1>8, LookAlone DEF c, s

\* The hget of HINCRBY.
LEMMA NumberOn ==
  ASSUME NEW c \in Request, NEW s, NEW r, NEW v, NEW l,
         NEW i \in Instruction, NEW q \in Seq(Instruction), NEW f \in i.fields,
         i.do = "hget_number", ~Deviates(c, s), r[i.name][f] \in Value \cup {NoValue},
         OnTheWay(c, s, r, <<i>> \o q, v, l),
         NEW p, p = IF r[i.name][f] = Text THEN <<>> ELSE q
  PROVE  OnTheWay(c, s, r, p, r[i.name][f], l)
<1>1. ~Finishing(c, s, r, <<i>> \o q) /\ ~Storing(c, s, r, <<i>> \o q, l)
  BY FinishingHead, StoringHead
<1>2. Reading(c, s, r, <<i>> \o q, v)
  BY <1>1 DEF OnTheWay
<1>3. Counting(c, s, i, q, v) /\ Unread(c, s, r)
  BY <1>2, ReadingHead, ReadingSplit
<1> DEFINE n == c.name
           g == c.fields[1]
           old == s[n][g]
           add == Adding(c)
<1>4. c.op = "hincrby" /\ c.fields = <<g>>
  BY <1>3 DEF Counting
<1>5. i = Call("hget_number", n, g, NoValue) /\ q = <<add>> /\ Exists(old)
  <2>1. \A x : Call("if_there", n, g, x).do # "hget_number" /\ Call("add", n, g, x).do # "hget_number"
    BY DEF Call
  <2> QED
    BY <1>3, <2>1 DEF Counting, Adding
<1>6. i.name = n /\ i.fields = {g}
  BY <1>5 DEF Call
<1>7. /\ FieldsOf(c) = {g} /\ g \in Fields /\ n \in OnNames(c)
      /\ After(c, s) = {CASE old = NoValue -> Written(c, s[n])
                          [] old \in Int   -> [s[n] EXCEPT ![g] = @ + c.values[1]]
                          [] OTHER         -> s[n]}
  BY <1>4, OneField, OfCommand DEF After
<1>8. f = g /\ old \notin {NoValue, Blank} /\ r[i.name][f] = old
  BY <1>3, <1>5, <1>6, <1>7 DEF Unread, Exists
<1>9. CASE old = Text
  <2>1. Text \notin Int
    BY CollectionAssumption DEF SetAssumption
  <2>2. s[n] \in After(c, s)
    BY <1>7, <1>8, <1>9, <2>1
  <2>3. \A x \in OnNames(c) : r[x][g] = s[x][g]
    BY <1>3, <1>7 DEF Unread
  <2> HIDE DEF n, g, old
  <2>4. \A x \in OnNames(c), y \in FieldsOf(c) : Target(c, s, s[n], x, y) = r[x][y]
    <3> SUFFICES ASSUME NEW x \in OnNames(c) PROVE Target(c, s, s[n], x, g) = r[x][g]
      BY <1>7
    <3>1. Target(c, s, s[n], x, g) = IF x = c.name THEN s[n][g] ELSE s[x][g]
      BY <1>4, OtherNames
    <3> QED
      BY <2>3, <3>1 DEF n
  <2>5. Finishing(c, s, r, <<>>)
    BY <2>2, <2>4, NothingLeft
  <2> QED
    BY <1>8, <1>9, <2>5 DEF OnTheWay
<1>10. CASE old # Text
  <2>1. old \in Int
    BY <1>8, <1>10 DEF Value
  <2>2. Reading(c, s, r, q, old)
    BY <1>3, <1>4, <1>5, <2>1 DEF Reading, Adding
  <2> QED
    BY <1>8, <1>10, <2>2 DEF OnTheWay
<1> QED
  BY <1>9, <1>10

LEMMA GetNumberCall ==
  ASSUME SoloInv, CollectionInv', NEW t \in Threads, GetNumber(t)
  PROVE  SoloInv' /\ RepliesLikeRedis
<1>1. PICK f : /\ Calls(t, "hget_number") /\ f \in Now(t).fields
               /\ LET p == IF Hash(t)[f] = Text THEN <<>> ELSE Rest(t)
                  IN Goes(t, p) /\ Keeps(t, p, Hash(t)[f], list[t])
               /\ UNCHANGED <<kind, store, ops, faults, kept>>
  BY DEF GetNumber
<1>2. prog[t] # <<>> /\ Now(t).do = "hget_number"
  BY <1>1 DEF Calls
<1> DEFINE i == Now(t)
           q == Rest(t)
           c == cmd[t]
           s == before[t]
<1>3. /\ i \in Instruction /\ q \in Seq(Instruction) /\ c \in Request
      /\ Allowed(i, c) /\ \A j \in DOMAIN q : Allowed(q[j], c)
      /\ OnTime(t) => OnTheWay(c, s, store, <<i>> \o q, got[t], list[t])
  BY <1>2, Here
<1>4. PICK p : p = IF store[i.name][f] = Text THEN <<>> ELSE q
  OBVIOUS
<1>5. Goes(t, p) /\ Keeps(t, p, store[i.name][f], list[t])
  BY <1>1, <1>4 DEF Hash
<1>6. \A j \in DOMAIN p : Allowed(p[j], c)
  BY <1>3, <1>4, AllowedNone
<1>7. store[i.name][f] \in Value \cup {NoValue}
  <2>1. i.name \in Names /\ f \in Fields
    BY <1>1, <1>3 DEF Instruction
  <2>2. store[i.name][f] \in OfKind(kind) /\ kind \in {"hash", "set", "zset"}
    BY <1>2, <2>1, Records, Current DEF SoloInv
  <2> QED
    BY <2>2 DEF OfKind, Value
<1> HIDE DEF i, q, c, s
<1>8. ASSUME OnTime(t)
      PROVE  OnTheWay(c, s, store, p, store[i.name][f], list[t])
  <2>1. ~Deviates(c, s) /\ OnTheWay(c, s, store, <<i>> \o q, got[t], list[t])
    BY <1>3, <1>8 DEF OnTime, c, s
  <2>2. f \in i.fields /\ i.do = "hget_number"
    BY <1>1, <1>2 DEF i
  <2>3. PICK v, l : v = got[t] /\ l = list[t]
    OBVIOUS
  <2>4. OnTheWay(c, s, store, <<i>> \o q, v, l)
    BY <2>1, <2>3
  <2>5. OnTheWay(c, s, store, p, store[i.name][f], l)
    BY <1>3, <1>4, <1>7, <2>1, <2>2, <2>4, NumberOn
  <2> QED
    BY <2>3, <2>5
<1> QED
  BY <1>1, <1>2, <1>5, <1>6, <1>8, LookAlone DEF c, s

\* The hget of SMOVE.
LEMMA MemberOn ==
  ASSUME NEW c \in Request, NEW s, NEW r, NEW v, NEW l,
         NEW i \in Instruction, NEW q \in Seq(Instruction), NEW f \in i.fields,
         i.do = "hget_member", r[i.name][f] \in {Itself(f), NoValue},
         NEW V, s \in [Names -> [Fields -> V]],
         OnTheWay(c, s, r, <<i>> \o q, v, l),
         NEW p, p = IF r[i.name][f] = NoValue THEN <<>> ELSE q
  PROVE  OnTheWay(c, s, r, p, NoValue, l)
<1>1. ~Finishing(c, s, r, <<i>> \o q) /\ ~Storing(c, s, r, <<i>> \o q, l)
  BY FinishingHead, StoringHead
<1>2. Reading(c, s, r, <<i>> \o q, v)
  BY <1>1 DEF OnTheWay
<1>3. Moving(c, i, q) /\ Unread(c, s, r)
  BY <1>2, ReadingHead, ReadingSplit
<1> DEFINE n == c.name
           g == c.fields[1]
           d == c.from[1]
           h == s[n]
           take == Call("hdel", n, g, NoValue)
           put == Call("hset_member", d, g, NoValue)
<1>4. /\ c.op = "smove" /\ c.fields = <<g>> /\ c.from = <<d>>
      /\ i.name = n /\ i.fields = {g} /\ q = <<take, put>>
  BY <1>3, CallIs DEF Moving
<1>5. /\ FieldsOf(c) = {g} /\ g \in Fields /\ n \in OnNames(c)
      /\ After(c, s) = {IF d = n THEN h ELSE Without(h, {g})}
  BY <1>4, OneField, OfCommand DEF After
<1>6. OnNames(c) = {n, d}
  <2>1. Range(c.from) = {d}
    BY <1>4 DEF Range
  <2> QED
    BY <1>4, <2>1 DEF OnNames
<1>7. f = g /\ r[n][g] = h[g] /\ r[d][g] = s[d][g] /\ r[i.name][f] = h[g]
  BY <1>3, <1>4, <1>5, <1>6 DEF Unread
<1>8. Without(h, {g})[g] = NoValue
  BY <1>5 DEF Without
<1>9. PICK a : a \in After(c, s) /\ a[g] = IF d = n THEN h[g] ELSE NoValue
  BY <1>5, <1>8
<1>10. CASE h[g] = NoValue
  <2>1. \A x \in OnNames(c), y \in FieldsOf(c) : Target(c, s, a, x, y) = r[x][y]
    <3> SUFFICES ASSUME NEW x \in OnNames(c) PROVE Target(c, s, a, x, g) = r[x][g]
      BY <1>5
    <3>1. AfterOther(c, s, x) = s[x]
      BY <1>4, <1>10 DEF AfterOther
    <3> HIDE DEF n, g, d, h
    <3> QED
      BY <1>6, <1>7, <1>9, <1>10, <3>1 DEF Target, n
  <2>2. Finishing(c, s, r, <<>>)
    BY <1>9, <2>1, NothingLeft
  <2> QED
    BY <1>7, <1>10, <2>2 DEF OnTheWay
<1>11. CASE h[g] # NoValue
  <2>1. h[g] = Itself(g)
    BY <1>7, <1>11
  <2>2. AfterOther(c, s, d) = [s[d] EXCEPT ![g] = Itself(g)]
    BY <1>4, <1>11 DEF AfterOther
  <2>3. AfterOther(c, s, d)[g] = Itself(g)
    <3>1. d \in Names
      BY <1>6, OfCommand
    <3>2. s[d] \in [Fields -> V]
      BY <3>1
    <3> HIDE DEF d, g
    <3> QED
      BY <1>5, <2>2, <3>2
  <2>4. p = <<take, put>>
    BY <1>4, <1>7, <1>11
  <2>5. /\ take.do \in Writes /\ put.do \in Writes
        /\ \A x, y : About(take, x, y) <=> x = n /\ y = g
        /\ \A x, y : About(put, x, y) <=> x = d /\ y = g
        /\ \A y : Leaves(take, y) = NoValue /\ Leaves(put, y) = Itself(y)
    BY CallIs DEF Writes
  <2> HIDE DEF take, put, n, g, d, h
  <2>6. Steady(c, p)
    BY <2>4, <2>5 DEF Steady
  <2>7. \A x \in OnNames(c), y \in FieldsOf(c) : Ends(p, r[x][y], x, y, Target(c, s, a, x, y))
    <3> SUFFICES ASSUME NEW x \in OnNames(c) PROVE Ends(p, r[x][g], x, g, Target(c, s, a, x, g))
      BY <1>5
    <3>1. DOMAIN p = {1, 2} /\ p[1] = take /\ p[2] = put
      <4>1. DOMAIN <<take, put>> = 1..2 /\ <<take, put>>[1] = take /\ <<take, put>>[2] = put
        OBVIOUS
      <4>2. 1..2 = {1, 2}
        OBVIOUS
      <4> QED
        BY <2>4, <4>1, <4>2
    <3>2. CASE x = d
      <4>1. Target(c, s, a, x, g) = Itself(g)
        BY <1>9, <2>1, <2>3, <3>2 DEF Target, n, h
      <4>2. About(p[2], x, g) /\ Leaves(p[2], g) = Itself(g) /\ \A j \in DOMAIN p : ~(2 < j)
        BY <2>5, <3>1, <3>2
      <4> QED
        BY <3>1, <4>1, <4>2 DEF Ends
    <3>3. CASE x # d
      <4>1. x = n
        BY <1>6, <3>3
      <4>2. Target(c, s, a, x, g) = NoValue
        BY <1>9, <3>3, <4>1 DEF Target, n
      <4>3. About(p[1], x, g) /\ Leaves(p[1], g) = NoValue /\ \A j \in DOMAIN p : 1 < j => ~About(p[j], x, g)
        BY <2>5, <3>1, <3>3, <4>1
      <4> QED
        BY <3>1, <4>2, <4>3 DEF Ends
    <3> QED
      BY <3>2, <3>3
  <2>8. Finishing(c, s, r, p)
    BY <1>9, <2>6, <2>7, FinishingBy
  <2> QED
    BY <2>8 DEF OnTheWay
<1> QED
  BY <1>10, <1>11

LEMMA GetMemberCall ==
  ASSUME SoloInv, CollectionInv', NEW t \in Threads, GetMember(t)
  PROVE  SoloInv' /\ RepliesLikeRedis
<1>1. PICK f : /\ Calls(t, "hget_member") /\ f \in Now(t).fields
               /\ LET p == IF Hash(t)[f] = NoValue THEN <<>> ELSE Rest(t)
                  IN Goes(t, p) /\ Keeps(t, p, NoValue, list[t])
               /\ UNCHANGED <<kind, store, ops, faults, kept>>
  BY DEF GetMember
<1>2. prog[t] # <<>> /\ Now(t).do = "hget_member"
  BY <1>1 DEF Calls
<1> DEFINE i == Now(t)
           q == Rest(t)
           c == cmd[t]
           s == before[t]
<1>3. /\ i \in Instruction /\ q \in Seq(Instruction) /\ c \in Request /\ c # NoCmd
      /\ Allowed(i, c) /\ \A j \in DOMAIN q : Allowed(q[j], c)
      /\ OnTime(t) => OnTheWay(c, s, store, <<i>> \o q, got[t], list[t])
  BY <1>2, Here
<1>4. PICK p : p = IF store[i.name][f] = NoValue THEN <<>> ELSE q
  OBVIOUS
<1>5. Goes(t, p) /\ Keeps(t, p, NoValue, list[t])
  BY <1>1, <1>4 DEF Hash
<1>6. \A j \in DOMAIN p : Allowed(p[j], c)
  BY <1>3, <1>4, AllowedNone
<1>7. c.op = "smove" => store[i.name][f] \in {Itself(f), NoValue}
  <2>1. c.op = "smove" => kind = "set"
    BY <1>3 DEF SoloInv, OfOneKind
  <2>2. i.name \in Names /\ f \in Fields
    BY <1>1, <1>3 DEF Instruction
  <2> QED
    BY <2>1, <2>2 DEF SoloInv, CollectionInv, TypeOK
<1>8. s \in [Names -> [Fields -> OfKind(kind)]]
  BY Records
<1> HIDE DEF i, q, c, s
<1>9. ASSUME OnTime(t)
      PROVE  OnTheWay(c, s, store, p, NoValue, list[t])
  <2>1. OnTheWay(c, s, store, <<i>> \o q, got[t], list[t])
    BY <1>3, <1>9
  <2>2. f \in i.fields /\ i.do = "hget_member"
    BY <1>1, <1>2 DEF i
  <2>3. PICK v, l : v = got[t] /\ l = list[t]
    OBVIOUS
  <2>4. OnTheWay(c, s, store, <<i>> \o q, v, l)
    BY <2>1, <2>3
  <2>5. c.op = "smove"
    <3>1. ~Finishing(c, s, store, <<i>> \o q) /\ ~Storing(c, s, store, <<i>> \o q, l)
      BY <1>3, <2>2, FinishingHead, StoringHead
    <3>2. Moving(c, i, q)
      BY <1>3, <2>2, <2>4, <3>1, ReadingHead DEF OnTheWay
    <3> QED
      BY <3>2 DEF Moving
  <2>6. OnTheWay(c, s, store, p, NoValue, l)
    BY <1>3, <1>4, <1>7, <1>8, <2>2, <2>4, <2>5, MemberOn
  <2> QED
    BY <2>3, <2>6
<1> QED
  BY <1>1, <1>2, <1>5, <1>6, <1>9, LookAlone DEF c, s

\* The hget of ZINCRBY.
LEMMA ScoreOn ==
  ASSUME NEW c \in Request, NEW s, NEW r, NEW v, NEW l,
         NEW i \in Instruction, NEW q \in Seq(Instruction), NEW f \in i.fields,
         i.do = "hget_score", ~Deviates(c, s), OnTheWay(c, s, r, <<i>> \o q, v, l)
  PROVE  r[i.name][f] # NoValue /\ OnTheWay(c, s, r, q, r[i.name][f], l)
<1>1. ~Finishing(c, s, r, <<i>> \o q) /\ ~Storing(c, s, r, <<i>> \o q, l)
  BY FinishingHead, StoringHead
<1>2. Reading(c, s, r, <<i>> \o q, v)
  BY <1>1 DEF OnTheWay
<1>3. Scoring(c, s, i, q, v) /\ Unread(c, s, r)
  BY <1>2, ReadingHead, ReadingSplit
<1> DEFINE n == c.name
           g == c.fields[1]
<1>4. c.op = "zincrby" /\ c.fields = <<g>>
  BY <1>3 DEF Scoring
<1>5. i = Call("hget_score", n, g, c.values[1]) /\ q = <<Adding(c)>>
  <2>1. \A x : Call("add", n, g, x).do # "hget_score"
    BY DEF Call
  <2> QED
    BY <1>3, <2>1 DEF Scoring, Adding
<1>6. i.name = n /\ i.fields = {g}
  BY <1>5 DEF Call
<1>7. FieldsOf(c) = {g} /\ g \in Fields /\ n \in OnNames(c)
  BY <1>4, OneField, OfCommand
<1>8. f = g /\ r[i.name][f] = s[n][g] /\ s[n][g] # NoValue
  BY <1>3, <1>4, <1>6, <1>7 DEF Unread, Deviates
<1>9. Reading(c, s, r, q, r[i.name][f])
  BY <1>3, <1>4, <1>5, <1>8 DEF Reading, Adding
<1> QED
  BY <1>8, <1>9 DEF OnTheWay

LEMMA GetScoreCall ==
  ASSUME SoloInv, CollectionInv', NEW t \in Threads, GetScore(t)
  PROVE  SoloInv' /\ RepliesLikeRedis
<1>1. PICK f \in Now(t).fields, junk \in Junk :
        /\ Calls(t, "hget_score")
        /\ LET none == Hash(t)[f] = NoValue
               p    == (IF none THEN <<Call("hset", Now(t).name, f, Now(t).value)>> ELSE <<>>) \o Rest(t)
           IN Goes(t, p) /\ Keeps(t, p, IF none THEN junk ELSE Hash(t)[f], list[t])
        /\ UNCHANGED <<kind, store, ops, faults, kept>>
  BY DEF GetScore
<1>2. prog[t] # <<>> /\ Now(t).do = "hget_score"
  BY <1>1 DEF Calls
<1> DEFINE i == Now(t)
           q == Rest(t)
           c == cmd[t]
           s == before[t]
<1>3. /\ i \in Instruction /\ q \in Seq(Instruction) /\ c \in Request
      /\ Allowed(i, c) /\ \A j \in DOMAIN q : Allowed(q[j], c)
      /\ OnTime(t) => OnTheWay(c, s, store, <<i>> \o q, got[t], list[t])
  BY <1>2, Here
<1>4. PICK p, v : /\ p = IF store[i.name][f] = NoValue THEN <<Call("hset", i.name, f, i.value)>> \o q ELSE q
                  /\ v = IF store[i.name][f] = NoValue THEN junk ELSE store[i.name][f]
  OBVIOUS
<1>5. Goes(t, p) /\ Keeps(t, p, v, list[t])
  <2>1. <<>> \o q = q
    BY <1>3, ConcatEmptySeq
  <2>2. p = (IF Hash(t)[f] = NoValue THEN <<Call("hset", Now(t).name, f, Now(t).value)>> ELSE <<>>) \o Rest(t)
    BY <1>4, <2>1 DEF Hash
  <2>3. v = IF Hash(t)[f] = NoValue THEN junk ELSE Hash(t)[f]
    BY <1>4 DEF Hash
  <2> QED
    BY <1>1, <2>2, <2>3
<1>6. \A j \in DOMAIN p : Allowed(p[j], c)
  <2>1. PICK x : x = Call("hset", i.name, f, i.value)
    OBVIOUS
  <2>2. Allowed(x, c)
    <3>1. i.name \in OnNames(c) /\ f \in FieldsOf(c)
      BY <1>1, <1>3 DEF Allowed
    <3> QED
      BY <2>1, <3>1, CallAllowed
  <2>3. \A j \in DOMAIN (<<x>> \o q) : Allowed((<<x>> \o q)[j], c)
    BY <1>3, <2>2, AllowedPushed
  <2> QED
    BY <1>3, <1>4, <2>1, <2>3
<1> HIDE DEF i, q, c, s
<1>7. ASSUME OnTime(t)
      PROVE  OnTheWay(c, s, store, p, v, list[t])
  <2>1. ~Deviates(c, s) /\ OnTheWay(c, s, store, <<i>> \o q, got[t], list[t])
    BY <1>3, <1>7 DEF OnTime, c, s
  <2>2. f \in i.fields /\ i.do = "hget_score"
    BY <1>1, <1>2 DEF i
  <2>3. PICK w, l : w = got[t] /\ l = list[t]
    OBVIOUS
  <2>4. OnTheWay(c, s, store, <<i>> \o q, w, l)
    BY <2>1, <2>3
  <2>5. store[i.name][f] # NoValue /\ OnTheWay(c, s, store, q, store[i.name][f], l)
    BY <1>3, <2>1, <2>2, <2>4, ScoreOn
  <2> QED
    BY <1>4, <2>3, <2>5
<1> QED
  BY <1>1, <1>2, <1>5, <1>6, <1>7, LookAlone DEF c, s

\* HINCRBY and ZINCRBY write one record.
PutInto(r, r2, n, f, w) ==
  \A m \in Names, g \in Fields : r2[m][g] = IF m = n /\ g = f THEN w ELSE r[m][g]

LEMMA AddOn ==
  ASSUME NEW c \in Request, NEW s, NEW r, NEW r2, NEW v, NEW l,
         NEW i \in Instruction, NEW q \in Seq(Instruction), NEW f \in i.fields,
         i.do = "add", i.value \in Int, ~Deviates(c, s),
         DOMAIN s[c.name] = Fields,
         c.op = "zincrby" => s[c.name][f] \in Int \cup {NoValue},
         PutInto(r, r2, i.name, f, Number(v) + i.value),
         OnTheWay(c, s, r, <<i>> \o q, v, l)
  PROVE  OnTheWay(c, s, r2, q, NoValue, l)
<1>1. ~Finishing(c, s, r, <<i>> \o q) /\ ~Storing(c, s, r, <<i>> \o q, l)
  BY FinishingHead, StoringHead
<1>2. Reading(c, s, r, <<i>> \o q, v)
  BY <1>1 DEF OnTheWay
<1>3. (Counting(c, s, i, q, v) \/ Scoring(c, s, i, q, v)) /\ Unread(c, s, r)
  BY <1>2, ReadingHead, ReadingSplit
<1> DEFINE n == c.name
           g == c.fields[1]
           w == c.values[1]
           h == s[n]
<1>4. c.fields = <<g>> /\ c.op \in {"hincrby", "zincrby"}
  BY <1>3 DEF Counting, Scoring
<1>5. \A x : /\ Call("hget_score", n, g, x).do # "add" /\ Call("hget_number", n, g, x).do # "add"
             /\ Call("if_there", n, g, x).do # "add"
  BY DEF Call
<1>6. i = Adding(c) /\ q = <<>> /\ v = h[g]
  BY <1>3, <1>5 DEF Counting, Scoring
<1>7. i.name = n /\ i.fields = {g} /\ i.value = w
  BY <1>6 DEF Adding, Call
<1>8. FieldsOf(c) = {g} /\ g \in Fields /\ n \in OnNames(c) /\ OnNames(c) \subseteq Names
  BY <1>4, OneField, OfCommand
<1>9. f = g /\ w \in Int
  BY <1>7
<1>10. NoValue \notin Int
  BY CollectionAssumption DEF SetAssumption, Value
<1>11. DOMAIN h = Fields
  OBVIOUS
<1>12. \E a \in After(c, s) : a[g] = Number(v) + w
  <2>1. CASE h[g] = NoValue
    <3>1. c.op = "hincrby"
      BY <1>4, <2>1 DEF Deviates
    <3>2. Written(c, h) \in After(c, s)
      BY <1>10, <2>1, <3>1 DEF After
    <3>3. Written(c, h)[g] = w
      BY <1>4, <1>8, WrittenOne
    <3>4. Number(v) = 0
      BY <1>6, <1>10, <2>1 DEF Number
    <3>5. Number(v) + w = w
      BY <1>9, <3>4
    <3> QED
      BY <3>2, <3>3, <3>5
  <2>2. CASE h[g] # NoValue
    <3>1. h[g] \in Int
      <4>1. CASE Counting(c, s, i, q, v)
        BY <1>5, <1>6, <2>2, <4>1 DEF Counting, Adding
      <4>2. CASE Scoring(c, s, i, q, v)
        BY <1>9, <2>2, <4>2 DEF Scoring
      <4> QED
        BY <1>3, <4>1, <4>2
    <3>2. PICK a : a = [h EXCEPT ![g] = @ + w]
      OBVIOUS
    <3>3. a \in After(c, s)
      <4>1. c.op = "hincrby" => After(c, s) = {a}
        BY <2>2, <3>1, <3>2 DEF After
      <4>2. c.op = "zincrby" => After(c, s) = {a}
        BY <2>2, <3>2 DEF After
      <4> QED
        BY <1>4, <4>1, <4>2
    <3>4. a[g] = h[g] + w
      <4> HIDE DEF h, g, w
      <4> QED
        BY <1>8, <1>11, <3>2
    <3>5. Number(v) = h[g]
      BY <1>6, <3>1 DEF Number
    <3> QED
      BY <3>3, <3>4, <3>5
  <2> QED
    BY <2>1, <2>2
<1>13. PICK a \in After(c, s) : a[g] = Number(v) + w
  BY <1>12
<1> HIDE DEF n, g, w, h
<1>14. \A x \in OnNames(c), y \in FieldsOf(c) : Target(c, s, a, x, y) = r2[x][y]
  <2> SUFFICES ASSUME NEW x \in OnNames(c) PROVE Target(c, s, a, x, g) = r2[x][g]
    BY <1>8
  <2>1. Target(c, s, a, x, g) = IF x = c.name THEN a[g] ELSE s[x][g]
    BY <1>4, OtherNames
  <2>2. r2[x][g] = IF x = n THEN Number(v) + w ELSE r[x][g]
    BY <1>7, <1>8, <1>9 DEF PutInto
  <2>3. r[x][g] = s[x][g]
    BY <1>3, <1>8 DEF Unread
  <2> QED
    BY <1>13, <2>1, <2>2, <2>3 DEF n
<1>15. Finishing(c, s, r2, <<>>)
  BY <1>14, NothingLeft
<1> QED
  BY <1>6, <1>15 DEF OnTheWay

LEMMA AddCall ==
  ASSUME SoloInv, CollectionInv', NEW t \in Threads, Add(t)
  PROVE  SoloInv' /\ RepliesLikeRedis
<1>1. PICK f : /\ Calls(t, "add") /\ f \in Now(t).fields
               /\ store' = [store EXCEPT ![Now(t).name][f] = Number(got[t]) + Now(t).value]
               /\ Goes(t, Rest(t)) /\ Keeps(t, Rest(t), NoValue, list[t])
               /\ kind' = kind
  BY DEF Add
<1>2. prog[t] # <<>> /\ Now(t).do = "add"
  BY <1>1 DEF Calls
<1> DEFINE i == Now(t)
           q == Rest(t)
           c == cmd[t]
           s == before[t]
<1>3. /\ i \in Instruction /\ i \in Proper(kind) /\ q \in Seq(Instruction) /\ c \in Request /\ c # NoCmd
      /\ Allowed(i, c) /\ \A j \in DOMAIN q : Allowed(q[j], c)
      /\ OnTime(t) => OnTheWay(c, s, store, <<i>> \o q, got[t], list[t])
  BY <1>2, Here
<1>4. i.value \in Int
  BY <1>2, <1>3 DEF Proper
<1>5. i.name \in OnNames(c) /\ f \in FieldsOf(c) /\ i.name \in Names /\ f \in Fields /\ c.name \in Names
  BY <1>1, <1>3, OfCommand DEF Allowed, Instruction
<1>6. s \in [Names -> [Fields -> OfKind(kind)]]
  BY Records
<1>7. c.op = "zincrby" => s[c.name][f] \in Int \cup {NoValue}
  <2>1. c.op = "zincrby" => kind = "zset"
    BY <1>3 DEF SoloInv, OfOneKind
  <2>2. s[c.name][f] \in OfKind(kind)
    BY <1>5, <1>6
  <2> QED
    BY <2>1, <2>2 DEF OfKind
<1>8. PICK v, l : v = got[t] /\ l = list[t]
  OBVIOUS
<1>9. PICK r2 : r2 = store'
  OBVIOUS
<1>10. \A n \in Names, g \in Fields :
         r2[n][g] = IF n = i.name /\ g = f THEN Number(v) + i.value ELSE store[n][g]
  BY <1>1, <1>5, <1>8, <1>9, Records
<1> HIDE DEF i, q, c, s
<1>11. \A n \in Names, g \in Fields : <<n, g>> \notin Touched(c) => store'[n][g] = store[n][g]
  BY <1>3, <1>5, <1>9, <1>10, OfCommand
<1>12. ASSUME OnTime(t)
       PROVE  OnTheWay(c, s, store', q, NoValue, list[t])
  <2>1. ~Deviates(c, s) /\ OnTheWay(c, s, store, <<i>> \o q, v, l)
    BY <1>3, <1>8, <1>12 DEF OnTime, c, s
  <2>2. f \in i.fields /\ i.do = "add"
    BY <1>1, <1>2 DEF i
  <2>3. OnTheWay(c, s, r2, q, NoValue, l)
    <3>1. DOMAIN s[c.name] = Fields
      BY <1>5, <1>6
    <3>2. c \in Request /\ i \in Instruction /\ q \in Seq(Instruction)
      BY <1>3
    <3>3. ~Deviates(c, s) /\ OnTheWay(c, s, store, <<i>> \o q, v, l)
      BY <2>1
    <3>4. PutInto(store, r2, i.name, f, Number(v) + i.value)
      BY <1>10 DEF PutInto
    <3> QED
      BY <1>4, <1>7, <2>2, <3>1, <3>2, <3>3, <3>4, AddOn
  <2> QED
    BY <1>8, <1>9, <2>3
<1>13. Goes(t, q) /\ Keeps(t, q, NoValue, list[t]) /\ kind' = kind
  BY <1>1 DEF q
<1> QED
  BY <1>2, <1>3, <1>11, <1>12, <1>13, StepAlone DEF OnTime, c, s

\* ZREMRANGEBYRANK deletes the slice that Redis defines.
LEMMA RanksAreSlice ==
  ASSUME NEW h, \A f \in Members(h) : h[f] \in Int, NEW i \in Int, NEW j \in Int,
         i < Card(h), j >= -Card(h)
  PROVE  ByRank(h, i, j) = Range(RedisSlice(Ascending(h), i, j))
<1>1. PICK s : s = Ascending(h)
  OBVIOUS
<1>2. s \in Seq(Fields) /\ Range(s) = Members(h) /\ Distinct(s) /\ Len(s) = Card(h)
  BY <1>1, AscendingIs, CollectionAssumption
<1>3. RedisSlice(s, i, j) = ZRange(s, i, j)
  BY <1>2, RangeLikeRedis
<1>4. ByRank(h, i, j) = {f \in Range(s) : ZRank(s, f) \in ToIndex(i, Len(s))..ToIndex(j, Len(s))}
  BY <1>1, <1>2 DEF ByRank
<1>5. CASE s = <<>>
  <2>1. Range(s) = {}
    BY <1>5 DEF Range
  <2>2. Range(ZRange(s, i, j)) = {}
    BY <1>5 DEF ZRange, Range
  <2> QED
    BY <1>1, <1>3, <1>4, <2>1, <2>2
<1>6. CASE s # <<>>
  <2>1. Len(s) \in Nat /\ Len(s) >= 1
    BY <1>2, <1>6, EmptySeq
  <2>2. PICK a, b : a = ToIndex(i, Len(s)) /\ b = ToIndex(j, Len(s))
    OBVIOUS
  <2>3. a \in 0..Len(s) - 1 /\ b \in 0..Len(s) - 1
    BY <2>1, <2>2 DEF ToIndex, FromEnd, CutToList
  <2>4. PICK w : w = SubSeq(s, a + 1, b + 1)
    OBVIOUS
  <2>5. ZRange(s, i, j) = w
    BY <1>6, <2>2, <2>4 DEF ZRange
  <2>6. /\ w \in Seq(Fields) /\ Len(w) = IF a + 1 <= b + 1 THEN b + 1 - (a + 1) + 1 ELSE 0
        /\ \A k \in 1..b + 1 - (a + 1) + 1 : w[k] = s[a + 1 + k - 1]
    <3>1. a + 1 \in Int /\ b + 1 \in Int /\ \A k \in a + 1..b + 1 : s[k] \in Fields
      <4>1. \A k \in a + 1..b + 1 : k \in 1..Len(s)
        BY <2>1, <2>3
      <4> QED
        BY <1>2, <2>3, <4>1, ElementOfSeq
    <3>2. PICK m, n : m = a + 1 /\ n = b + 1
      OBVIOUS
    <3>3. /\ SubSeq(s, m, n) \in Seq(Fields) /\ Len(SubSeq(s, m, n)) = IF m <= n THEN n - m + 1 ELSE 0
          /\ \A k \in 1..n - m + 1 : SubSeq(s, m, n)[k] = s[m + k - 1]
      BY <3>1, <3>2, SubSeqProperties
    <3>4. SubSeq(s, m, n) = w
      BY <2>4, <3>2
    <3>5. /\ w \in Seq(Fields) /\ Len(w) = IF m <= n THEN n - m + 1 ELSE 0
          /\ \A k \in 1..n - m + 1 : w[k] = s[m + k - 1]
      BY <3>3, <3>4
    <3>6. Len(w) = IF a + 1 <= b + 1 THEN b + 1 - (a + 1) + 1 ELSE 0
      BY <2>1, <2>3, <3>2, <3>5
    <3>7. ASSUME NEW k \in 1..b + 1 - (a + 1) + 1 PROVE w[k] = s[a + 1 + k - 1]
      <4>1. k \in 1..n - m + 1 /\ m + k - 1 = a + 1 + k - 1
        BY <2>1, <2>3, <3>2
      <4>2. w[k] = s[m + k - 1]
        BY <3>5, <4>1
      <4> QED
        BY <4>1, <4>2
    <3> QED
      BY <3>5, <3>6, <3>7
  <2>7. Range(w) = {s[k] : k \in a + 1..b + 1}
    <3>1. DOMAIN w = 1..Len(w)
      BY <2>6
    <3>2. ASSUME NEW x \in Range(w) PROVE \E k \in a + 1..b + 1 : x = s[k]
      <4>1. PICK m \in 1..Len(w) : x = w[m]
        BY <3>1, <3>2 DEF Range
      <4>2. m \in 1..b + 1 - (a + 1) + 1 /\ a + 1 + m - 1 = a + m /\ a + m \in a + 1..b + 1
        BY <2>3, <2>6, <4>1
      <4> QED
        BY <2>6, <4>1, <4>2
    <3>3. ASSUME NEW k \in a + 1..b + 1 PROVE s[k] \in Range(w)
      <4>1. /\ k - a \in 1..Len(w) /\ k - a \in 1..b + 1 - (a + 1) + 1 /\ a + 1 + (k - a) - 1 = k
        <5>1. a \in Int /\ b \in Int /\ k \in Int /\ a + 1 <= k /\ k <= b + 1
          BY <2>1, <2>3
        <5>2. a + 1 <= b + 1 /\ b + 1 - (a + 1) + 1 = b - a + 1
          BY <5>1
        <5>3. Len(w) = b - a + 1
          BY <2>6, <5>2
        <5> QED
          BY <5>1, <5>2, <5>3
      <4>2. w[k - a] = s[k]
        BY <2>6, <4>1
      <4> QED
        BY <3>1, <4>1, <4>2 DEF Range
    <3> QED
      BY <3>2, <3>3
  <2>8. \A k \in 1..Len(s) : ZRank(s, s[k]) = k - 1
    BY <1>2, RankIs
  <2>9. {f \in Range(s) : ZRank(s, f) \in a..b} = {s[k] : k \in a + 1..b + 1}
    <3>1. DOMAIN s = 1..Len(s)
      BY <1>2
    <3>2. ASSUME NEW f \in Range(s), ZRank(s, f) \in a..b PROVE \E k \in a + 1..b + 1 : f = s[k]
      <4>1. PICK k \in 1..Len(s) : f = s[k]
        BY <3>1 DEF Range
      <4>2. k - 1 \in a..b
        BY <2>8, <3>2, <4>1
      <4>3. k \in a + 1..b + 1
        BY <2>3, <4>1, <4>2
      <4> QED
        BY <4>1, <4>3
    <3>3. ASSUME NEW k \in a + 1..b + 1 PROVE s[k] \in Range(s) /\ ZRank(s, s[k]) \in a..b
      <4>1. k \in 1..Len(s) /\ k - 1 \in a..b
        BY <2>1, <2>3
      <4> QED
        BY <2>8, <3>1, <4>1 DEF Range
    <3> QED
      BY <3>2, <3>3
  <2> QED
    BY <1>1, <1>3, <1>4, <2>2, <2>5, <2>7, <2>9
<1> QED
  BY <1>5, <1>6

\* What a walk finds.
Finds(c, i, h, fs) ==
  /\ i.do = "hclear"   => fs = Members(h)
  /\ i.do = "spop"     => fs \in IF Members(h) = {} THEN {{}} ELSE {{f} : f \in Members(h)}
  /\ i.do = "by_rank"  => fs = ByRank(h, c.low, c.high)
  /\ i.do = "by_score" => fs = ByScore(h, c.low, c.high)

LEMMA EachEnds ==
  ASSUME NEW n, NEW fs, NEW m, NEW f, NEW old
  PROVE  Ends(Each("hdel", n, fs), old, m, f, IF m = n /\ f \in fs THEN NoValue ELSE old)
<1>1. CASE fs = {}
  <2>1. Each("hdel", n, fs) = <<>>
    BY <1>1 DEF Each
  <2> QED
    BY <1>1, <2>1, EndsNow
<1>2. CASE fs # {}
  <2>1. PICK x : x = [do |-> "hdel", name |-> n, fields |-> fs, value |-> NoValue]
    OBVIOUS
  <2>2. Each("hdel", n, fs) = <<x>>
    BY <1>2, <2>1 DEF Each
  <2>3. (About(x, m, f) <=> m = n /\ f \in fs) /\ Leaves(x, f) = NoValue
    BY <2>1 DEF About, Leaves
  <2>4. DOMAIN <<x>> = {1} /\ <<x>>[1] = x
    OBVIOUS
  <2>5. CASE About(x, m, f)
    BY <2>2, <2>3, <2>4, <2>5 DEF Ends
  <2>6. CASE ~About(x, m, f)
    BY <2>2, <2>3, <2>4, <2>6 DEF Ends
  <2> QED
    BY <2>5, <2>6
<1> QED
  BY <1>1, <1>2

LEMMA WalkOn ==
  ASSUME NEW c \in Request, NEW s, NEW r, NEW v, NEW l,
         NEW i \in Instruction, NEW q \in Seq(Instruction), NEW fs, ~Deviates(c, s),
         i.do \in {"spop", "by_rank", "by_score"},
         r[c.name] = s[c.name],
         c.op = "by_rank" => \A f \in Members(s[c.name]) : s[c.name][f] \in Int,
         Finds(c, i, r[c.name], fs),
         OnTheWay(c, s, r, <<i>> \o q, v, l)
  PROVE  q = <<>> /\ OnTheWay(c, s, r, Each("hdel", i.name, fs), NoValue, l)
<1>1. ~Finishing(c, s, r, <<i>> \o q) /\ ~Storing(c, s, r, <<i>> \o q, l)
  BY FinishingHead, StoringHead
<1>2. Reading(c, s, r, <<i>> \o q, v)
  BY <1>1 DEF OnTheWay
<1>3. Walking(c, i, q) /\ Unread(c, s, r)
  BY <1>2, ReadingHead, ReadingSplit
<1> DEFINE n == c.name
           h == s[n]
<1>4. c.op \in {"spop", "by_rank", "by_score"} /\ i.do = c.op /\ i.name = n /\ q = <<>> /\ c.fields = <<>>
  BY <1>3, WholeIs DEF Walking
<1>5. FieldsOf(c) = Fields /\ n \in OnNames(c)
  BY <1>4, OfCommand DEF FieldsOf
<1>6. \E a \in After(c, s) : \A f \in Fields : a[f] = IF f \in fs THEN NoValue ELSE h[f]
  <2>1. \A f \in Fields : Without(h, fs)[f] = IF f \in fs THEN NoValue ELSE h[f]
    BY DEF Without
  <2>2. CASE c.op = "spop"
    <3>1. After(c, s) = IF Members(h) = {} THEN {h} ELSE {Without(h, {x}) : x \in Members(h)}
      BY <2>2 DEF After
    <3>2. CASE Members(h) = {}
      <4>1. fs = {} /\ h \in After(c, s)
        BY <1>4, <2>2, <3>1, <3>2 DEF Finds
      <4> QED
        BY <4>1
    <3>3. CASE Members(h) # {}
      <4>1. Without(h, fs) \in After(c, s)
        BY <1>4, <2>2, <3>1, <3>3 DEF Finds
      <4> QED
        BY <2>1, <4>1
    <3> QED
      BY <3>2, <3>3
  <2>3. CASE c.op = "by_rank"
    <3>1. After(c, s) = {Without(h, Range(RedisSlice(Ascending(h), c.low, c.high)))}
      BY <2>3 DEF After
    <3>2. fs = ByRank(h, c.low, c.high)
      BY <1>4, <2>3 DEF Finds
    <3>3. c.low \in Int /\ c.high \in Int
      BY DEF Request
    <3>4. ~(c.low >= Card(h) \/ c.high < -Card(h))
      BY <2>3 DEF Deviates
    <3>5. Card(h) \in Int
      <4>1. Stored(h) \in Seq(Fields)
        BY StoredIs, CollectionAssumption
      <4> QED
        BY <4>1 DEF Card
    <3>6. c.low < Card(h) /\ c.high >= -Card(h)
      BY <3>3, <3>4, <3>5
    <3>7. \A f \in Members(h) : h[f] \in Int
      BY <2>3
    <3>8. PICK low, high : low = c.low /\ high = c.high
      OBVIOUS
    <3>9. ByRank(h, low, high) = Range(RedisSlice(Ascending(h), low, high))
      BY <3>3, <3>6, <3>7, <3>8, RanksAreSlice
    <3> QED
      BY <2>1, <3>1, <3>2, <3>8, <3>9
  <2>4. CASE c.op = "by_score"
    <3>1. After(c, s) = {Without(h, ByScore(h, c.low, c.high))}
      BY <2>4 DEF After
    <3>2. fs = ByScore(h, c.low, c.high)
      BY <1>4, <2>4 DEF Finds
    <3> QED
      BY <2>1, <3>1, <3>2
  <2> QED
    BY <1>4, <2>2, <2>3, <2>4
<1>7. PICK a \in After(c, s) : \A f \in Fields : a[f] = IF f \in fs THEN NoValue ELSE h[f]
  BY <1>6
<1> HIDE DEF n, h
<1>8. PICK p : p = Each("hdel", n, fs)
  OBVIOUS
<1>9. Steady(c, p)
  <2>1. <<>> \in Seq(Instruction) /\ Steady(c, <<>>)
    BY EmptySeq DEF Steady
  <2>2. Steady(c, p \o <<>>)
    BY <1>8, <2>1, EachSteady DEF Writes
  <2>3. p \o <<>> = p
    <3>1. p = <<>> \/ \E x : p = <<x>>
      BY <1>8 DEF Each
    <3>2. ASSUME NEW x PROVE <<x>> \o <<>> = <<x>>
      OBVIOUS
    <3> QED
      BY <3>1, <3>2
  <2> QED
    BY <2>2, <2>3
<1>10. \A x \in OnNames(c), f \in FieldsOf(c) : Ends(p, r[x][f], x, f, Target(c, s, a, x, f))
  <2> SUFFICES ASSUME NEW x \in OnNames(c), NEW f \in Fields
               PROVE  Ends(p, r[x][f], x, f, Target(c, s, a, x, f))
    BY <1>5
  <2>1. Target(c, s, a, x, f) = IF x = n THEN a[f] ELSE s[x][f]
    BY <1>4, OtherNames DEF n
  <2>2. r[x][f] = s[x][f]
    BY <1>3, <1>5 DEF Unread
  <2>3. Target(c, s, a, x, f) = IF x = n /\ f \in fs THEN NoValue ELSE r[x][f]
    BY <1>7, <2>1, <2>2 DEF h
  <2>4. PICK old : old = r[x][f]
    OBVIOUS
  <2>5. Ends(p, old, x, f, IF x = n /\ f \in fs THEN NoValue ELSE old)
    BY <1>8, EachEnds
  <2> QED
    BY <2>3, <2>4, <2>5
<1>11. Finishing(c, s, r, p)
  BY <1>9, <1>10, FinishingBy
<1> QED
  BY <1>4, <1>8, <1>11 DEF OnTheWay, n

\* hclear.
LEMMA ClearAtIs ==
  ASSUME NEW c \in Request, c.op \in SetOp, c.from # <<>>
  PROVE  Len(c.from) \in Nat /\ Len(c.from) >= 1 /\ ClearAt(c) \in 1..Len(c.from) + 1
<1>1. Len(c.from) \in Nat /\ Len(c.from) >= 1
  <2>1. c.from \in Seq(Names)
    BY DEF Request
  <2> QED
    BY <2>1, EmptySeq
<1> QED
  BY <1>1 DEF ClearAt, SetOp

LEMMA ClearStores ==
  ASSUME NEW c \in Request, NEW s, NEW r, NEW l,
         NEW i \in Instruction, NEW q \in Seq(Instruction), i.do = "hclear",
         Storing(c, s, r, <<i>> \o q, l)
  PROVE  Storing(c, s, r, Each("hdel", i.name, Members(r[i.name])) \o q, l)
<1>1. c.op \in SetOp /\ c.fields = <<>> /\ c.from # <<>> /\ SourcesKept(c, s, r)
  BY StoringSplit
<1>2. PICK j \in 0..Len(c.from) + 1 :
         ReadSoFar(c, s, l, j) /\ (AtCall(c, s, r[c.name], i, q, j) \/ Emptying(c, r[c.name], i, q, j))
  BY StoringSplit
<1>3. ~Emptying(c, r[c.name], i, q, j)
  <2>1. \A fs : [Whole("hdel", c.name) EXCEPT !.fields = fs].do = "hdel"
    BY DEF Whole
  <2> QED
    BY <2>1 DEF Emptying
<1>4. i = StoreCall(c, j + 1) /\ q = StoreCalls(c, j + 1)
  BY <1>2, <1>3 DEF AtCall
<1>5. j + 1 = ClearAt(c) /\ i = Whole("hclear", c.name)
  BY <1>1, <1>2, <1>4, StoreCallIs
<1>6. i.name = c.name
  BY <1>5, WholeIs
<1>7. Len(c.from) \in Nat /\ ClearAt(c) \in 1..Len(c.from) + 1
  BY <1>1, ClearAtIs
<1>8. PICK k : k = j + 1
  OBVIOUS
<1>9. k \in 0..Len(c.from) + 1 /\ k = ClearAt(c) /\ q = StoreCalls(c, k)
  BY <1>2, <1>4, <1>5, <1>7, <1>8
<1>10. ReadSoFar(c, s, l, k)
  <2>1. Reads(c, k) = Reads(c, j)
    BY <1>2, <1>5, <1>7, <1>8 DEF Reads
  <2> QED
    BY <1>2, <2>1 DEF ReadSoFar
<1> DEFINE fs == Members(r[c.name])
           p == Each("hdel", i.name, fs) \o q
<1>11. fs \in SUBSET Fields /\ \A f \in Fields \ fs : r[c.name][f] = NoValue
  BY DEF Members
<1>12. StoreAt(c, s, r[c.name], p, k)
  <2>1. CASE fs = {}
    <3>1. p = q
      <4>1. Each("hdel", i.name, fs) = <<>>
        BY <2>1 DEF Each
      <4> QED
        BY <4>1
    <3>2. k >= ClearAt(c)
      BY <1>7, <1>9
    <3> HIDE DEF p
    <3> QED
      BY <1>9, <1>11, <2>1, <3>1, <3>2 DEF StoreAt
  <2>2. CASE fs # {}
    <3>1. Each("hdel", i.name, fs) = <<[Whole("hdel", c.name) EXCEPT !.fields = fs]>>
      BY <1>6, <2>2 DEF Each, Whole
    <3>2. p = <<[Whole("hdel", c.name) EXCEPT !.fields = fs]>> \o StoreCalls(c, k)
      BY <1>9, <3>1
    <3> HIDE DEF p, fs
    <3> QED
      BY <1>9, <1>11, <3>2 DEF StoreAt
  <2> QED
    BY <2>1, <2>2
<1> HIDE DEF p
<1>13. Storing(c, s, r, p, l)
  BY <1>1, <1>9, <1>10, <1>12 DEF Storing, SourcesKept
<1> QED
  BY <1>6, <1>13 DEF p

LEMMA ClearOn ==
  ASSUME NEW c \in Request, NEW s, NEW r, NEW v, NEW l,
         NEW i \in Instruction, NEW q \in Seq(Instruction), i.do = "hclear",
         OnTheWay(c, s, r, <<i>> \o q, v, l)
  PROVE  OnTheWay(c, s, r, Each("hdel", i.name, Members(r[i.name])) \o q, NoValue, l)
<1>1. CASE Finishing(c, s, r, <<i>> \o q)
  <2>1. Finishing(c, s, r, Each("hdel", i.name, Members(r[i.name])) \o q)
    BY <1>1, ClearFinishes, OfCommand
  <2> QED
    BY <2>1 DEF OnTheWay
<1>2. CASE Storing(c, s, r, <<i>> \o q, l)
  <2>1. Storing(c, s, r, Each("hdel", i.name, Members(r[i.name])) \o q, l)
    BY <1>2, ClearStores
  <2> QED
    BY <2>1 DEF OnTheWay
<1>3. ~Reading(c, s, r, <<i>> \o q, v)
  BY ReadingHead
<1> QED
  BY <1>1, <1>2, <1>3 DEF OnTheWay

\* The walk of hclear, SPOP or a range finds some fields.
LEMMA FoundIs ==
  ASSUME NEW t, NEW do \in {"hclear", "spop", "by_rank", "by_score"}, Calls(t, do), NEW fs \in Found(t)
  PROVE  Finds(cmd[t], Now(t), Hash(t), fs) /\ Now(t).do = do
<1>1. Now(t).do = do /\ prog[t] # <<>>
  BY DEF Calls
<1>2. \A x : Calls(t, x) => x = do
  BY <1>1 DEF Calls
<1>3. CASE do = "hclear"
  <2>1. Found(t) = {Members(Hash(t))}
    BY <1>2, <1>3 DEF Found
  <2> QED
    BY <1>1, <1>3, <2>1 DEF Finds
<1>4. CASE do = "spop"
  <2>1. Found(t) = IF Members(Hash(t)) = {} THEN {{}} ELSE {{f} : f \in Members(Hash(t))}
    BY <1>2, <1>4 DEF Found
  <2> QED
    BY <1>1, <1>4, <2>1, Zenon DEF Finds
<1>5. CASE do = "by_rank"
  <2>1. Found(t) = {ByRank(Hash(t), cmd[t].low, cmd[t].high)}
    BY <1>2, <1>5 DEF Found
  <2> QED
    BY <1>1, <1>5, <2>1 DEF Finds
<1>6. CASE do = "by_score"
  <2>1. Found(t) = {ByScore(Hash(t), cmd[t].low, cmd[t].high)}
    BY <1>2, <1>6 DEF Found
  <2> QED
    BY <1>1, <1>6, <2>1 DEF Finds
<1> QED
  BY <1>3, <1>4, <1>5, <1>6

LEMMA EachIs ==
  ASSUME NEW do, NEW n, NEW fs, NEW c, NEW q \in Seq(Instruction),
         n \in OnNames(c), fs \subseteq FieldsOf(c),
         do \in {"hclear", "spop", "by_rank", "by_score", "fill"} => c.fields = <<>>,
         \A j \in DOMAIN q : Allowed(q[j], c)
  PROVE  /\ Each(do, n, fs) \o <<>> = Each(do, n, fs)
         /\ \A j \in DOMAIN (Each(do, n, fs) \o q) : Allowed((Each(do, n, fs) \o q)[j], c)
<1>1. CASE fs = {}
  <2>1. Each(do, n, fs) = <<>> /\ <<>> \o q = q /\ <<>> \o <<>> = <<>>
    BY <1>1 DEF Each
  <2> QED
    BY <2>1
<1>2. CASE fs # {}
  <2>1. PICK x : x = [do |-> do, name |-> n, fields |-> fs, value |-> NoValue]
    OBVIOUS
  <2>2. Each(do, n, fs) = <<x>>
    BY <1>2, <2>1 DEF Each
  <2>3. Allowed(x, c)
    BY <2>1 DEF Allowed
  <2>4. <<x>> \o <<>> = <<x>>
    OBVIOUS
  <2>5. \A j \in DOMAIN (<<x>> \o q) : Allowed((<<x>> \o q)[j], c)
    BY <2>3, AllowedPushed
  <2> QED
    BY <2>2, <2>4, <2>5
<1> QED
  BY <1>1, <1>2

LEMMA HgetallCall ==
  ASSUME SoloInv, CollectionInv', NEW t \in Threads, Hgetall(t)
  PROVE  SoloInv' /\ RepliesLikeRedis
<1>1. PICK do \in {"hclear", "spop", "by_rank", "by_score"}, fs \in Found(t) :
        /\ Calls(t, do)
        /\ LET p == Each("hdel", Now(t).name, fs) \o Rest(t)
           IN Goes(t, p) /\ Keeps(t, p, NoValue, list[t])
        /\ UNCHANGED <<kind, store, ops, faults, kept>>
  BY DEF Hgetall
<1>2. prog[t] # <<>> /\ Now(t).do = do /\ Finds(cmd[t], Now(t), Hash(t), fs)
  <2>1. Finds(cmd[t], Now(t), Hash(t), fs) /\ Now(t).do = do
    BY <1>1, FoundIs
  <2> QED
    BY <1>1, <2>1 DEF Calls
<1> DEFINE i == Now(t)
           q == Rest(t)
           c == cmd[t]
           s == before[t]
           h == store[i.name]
<1>3. /\ i \in Instruction /\ q \in Seq(Instruction) /\ c \in Request /\ c # NoCmd
      /\ Allowed(i, c) /\ \A j \in DOMAIN q : Allowed(q[j], c)
      /\ OnTime(t) => OnTheWay(c, s, store, <<i>> \o q, got[t], list[t])
  BY <1>2, Here
<1>4. i.name \in OnNames(c) /\ c.fields = <<>> /\ FieldsOf(c) = Fields /\ i.name \in Names
  BY <1>2, <1>3 DEF Allowed, FieldsOf, Instruction
<1>5. Finds(c, i, h, fs)
  BY <1>2 DEF Hash
<1>6. fs \subseteq Fields
  <2>1. CASE do = "spop"
    BY <1>2, <1>5, <2>1 DEF Finds, Members
  <2>2. CASE do # "spop"
    BY <1>2, <1>5, <2>2 DEF Finds, Members, ByRank, ByScore
  <2> QED
    BY <2>1, <2>2
<1>7. PICK p : p = Each("hdel", i.name, fs) \o q
  OBVIOUS
<1>8. Goes(t, p) /\ Keeps(t, p, NoValue, list[t])
  BY <1>1, <1>7
<1>9. /\ Each("hdel", i.name, fs) \o <<>> = Each("hdel", i.name, fs)
      /\ \A j \in DOMAIN p : Allowed(p[j], c)
  <2>1. fs \subseteq FieldsOf(c)
    BY <1>4, <1>6
  <2> QED
    BY <1>3, <1>4, <1>7, <2>1, EachIs
<1>10. s \in [Names -> [Fields -> OfKind(kind)]] /\ store \in [Names -> [Fields -> OfKind(kind)]]
  BY Records
<1>11. c.name \in Names
  BY <1>3 DEF Request
<1>12. c.op = "by_rank" => \A f \in Members(s[c.name]) : s[c.name][f] \in Int
  <2>1. c.op = "by_rank" => kind = "zset"
    BY <1>3 DEF SoloInv, OfOneKind
  <2>2. \A f \in Members(s[c.name]) : s[c.name][f] \in OfKind(kind) /\ s[c.name][f] # NoValue
    BY <1>10, <1>11 DEF Members
  <2> QED
    BY <2>1, <2>2 DEF OfKind
<1> HIDE DEF i, q, c, s
<1>13. ASSUME OnTime(t)
       PROVE  OnTheWay(c, s, store, p, NoValue, list[t])
  <2>1. ~Deviates(c, s) /\ OnTheWay(c, s, store, <<i>> \o q, got[t], list[t])
    BY <1>3, <1>13 DEF OnTime, c, s
  <2>2. PICK v, l : v = got[t] /\ l = list[t]
    OBVIOUS
  <2>3. OnTheWay(c, s, store, <<i>> \o q, v, l)
    BY <2>1, <2>2
  <2>4. i.do = do
    BY <1>2 DEF i
  <2>5. CASE do = "hclear"
    <3>1. fs = Members(h)
      BY <1>5, <2>4, <2>5 DEF Finds
    <3>2. OnTheWay(c, s, store, Each("hdel", i.name, Members(h)) \o q, NoValue, l)
      BY <1>3, <2>3, <2>4, <2>5, ClearOn
    <3> QED
      BY <1>7, <2>2, <3>1, <3>2
  <2>6. CASE do # "hclear"
    <3>1. ~Finishing(c, s, store, <<i>> \o q) /\ ~Storing(c, s, store, <<i>> \o q, l)
      BY <1>3, <2>4, <2>6, FinishingHead, StoringHead
    <3>2. Walking(c, i, q) /\ Unread(c, s, store)
      BY <1>3, <2>3, <2>4, <2>6, <3>1, ReadingHead, ReadingSplit DEF OnTheWay
    <3>3. i.name = c.name
      BY <3>2, WholeIs DEF Walking
    <3>4. store[c.name] = s[c.name]
      <4>1. \A f \in Fields : store[c.name][f] = s[c.name][f]
        BY <1>4, <3>2, <3>3 DEF Unread
      <4> QED
        BY <1>10, <1>11, <4>1
    <3>5. Finds(c, i, store[c.name], fs)
      BY <1>5, <3>3
    <3>6. q = <<>> /\ OnTheWay(c, s, store, Each("hdel", i.name, fs), NoValue, l)
      BY <1>3, <1>12, <2>1, <2>3, <2>4, <2>6, <3>4, <3>5, WalkOn
    <3> QED
      BY <1>7, <1>9, <2>2, <3>6
  <2> QED
    BY <2>5, <2>6
<1> QED
  BY <1>1, <1>2, <1>8, <1>9, <1>13, LookAlone DEF c, s

\* One more source of a STORE.
LEMMA FirstUnion ==
  ASSUME NEW hs, 1 \in DOMAIN hs
  PROVE  SoFar("union", Combined("union", <<>>, Stored(hs[1])), hs, 1)
<1> DEFINE b == Stored(hs[1])
           e == Joined(<<>>, b)
<1>1. b \in Seq(Fields) /\ Range(b) = Members(hs[1]) /\ Distinct(b) /\ Members(hs[1]) \subseteq Fields
  BY StoredIs, CollectionAssumption
<1>2. <<>> \in Seq(Fields) /\ Distinct(<<>>) /\ Range(<<>>) = {}
  BY DEF Distinct, Range
<1> HIDE DEF b
<1>3. e \in Seq(Fields) /\ Distinct(e) /\ Range(e) = Range(<<>>) \cup Range(b)
  <2>1. PICK a : a = <<>>
    OBVIOUS
  <2>2. a \in Seq(Fields) /\ Distinct(a)
    BY <1>2, <2>1
  <2>3. Joined(a, b) \in Seq(Fields) /\ Distinct(Joined(a, b)) /\ Range(Joined(a, b)) = Range(a) \cup Range(b)
    BY <1>1, <2>2, JoinedIs
  <2> QED
    BY <2>1, <2>3
<1>4. Range(e) = {f \in Fields : \E k \in 1..1 : f \in Members(hs[k])}
  <2>1. 1..1 = {1}
    OBVIOUS
  <2> QED
    BY <1>1, <1>2, <1>3, <2>1
<1>5. Combined("union", <<>>, b) = e
  BY CombinedIs
<1> HIDE DEF e
<1>6. UnionOf(e, hs, 1)
  BY <1>3, <1>4 DEF UnionOf
<1> QED
  BY <1>5, <1>6 DEF SoFar, b

LEMMA OneMoreSource ==
  ASSUME NEW op \in SetOp, NEW hs, NEW m \in DOMAIN hs, m \in Nat, m >= 1, DOMAIN hs = 1..Len(hs), Len(hs) \in Nat,
         NEW l, IF m = 1 THEN l = <<>> ELSE SoFar(op, l, hs, m - 1),
         NEW do, do = IF m = 1 /\ op # "union" THEN "first" ELSE op
  PROVE  SoFar(op, IF do = "first" THEN Stored(hs[m]) ELSE Combined(do, l, Stored(hs[m])), hs, m)
<1>1. CASE m = 1 /\ op # "union"
  BY <1>1, FirstSet, CollectionAssumption
<1>2. CASE m = 1 /\ op = "union"
  BY <1>2, FirstUnion
<1>3. CASE m # 1
  <2>1. 2 <= m
    BY <1>3
  <2>2. do = op /\ do # "first"
    BY <1>3 DEF SetOp
  <2>3. SoFar(op, Combined(op, l, Stored(hs[m])), hs, m)
    BY <1>3, <2>1, OneMoreSet, CollectionAssumption
  <2> QED
    BY <2>2, <2>3
<1> QED
  BY <1>1, <1>2, <1>3

\* Records of fields of names.
Shaped(s) == s = [n \in Names |-> [f \in Fields |-> s[n][f]]]

\* Where the sources of a command are what they were when it came.
LEMMA SourceKept ==
  ASSUME NEW c \in Request, NEW s, NEW r, Shaped(s), Shaped(r),
         c.op \in SetOp, c.fields = <<>>, c.from # <<>>, SourcesKept(c, s, r), ~Deviates(c, s),
         NEW k \in 1..Len(c.from) + 1, k # ClearAt(c),
         k < ClearAt(c) => \A f \in Fields : r[c.name][f] = s[c.name][f]
  PROVE  LET m == Reads(c, k)
         IN m \in 1..Len(c.from) /\ r[c.from[m]] = s[c.from[m]] /\ c.from[m] \in Names
<1> DEFINE m == Reads(c, k)
           x == c.from[m]
<1>1. Len(c.from) \in Nat /\ Len(c.from) >= 1 /\ ClearAt(c) \in 1..Len(c.from) + 1
  BY ClearAtIs
<1>2. m \in 1..Len(c.from)
  BY <1>1 DEF Reads
<1>3. c.from \in Seq(Names)
  BY DEF Request
<1>4. x \in Names /\ x \in OnNames(c)
  <2>1. m \in DOMAIN c.from
    BY <1>2, <1>3
  <2>2. c.op # "flushdb"
    BY DEF SetOp
  <2>3. x \in OnNames(c)
    BY <2>1, <2>2, OfCommand
  <2> HIDE DEF m
  <2>4. x \in Names
    BY <1>3, <2>1
  <2> QED
    BY <2>3, <2>4
<1>5. \A f \in Fields : r[x][f] = s[x][f]
  <2>1. CASE x # c.name
    <3> HIDE DEF x
    <3> QED
      BY <1>4, <2>1 DEF SourcesKept
  <2>2. CASE x = c.name
    <3>1. c.op = "union" => k < ClearAt(c)
      BY <1>1 DEF ClearAt
    <3>2. c.op # "diff"
      <4>1. m \in DOMAIN c.from
        BY <1>2, <1>3
      <4>2. x \in Range(c.from)
        BY <4>1 DEF Range
      <4> QED
        BY <2>2, <4>2 DEF Deviates
    <3>3. c.op = "inter" => k < ClearAt(c)
      <4> SUFFICES ASSUME c.op = "inter", ~(k < ClearAt(c)) PROVE FALSE
        OBVIOUS
      <4>1. m >= 2 /\ m - 1 \in 1..Len(c.from) - 1
        BY <1>1, <1>2 DEF ClearAt, Reads
      <4> HIDE DEF m
      <4>2. c.from # <<>>
        OBVIOUS
      <4>3. PICK u, w : u = c.from /\ w = Tail(u)
        OBVIOUS
      <4>4. u \in Seq(Names) /\ u # <<>> /\ m - 1 \in 1..Len(u) - 1
        BY <1>3, <4>1, <4>2, <4>3
      <4>5. w \in Seq(Names) /\ Len(w) = Len(u) - 1 /\ \A n \in 1..Len(w) : w[n] = u[n + 1]
        BY <4>3, <4>4, HeadTailProperties
      <4>6. m - 1 \in DOMAIN w /\ w[m - 1] = u[m]
        BY <1>2, <4>1, <4>4, <4>5
      <4>7. c.name \in Range(w)
        BY <2>2, <4>3, <4>6 DEF Range
      <4> QED
        BY <4>3, <4>7 DEF Deviates
    <3> QED
      BY <2>2, <3>1, <3>2, <3>3 DEF SetOp
  <2> QED
    BY <2>1, <2>2
<1>6. r[x] = s[x]
  <2> HIDE DEF x
  <2>1. s[x] = [f \in Fields |-> s[x][f]] /\ r[x] = [f \in Fields |-> r[x][f]]
    BY <1>4, Zenon DEF Shaped
  <2>2. [f \in Fields |-> s[x][f]] = [f \in Fields |-> r[x][f]]
    BY <1>5
  <2> QED
    BY <2>1, <2>2
<1> QED
  BY <1>2, <1>4, <1>6

\* The next set of a STORE, now h, and where it leads.
OneMore(i, h, l) == IF i.do = "first" THEN Stored(h) ELSE Combined(i.do, l, Stored(h))

GatherLeads(c, s, r, i, q, l) ==
  /\ Storing(c, s, r, q, l)
  /\ c.op \in SetOp /\ c.fields = <<>> /\ SourcesKept(c, s, r)
  /\ i.do = "union" <=> c.op = "union"
  /\ \E k \in 1..Len(c.from) + 1, m \in 1..Len(c.from) :
       /\ SoFar(c.op, l, Sources(c, s), m)
       /\ q = StoreCalls(c, k) /\ q # <<>> /\ Head(q) = StoreCall(c, k + 1)
       /\ IF k < ClearAt(c) THEN c.op = "inter" => Head(q).do = "hclear"
                            ELSE \A f \in Fields : r[c.name][f] = NoValue
       /\ c.op = "diff" => k >= ClearAt(c)

LEMMA GatherStores ==
  ASSUME NEW c \in Request, NEW s, NEW r, Shaped(s), Shaped(r),
         NEW i \in Instruction, NEW q \in Seq(Instruction), NEW l,
         i.do \in {"first", "union", "inter", "diff"}, ~Deviates(c, s), Storing(c, s, r, <<i>> \o q, l)
  PROVE  GatherLeads(c, s, r, i, q, OneMore(i, r[i.name], l))
<1>0. PICK l2 : l2 = OneMore(i, r[i.name], l)
  OBVIOUS
<1>1. c.op \in SetOp /\ c.fields = <<>> /\ c.from # <<>> /\ SourcesKept(c, s, r)
  BY StoringSplit
<1>2. PICK j \in 0..Len(c.from) + 1 :
         ReadSoFar(c, s, l, j) /\ (AtCall(c, s, r[c.name], i, q, j) \/ Emptying(c, r[c.name], i, q, j))
  BY StoringSplit
<1>3. AtCall(c, s, r[c.name], i, q, j)
  <2>1. \A fs : [Whole("hdel", c.name) EXCEPT !.fields = fs].do = "hdel"
    BY DEF Whole
  <2> QED
    BY <1>2, <2>1 DEF Emptying
<1>4. PICK k : k = j + 1
  OBVIOUS
<1>5. Len(c.from) \in Nat /\ Len(c.from) >= 1 /\ ClearAt(c) \in 1..Len(c.from) + 1
  BY <1>1, ClearAtIs
<1> DEFINE m == Reads(c, k)
<1>6. /\ k # ClearAt(c) /\ j <= Len(c.from) /\ i = Whole(i.do, c.from[m])
      /\ i.do = IF m = 1 /\ c.op # "union" THEN "first" ELSE c.op
  <2>1. i = StoreCall(c, j + 1)
    BY <1>3 DEF AtCall
  <2> QED
    BY <1>1, <1>2, <1>4, <2>1, StoreCallIs
<1>7. k \in 1..Len(c.from) + 1 /\ (k < ClearAt(c) <=> j < ClearAt(c))
  BY <1>2, <1>4, <1>5, <1>6
<1>8. q = StoreCalls(c, k)
  BY <1>3, <1>4 DEF AtCall
<1>9. IF k < ClearAt(c) THEN \A f \in Fields : r[c.name][f] = s[c.name][f]
                        ELSE \A f \in Fields : r[c.name][f] = NoValue
  BY <1>3, <1>7 DEF AtCall
<1>10. m \in 1..Len(c.from) /\ r[c.from[m]] = s[c.from[m]]
  <2>1. k < ClearAt(c) => \A f \in Fields : r[c.name][f] = s[c.name][f]
    BY <1>9
  <2>2. k \in 1..Len(c.from) + 1 /\ k # ClearAt(c)
    BY <1>6, <1>7
  <2>3. LET n == Reads(c, k)
        IN n \in 1..Len(c.from) /\ r[c.from[n]] = s[c.from[n]] /\ c.from[n] \in Names
    BY <1>1, <2>1, <2>2, SourceKept
  <2> QED
    BY <2>3
<1>11. i.name = c.from[m]
  <2> HIDE DEF m
  <2> QED
    BY <1>6, WholeIs
<1>12. Reads(c, j) = m - 1
  BY <1>2, <1>4, <1>5, <1>6 DEF Reads
<1> HIDE DEF m
<1> DEFINE hs == Sources(c, s)
<1>13. DOMAIN hs = 1..Len(c.from) /\ Len(hs) = Len(c.from) /\ hs[m] = r[i.name]
  <2>1. DOMAIN c.from = 1..Len(c.from)
    BY OfCommand
  <2>2. hs = [n \in 1..Len(c.from) |-> s[c.from[n]]]
    BY <2>1 DEF Sources
  <2> HIDE DEF hs
  <2>3. DOMAIN hs = 1..Len(c.from) /\ hs[m] = s[c.from[m]]
    BY <1>10, <2>2
  <2>4. Len(hs) = Len(c.from)
    BY <1>5, <2>3
  <2> QED
    BY <1>10, <1>11, <2>3, <2>4
<1>14. SoFar(c.op, l2, hs, m)
  <2>1. IF m = 1 THEN l = <<>> ELSE SoFar(c.op, l, hs, m - 1)
    BY <1>2, <1>10, <1>12 DEF ReadSoFar
  <2>2. m \in DOMAIN hs /\ m \in Nat /\ m >= 1 /\ DOMAIN hs = 1..Len(hs) /\ Len(hs) \in Nat
    BY <1>5, <1>10, <1>13
  <2> HIDE DEF hs
  <2>3. PICK o, do : o = c.op /\ do = i.do
    OBVIOUS
  <2>4. do = IF m = 1 /\ o # "union" THEN "first" ELSE o
    BY <1>6, <2>3
  <2>5. SoFar(o, IF do = "first" THEN Stored(hs[m]) ELSE Combined(do, l, Stored(hs[m])), hs, m)
    BY <1>1, <2>1, <2>2, <2>3, <2>4, OneMoreSource
  <2> QED
    BY <1>0, <1>13, <2>3, <2>5 DEF OneMore
<1> HIDE DEF hs
<1>15. ReadSoFar(c, s, l2, k)
  <2>1. Reads(c, k) # 0 /\ Reads(c, k) = m
    BY <1>10 DEF m
  <2> QED
    BY <1>14, <2>1 DEF ReadSoFar, hs
<1>16. StoreAt(c, s, r[c.name], q, k)
  <2>1. k < ClearAt(c) \/ k >= ClearAt(c)
    BY <1>5, <1>7
  <2> QED
    BY <1>5, <1>7, <1>8, <1>9, <2>1 DEF StoreAt
<1>17. Storing(c, s, r, q, l2)
  <2>1. k \in 0..Len(c.from) + 1
    BY <1>7
  <2> QED
    BY <1>1, <1>15, <1>16, <2>1 DEF Storing, SourcesKept
<1>18. q # <<>> /\ Head(q) = StoreCall(c, k + 1)
  <2>1. k \in 0..Len(c.from) + 1 /\ 1 \in 1..Len(c.from) + 2 - k
    BY <1>5, <1>7
  <2>2. q # <<>> /\ q[1] = StoreCall(c, 1 + k)
    BY <1>8, <2>1, StoreCallsList, StoreCallsLeft
  <2>3. Head(q) = q[1] /\ 1 + k = k + 1
    BY <1>7, <2>2
  <2> QED
    BY <2>2, <2>3
<1>19. k < ClearAt(c) /\ c.op = "inter" => Head(q).do = "hclear"
  <2> SUFFICES ASSUME k < ClearAt(c), c.op = "inter" PROVE Head(q).do = "hclear"
    OBVIOUS
  <2>1. k + 1 = ClearAt(c)
    BY <1>7 DEF ClearAt
  <2>2. Head(q) = Whole("hclear", c.name)
    BY <1>18, <2>1 DEF StoreCall
  <2> QED
    BY <2>2, WholeIs
<1>20. c.op = "diff" => k >= ClearAt(c)
  BY <1>7 DEF ClearAt
<1>21. i.do = "union" <=> c.op = "union"
  BY <1>6
<1>22. /\ SoFar(c.op, l2, Sources(c, s), m)
       /\ q = StoreCalls(c, k) /\ q # <<>> /\ Head(q) = StoreCall(c, k + 1)
       /\ IF k < ClearAt(c) THEN c.op = "inter" => Head(q).do = "hclear"
                            ELSE \A f \in Fields : r[c.name][f] = NoValue
       /\ c.op = "diff" => k >= ClearAt(c)
  BY <1>8, <1>9, <1>14, <1>18, <1>19, <1>20 DEF hs
<1> QED
  BY <1>0, <1>1, <1>7, <1>10, <1>17, <1>21, <1>22 DEF GatherLeads

\* Without members left the destination is to be empty.
LEMMA NoneIs ==
  ASSUME NEW c, NEW s, c.op \in {"inter", "diff"}, ~Deviates(c, s),
         NEW m \in 1..Len(c.from), Len(c.from) \in Nat, DOMAIN c.from = 1..Len(c.from),
         SoFar(c.op, <<>>, Sources(c, s), m)
  PROVE  \E h \in After(c, s) : \A f \in Fields : h[f] = NoValue
<1> DEFINE hs == Sources(c, s)
<1>1. DOMAIN hs = 1..Len(c.from) /\ Len(hs) = Len(c.from)
  <2>1. hs = [n \in 1..Len(c.from) |-> s[c.from[n]]]
    BY DEF Sources
  <2> HIDE DEF hs
  <2> QED
    BY <2>1
<1>2. InOrder(hs)
  BY DEF Deviates
<1>3. Range(<<>>) = {}
  BY DEF Range
<1>4. CASE c.op = "inter"
  <2>1. Intersection(hs) = {}
    <3> HIDE DEF hs
    <3>1. InterOf(<<>>, hs, m)
      BY <1>4 DEF SoFar, hs
    <3>2. {f \in Fields : \A k \in 1..m : f \in Members(hs[k])} = {}
      BY <1>2, <1>3, <3>1 DEF InterOf
    <3> QED
      BY <1>1, <3>2 DEF Intersection
  <2>2. SetOf({}) \in After(c, s)
    BY <1>4, <2>1 DEF After
  <2> QED
    BY <2>2 DEF SetOf
<1>5. CASE c.op = "diff"
  <2>1. Difference(hs) = {}
    <3> HIDE DEF hs
    <3>1. DiffOf(<<>>, hs, m)
      BY <1>5 DEF SoFar, hs
    <3>2. {f \in Members(hs[1]) : \A k \in 2..m : f \notin Members(hs[k])} = {}
      BY <1>2, <1>3, <3>1 DEF DiffOf
    <3> QED
      BY <1>1, <3>2 DEF Difference
  <2>2. SetOf({}) \in After(c, s)
    BY <1>5, <2>1 DEF After
  <2> QED
    BY <2>2 DEF SetOf
<1> QED
  BY <1>4, <1>5

\* What is left of a STORE that has gathered l.
GoesOn(i, q, l) ==
  IF l # <<>> \/ i.do = "union" THEN q
  ELSE IF q # <<>> /\ Head(q).do = "hclear" THEN <<Head(q)>> ELSE <<>>

LEMMA GatherOn ==
  ASSUME NEW c \in Request, NEW s, NEW r, Shaped(s), Shaped(r),
         NEW i \in Instruction, NEW q \in Seq(Instruction), NEW v, NEW l,
         i.do \in {"first", "union", "inter", "diff"}, ~Deviates(c, s), OnTheWay(c, s, r, <<i>> \o q, v, l),
         NEW l2, l2 = OneMore(i, r[i.name], l)
  PROVE  OnTheWay(c, s, r, GoesOn(i, q, l2), NoValue, l2)
<1> DEFINE p == GoesOn(i, q, l2)
<1>1. Storing(c, s, r, <<i>> \o q, l)
  BY FinishingHead, ReadingHead DEF OnTheWay
<1>0. GatherLeads(c, s, r, i, q, l2)
  BY <1>1, GatherStores
<1>2. /\ Storing(c, s, r, q, l2)
      /\ c.op \in SetOp /\ c.fields = <<>> /\ SourcesKept(c, s, r)
      /\ i.do = "union" <=> c.op = "union"
  BY <1>0 DEF GatherLeads
<1>3. CASE l2 # <<>> \/ i.do = "union"
  BY <1>2, <1>3 DEF OnTheWay, GoesOn
<1>4. CASE l2 = <<>> /\ i.do # "union"
  <2>1. PICK k \in 1..Len(c.from) + 1, m \in 1..Len(c.from) :
              /\ SoFar(c.op, l2, Sources(c, s), m)
              /\ q = StoreCalls(c, k) /\ q # <<>> /\ Head(q) = StoreCall(c, k + 1)
              /\ IF k < ClearAt(c) THEN c.op = "inter" => Head(q).do = "hclear"
                                   ELSE \A f \in Fields : r[c.name][f] = NoValue
              /\ c.op = "diff" => k >= ClearAt(c)
    BY <1>0 DEF GatherLeads
  <2>2. c.op \in {"inter", "diff"}
    BY <1>2, <1>4 DEF SetOp
  <2>3. Len(c.from) \in Nat /\ DOMAIN c.from = 1..Len(c.from) /\ FieldsOf(c) = Fields
    BY <1>2, OfCommand DEF FieldsOf
  <2>4. PICK h \in After(c, s) : \A f \in Fields : h[f] = NoValue
    BY <1>4, <2>1, <2>2, <2>3, NoneIs
  <2>5. \A x \in OnNames(c), f \in Fields : Target(c, s, h, x, f) = IF x = c.name THEN NoValue ELSE r[x][f]
    <3> SUFFICES ASSUME NEW x \in OnNames(c), NEW f \in Fields
                 PROVE  Target(c, s, h, x, f) = IF x = c.name THEN NoValue ELSE r[x][f]
      OBVIOUS
    <3>1. Target(c, s, h, x, f) = IF x = c.name THEN h[f] ELSE s[x][f]
      BY <2>2, OtherNames
    <3> QED
      BY <1>2, <2>4, <3>1 DEF SourcesKept
  <2>6. CASE Head(q).do = "hclear"
    <3>1. p = <<Head(q)>>
      BY <1>4, <2>1, <2>6 DEF GoesOn
    <3>2. PICK x : x = Head(q)
      OBVIOUS
    <3>3. x = Whole("hclear", c.name)
      <4>1. k \in 0..Len(c.from) + 1
        BY <2>1, <2>3
      <4> QED
        BY <1>2, <2>1, <2>6, <3>2, <4>1, StoreCallIs
    <3>4. x.do \in Writes /\ \A n, f : (About(x, n, f) <=> n = c.name) /\ Leaves(x, f) = NoValue
      BY <3>3, WholeIs DEF About, Leaves, Writes
    <3>5. \A n \in OnNames(c), f \in FieldsOf(c) :
            Target(c, s, h, n, f) = IF About(x, n, f) THEN Leaves(x, f) ELSE r[n][f]
      BY <2>3, <2>5, <3>4
    <3>6. Finishing(c, s, r, <<x>>)
      BY <2>4, <3>4, <3>5, OneWriteLeft
    <3> QED
      BY <3>1, <3>2, <3>6 DEF OnTheWay
  <2>7. CASE Head(q).do # "hclear"
    <3>1. p = <<>>
      BY <1>4, <2>1, <2>7 DEF GoesOn
    <3>2. \A f \in Fields : r[c.name][f] = NoValue
      <4>1. ClearAt(c) \in Int
        BY <2>2, <2>3 DEF ClearAt
      <4>2. ~(k < ClearAt(c))
        BY <2>1, <2>2, <2>3, <2>7, <4>1
      <4> QED
        BY <2>1, <4>2
    <3>3. \A n \in OnNames(c), f \in FieldsOf(c) : Target(c, s, h, n, f) = r[n][f]
      BY <2>3, <2>5, <3>2
    <3>4. Finishing(c, s, r, <<>>)
      BY <2>4, <3>3, NothingLeft
    <3> QED
      BY <3>1, <3>4 DEF OnTheWay
  <2> QED
    BY <2>6, <2>7
<1> QED
  BY <1>3, <1>4

LEMMA GatherCall ==
  ASSUME SoloInv, CollectionInv', NEW t \in Threads, Gather(t)
  PROVE  SoloInv' /\ RepliesLikeRedis
<1>1. PICK do \in {"first", "union", "inter", "diff"} :
        /\ Calls(t, do)
        /\ LET l == IF do = "first" THEN Stored(Hash(t)) ELSE Combined(do, list[t], Stored(Hash(t)))
               p == CASE l # <<>> \/ do = "union" -> Rest(t)
                      [] l = <<>> /\ do # "union" -> ClearNext(t)
           IN Goes(t, p) /\ Keeps(t, p, NoValue, l)
        /\ UNCHANGED <<kind, store, ops, faults, kept>>
  BY DEF Gather
<1>2. prog[t] # <<>> /\ Now(t).do = do
  BY <1>1 DEF Calls
<1> DEFINE i == Now(t)
           q == Rest(t)
           c == cmd[t]
           s == before[t]
<1>3. /\ i \in Instruction /\ q \in Seq(Instruction) /\ c \in Request /\ c # NoCmd
      /\ Allowed(i, c) /\ \A j \in DOMAIN q : Allowed(q[j], c)
      /\ OnTime(t) => OnTheWay(c, s, store, <<i>> \o q, got[t], list[t])
  BY <1>2, Here
<1>4. PICK v, l : v = got[t] /\ l = list[t]
  OBVIOUS
<1>5. PICK l2 : l2 = OneMore(i, store[i.name], l)
  OBVIOUS
<1>6. PICK p : p = GoesOn(i, q, l2)
  OBVIOUS
<1>7. Goes(t, p) /\ Keeps(t, p, NoValue, l2)
  <2>1. l2 = IF do = "first" THEN Stored(Hash(t)) ELSE Combined(do, list[t], Stored(Hash(t)))
    BY <1>2, <1>4, <1>5 DEF OneMore, Hash
  <2>2. LET p1 == CASE l2 # <<>> \/ do = "union" -> Rest(t)
                    [] l2 = <<>> /\ do # "union" -> ClearNext(t)
        IN Goes(t, p1) /\ Keeps(t, p1, NoValue, l2)
    BY <1>1, <2>1
  <2>3. PICK w : w = ClearNext(t)
    OBVIOUS
  <2>4. p = IF l2 # <<>> \/ do = "union" THEN q ELSE w
    BY <1>2, <1>6, <2>3 DEF ClearNext, GoesOn
  <2>5. CASE l2 # <<>> \/ do = "union"
    <3>1. (CASE l2 # <<>> \/ do = "union" -> Rest(t) [] l2 = <<>> /\ do # "union" -> w) = q
      BY <2>5
    <3>2. p = q
      BY <2>4, <2>5
    <3> QED
      BY <2>2, <2>3, <3>1, <3>2
  <2>6. CASE l2 = <<>> /\ do # "union"
    <3>1. (CASE l2 # <<>> \/ do = "union" -> Rest(t) [] l2 = <<>> /\ do # "union" -> w) = w
      BY <2>6
    <3>2. p = w
      BY <2>4, <2>6
    <3> QED
      BY <2>2, <2>3, <3>1, <3>2
  <2> QED
    BY <2>5, <2>6
<1>8. \A j \in DOMAIN p : Allowed(p[j], c)
  <2>1. CASE p = q \/ p = <<>>
    BY <1>3, <2>1, AllowedNone
  <2>2. CASE p = <<Head(q)>> /\ q # <<>>
    <3>1. 1 \in DOMAIN q /\ q[1] = Head(q)
      BY <1>3, <2>2, Split
    <3>2. PICK x : x = Head(q)
      OBVIOUS
    <3>3. Allowed(x, c)
      BY <1>3, <3>1, <3>2
    <3> QED
      BY <2>2, <3>2, <3>3, AllAllowed
  <2> QED
    BY <1>6, <2>1, <2>2 DEF GoesOn
<1>9. Shaped(s) /\ Shaped(store)
  <2>1. s \in [Names -> [Fields -> OfKind(kind)]] /\ store \in [Names -> [Fields -> OfKind(kind)]]
    BY Records
  <2> HIDE DEF s
  <2>2. \A V, u : u \in [Names -> [Fields -> V]] => u = [n \in Names |-> [f \in Fields |-> u[n][f]]]
    <3> SUFFICES ASSUME NEW V, NEW u \in [Names -> [Fields -> V]]
                 PROVE  u = [n \in Names |-> [f \in Fields |-> u[n][f]]]
      OBVIOUS
    <3>1. \A n \in Names : u[n] = [f \in Fields |-> u[n][f]]
      OBVIOUS
    <3>2. [n \in Names |-> u[n]] = [n \in Names |-> [f \in Fields |-> u[n][f]]]
      BY <3>1
    <3>3. u = [n \in Names |-> u[n]]
      OBVIOUS
    <3> QED
      BY <3>2, <3>3
  <2> QED
    BY <2>1, <2>2 DEF Shaped
<1> HIDE DEF i, q, c, s
<1>10. ASSUME OnTime(t)
       PROVE  OnTheWay(c, s, store, p, NoValue, l2)
  <2>1. ~Deviates(c, s) /\ OnTheWay(c, s, store, <<i>> \o q, got[t], list[t])
    BY <1>3, <1>10 DEF OnTime, c, s
  <2>2. OnTheWay(c, s, store, <<i>> \o q, v, l)
    BY <1>4, <2>1
  <2>3. i.do \in {"first", "union", "inter", "diff"}
    BY <1>1, <1>2 DEF i
  <2>4. c \in Request /\ i \in Instruction /\ q \in Seq(Instruction)
    BY <1>3
  <2> QED
    <3>1. OnTheWay(c, s, store, GoesOn(i, q, l2), NoValue, l2)
      BY <1>5, <1>9, <2>1, <2>2, <2>3, <2>4, GatherOn
    <3> QED
      BY <1>6, <3>1
<1> QED
  BY <1>1, <1>2, <1>7, <1>8, <1>10, LookAlone DEF c, s

\* The members gathered are written to an empty destination.
LEMMA EachPutEnds ==
  ASSUME NEW n, NEW fs, NEW m, NEW f, NEW old
  PROVE  Ends(Each("hset_member", n, fs), old, m, f, IF m = n /\ f \in fs THEN Itself(f) ELSE old)
<1>1. CASE fs = {}
  <2>1. Each("hset_member", n, fs) = <<>>
    BY <1>1 DEF Each
  <2> QED
    BY <1>1, <2>1, EndsNow
<1>2. CASE fs # {}
  <2>1. PICK x : x = [do |-> "hset_member", name |-> n, fields |-> fs, value |-> NoValue]
    OBVIOUS
  <2>2. Each("hset_member", n, fs) = <<x>>
    BY <1>2, <2>1 DEF Each
  <2>3. (About(x, m, f) <=> m = n /\ f \in fs) /\ Leaves(x, f) = Itself(f)
    BY <2>1 DEF About, Leaves
  <2>4. DOMAIN <<x>> = {1} /\ <<x>>[1] = x
    OBVIOUS
  <2>5. CASE About(x, m, f)
    BY <2>2, <2>3, <2>4, <2>5 DEF Ends
  <2>6. CASE ~About(x, m, f)
    BY <2>2, <2>3, <2>4, <2>6 DEF Ends
  <2> QED
    BY <2>5, <2>6
<1> QED
  BY <1>1, <1>2

LEMMA GatheredAll ==
  ASSUME NEW c, NEW s, c.op \in SetOp, ~Deviates(c, s), NEW l,
         Len(c.from) \in Nat, DOMAIN c.from = 1..Len(c.from), Len(c.from) >= 1,
         SoFar(c.op, l, Sources(c, s), Len(c.from))
  PROVE  Range(l) \subseteq Fields /\ SetOf(Range(l)) \in After(c, s)
<1> DEFINE hs == Sources(c, s)
<1>1. DOMAIN hs = 1..Len(c.from) /\ Len(hs) = Len(c.from)
  <2>1. hs = [n \in 1..Len(c.from) |-> s[c.from[n]]]
    BY DEF Sources
  <2> HIDE DEF hs
  <2> QED
    BY <2>1
<1>2. c.op \in {"inter", "diff"} => InOrder(hs)
  BY DEF Deviates
<1>3. CASE c.op = "union"
  <2>1. Range(l) = Union(hs)
    <3> HIDE DEF hs
    <3>1. UnionOf(l, hs, Len(c.from))
      BY <1>3 DEF SoFar, hs
    <3> QED
      BY <1>1, <3>1 DEF UnionOf, Union
  <2>2. SetOf(Union(hs)) \in After(c, s)
    BY <1>3 DEF After
  <2> QED
    BY <2>1, <2>2 DEF Union
<1>4. CASE c.op = "inter"
  <2>1. Range(l) = Intersection(hs)
    <3> HIDE DEF hs
    <3>1. InterOf(l, hs, Len(c.from))
      BY <1>4 DEF SoFar, hs
    <3> QED
      BY <1>1, <1>2, <1>4, <3>1 DEF InterOf, Intersection
  <2>2. SetOf(Intersection(hs)) \in After(c, s)
    BY <1>4 DEF After
  <2> QED
    BY <2>1, <2>2 DEF Intersection
<1>5. CASE c.op = "diff"
  <2>1. Range(l) = Difference(hs)
    <3> HIDE DEF hs
    <3>1. DiffOf(l, hs, Len(c.from))
      BY <1>5 DEF SoFar, hs
    <3> QED
      BY <1>1, <1>2, <1>5, <3>1 DEF DiffOf, Difference
  <2>2. SetOf(Difference(hs)) \in After(c, s)
    BY <1>5 DEF After
  <2> QED
    BY <2>1, <2>2 DEF Difference, Members
<1> QED
  BY <1>3, <1>4, <1>5 DEF SetOp

LEMMA FillOn ==
  ASSUME NEW c \in Request, NEW s, NEW r, NEW v, NEW l,
         NEW i \in Instruction, NEW q \in Seq(Instruction), i.do = "fill", ~Deviates(c, s),
         OnTheWay(c, s, r, <<i>> \o q, v, l)
  PROVE  OnTheWay(c, s, r, Each("hset_member", i.name, {f \in Fields : f \in Range(l)}), NoValue, <<>>)
<1>1. Storing(c, s, r, <<i>> \o q, l)
  BY FinishingHead, ReadingHead DEF OnTheWay
<1>2. c.op \in SetOp /\ c.fields = <<>> /\ c.from # <<>> /\ SourcesKept(c, s, r)
  BY <1>1, StoringSplit
<1>3. PICK j \in 0..Len(c.from) + 1 :
         ReadSoFar(c, s, l, j) /\ (AtCall(c, s, r[c.name], i, q, j) \/ Emptying(c, r[c.name], i, q, j))
  BY <1>1, StoringSplit
<1>4. AtCall(c, s, r[c.name], i, q, j)
  <2>1. \A fs : [Whole("hdel", c.name) EXCEPT !.fields = fs].do = "hdel"
    BY DEF Whole
  <2> QED
    BY <1>3, <2>1 DEF Emptying
<1>5. i = Whole("fill", c.name) /\ j = Len(c.from) + 1 /\ j >= ClearAt(c)
  <2>1. i = StoreCall(c, j + 1)
    BY <1>4 DEF AtCall
  <2> QED
    BY <1>2, <1>3, <2>1, StoreCallIs
<1>6. Len(c.from) \in Nat /\ Len(c.from) >= 1 /\ ClearAt(c) \in 1..Len(c.from) + 1
  BY <1>2, ClearAtIs
<1>7. DOMAIN c.from = 1..Len(c.from) /\ FieldsOf(c) = Fields
  BY <1>2, OfCommand DEF FieldsOf
<1>8. \A f \in Fields : r[c.name][f] = NoValue
  <2>1. ~(j < ClearAt(c))
    BY <1>5, <1>6
  <2> QED
    BY <1>4, <2>1 DEF AtCall
<1>9. SoFar(c.op, l, Sources(c, s), Len(c.from))
  <2>1. Reads(c, j) = Len(c.from) /\ Reads(c, j) # 0
    BY <1>5, <1>6 DEF Reads
  <2> QED
    BY <1>3, <2>1 DEF ReadSoFar
<1>10. Range(l) \subseteq Fields /\ SetOf(Range(l)) \in After(c, s)
  BY <1>2, <1>6, <1>7, <1>9, GatheredAll
<1>11. PICK fs : fs = Range(l)
  OBVIOUS
<1>12. {f \in Fields : f \in Range(l)} = fs /\ fs \subseteq Fields
  BY <1>10, <1>11
<1>13. PICK h \in After(c, s) : h = SetOf(fs)
  BY <1>10, <1>11
<1>14. i.name = c.name
  BY <1>5, WholeIs
<1>15. PICK p : p = Each("hset_member", c.name, fs)
  OBVIOUS
<1>16. Steady(c, p)
  <2>1. <<>> \in Seq(Instruction) /\ Steady(c, <<>>)
    BY EmptySeq DEF Steady
  <2>2. Steady(c, p \o <<>>)
    BY <1>15, <2>1, EachSteady DEF Writes
  <2>3. p \o <<>> = p
    <3>1. p = <<>> \/ \E x : p = <<x>>
      BY <1>15 DEF Each
    <3>2. ASSUME NEW x PROVE <<x>> \o <<>> = <<x>>
      OBVIOUS
    <3> QED
      BY <3>1, <3>2
  <2> QED
    BY <2>2, <2>3
<1>17. \A x \in OnNames(c), f \in FieldsOf(c) : Ends(p, r[x][f], x, f, Target(c, s, h, x, f))
  <2> SUFFICES ASSUME NEW x \in OnNames(c), NEW f \in Fields
               PROVE  Ends(p, r[x][f], x, f, Target(c, s, h, x, f))
    BY <1>7
  <2>1. Target(c, s, h, x, f) = IF x = c.name THEN h[f] ELSE s[x][f]
    BY <1>2, OtherNames DEF SetOp
  <2>2. h[f] = IF f \in fs THEN Itself(f) ELSE NoValue
    BY <1>13 DEF SetOf
  <2>3. r[x][f] = IF x = c.name THEN NoValue ELSE s[x][f]
    BY <1>2, <1>8 DEF SourcesKept
  <2>4. Target(c, s, h, x, f) = IF x = c.name /\ f \in fs THEN Itself(f) ELSE r[x][f]
    BY <2>1, <2>2, <2>3
  <2>5. PICK old : old = r[x][f]
    OBVIOUS
  <2>6. Ends(p, old, x, f, IF x = c.name /\ f \in fs THEN Itself(f) ELSE old)
    BY <1>15, EachPutEnds
  <2> QED
    BY <2>4, <2>5, <2>6
<1>18. Finishing(c, s, r, p)
  BY <1>16, <1>17, FinishingBy
<1> QED
  BY <1>12, <1>14, <1>15, <1>18 DEF OnTheWay

LEMMA FillCall ==
  ASSUME SoloInv, CollectionInv', NEW t \in Threads, Fill(t)
  PROVE  SoloInv' /\ RepliesLikeRedis
<1>1. /\ Calls(t, "fill")
      /\ LET p == Each("hset_member", Now(t).name, {f \in Fields : f \in Range(list[t])})
         IN Goes(t, p) /\ Keeps(t, p, NoValue, <<>>)
      /\ UNCHANGED <<kind, store, ops, faults, kept>>
  BY DEF Fill
<1>2. prog[t] # <<>> /\ Now(t).do = "fill"
  BY <1>1 DEF Calls
<1> DEFINE i == Now(t)
           q == Rest(t)
           c == cmd[t]
           s == before[t]
<1>3. /\ i \in Instruction /\ q \in Seq(Instruction) /\ c \in Request /\ c # NoCmd
      /\ Allowed(i, c)
      /\ OnTime(t) => OnTheWay(c, s, store, <<i>> \o q, got[t], list[t])
  BY <1>2, Here
<1>4. PICK v, l : v = got[t] /\ l = list[t]
  OBVIOUS
<1>5. PICK fs : fs = {f \in Fields : f \in Range(l)}
  OBVIOUS
<1>6. PICK p : p = Each("hset_member", i.name, fs)
  OBVIOUS
<1>7. Goes(t, p) /\ Keeps(t, p, NoValue, <<>>)
  BY <1>1, <1>4, <1>5, <1>6
<1>8. \A j \in DOMAIN p : Allowed(p[j], c)
  <2>1. i.name \in OnNames(c) /\ c.fields = <<>>
    BY <1>2, <1>3 DEF Allowed
  <2>2. fs \subseteq FieldsOf(c)
    BY <1>5, <2>1 DEF FieldsOf
  <2>3. PICK e : e = <<>>
    OBVIOUS
  <2>4. e \in Seq(Instruction) /\ \A j \in DOMAIN e : Allowed(e[j], c)
    BY <2>3, EmptySeq
  <2>5. LET w == Each("hset_member", i.name, fs)
        IN w \o <<>> = w /\ \A j \in DOMAIN (w \o e) : Allowed((w \o e)[j], c)
    BY <2>1, <2>2, <2>4, EachIs
  <2>6. p \o e = p
    BY <1>6, <2>3, <2>5
  <2>7. \A j \in DOMAIN (p \o e) : Allowed((p \o e)[j], c)
    BY <1>6, <2>5
  <2> QED
    BY <2>6, <2>7
<1> HIDE DEF i, q, c, s
<1>9. ASSUME OnTime(t)
      PROVE  OnTheWay(c, s, store, p, NoValue, <<>>)
  <2>1. ~Deviates(c, s) /\ OnTheWay(c, s, store, <<i>> \o q, v, l)
    BY <1>3, <1>4, <1>9 DEF OnTime, c, s
  <2>2. i.do = "fill"
    BY <1>2 DEF i
  <2>3. OnTheWay(c, s, store, Each("hset_member", i.name, {f \in Fields : f \in Range(l)}), NoValue, <<>>)
    BY <1>3, <2>1, <2>2, FillOn
  <2> QED
    BY <1>5, <1>6, <2>3
<1> QED
  BY <1>1, <1>2, <1>7, <1>8, <1>9, LookAlone DEF c, s

LEMMA SoloStart == Init => SoloInv
<1> SUFFICES ASSUME Init PROVE SoloInv
  OBVIOUS
<1>1. CollectionInv
  BY CollectionStart
<1>2. \A t \in Threads : cmd[t] = NoCmd /\ prog[t] = <<>> /\ got[t] = NoValue /\ list[t] = <<>>
  BY DEF Init
<1>3. AllowedOK /\ ApartOK /\ IdleOK /\ OfOneKind /\ AloneOK
  BY <1>2 DEF AllowedOK, ApartOK, IdleOK, OfOneKind, AloneOK
<1> QED
  BY <1>1, <1>3 DEF SoloInv

LEMMA SoloStep == SoloInv /\ [Next]_vars => SoloInv' /\ [RepliesLikeRedis]_vars
<1> SUFFICES ASSUME SoloInv, [Next]_vars
             PROVE  SoloInv' /\ (RepliesLikeRedis \/ UNCHANGED vars)
  OBVIOUS
<1>1. CollectionInv'
  BY CollectionStep DEF SoloInv
<1>2. CASE Killed
  BY <1>1, <1>2, KilledAlone
<1>3. ASSUME NEW t \in Threads, HashCommand(t)
      PROVE  SoloInv' /\ RepliesLikeRedis
  BY <1>1, <1>3, HashAlone
<1>4. ASSUME NEW t \in Threads, SetCommand(t)
      PROVE  SoloInv' /\ RepliesLikeRedis
  BY <1>1, <1>4, SetAlone
<1>5. ASSUME NEW t \in Threads, ZSetCommand(t)
      PROVE  SoloInv' /\ RepliesLikeRedis
  BY <1>1, <1>5, ZSetAlone
<1>6. ASSUME NEW t \in Threads, FlushDb(t)
      PROVE  SoloInv' /\ RepliesLikeRedis
  BY <1>1, <1>6, FlushAlone
<1>7. ASSUME NEW t \in Threads, Work(t)
      PROVE  SoloInv' /\ RepliesLikeRedis
  <2>1. CASE Hset(t)
    BY <1>1, <2>1, HsetCall
  <2>2. CASE HsetMember(t)
    BY <1>1, <2>2, HsetMemberCall
  <2>3. CASE Hdel(t)
    BY <1>1, <2>3, HdelCall
  <2>4. CASE Hexists(t)
    BY <1>1, <2>4, HexistsCall
  <2>5. CASE GetNumber(t)
    BY <1>1, <2>5, GetNumberCall
  <2>6. CASE GetMember(t)
    BY <1>1, <2>6, GetMemberCall
  <2>7. CASE GetScore(t)
    BY <1>1, <2>7, GetScoreCall
  <2>8. CASE Add(t)
    BY <1>1, <2>8, AddCall
  <2>9. CASE Hgetall(t)
    BY <1>1, <2>9, HgetallCall
  <2>10. CASE Gather(t)
    BY <1>1, <2>10, GatherCall
  <2>11. CASE Fill(t)
    BY <1>1, <2>11, FillCall
  <2> QED
    BY <1>7, <2>1, <2>2, <2>3, <2>4, <2>5, <2>6, <2>7, <2>8, <2>9, <2>10, <2>11 DEF Work
<1>8. CASE UNCHANGED vars
  <2>1. /\ cmd' = cmd /\ prog' = prog /\ got' = got /\ list' = list /\ kind' = kind /\ store' = store
        /\ before' = before /\ disturbed' = disturbed
    BY <1>8 DEF vars, locals, history
  <2>2. AllowedOK' /\ ApartOK' /\ IdleOK' /\ OfOneKind'
    BY <2>1 DEF SoloInv, AllowedOK, ApartOK, IdleOK, OfOneKind
  <2>3. AloneOK'
    BY <2>1 DEF SoloInv, AloneOK
  <2> QED
    BY <1>1, <1>8, <2>2, <2>3 DEF SoloInv
<1>9. CASE Next
  BY <1>2, <1>3, <1>4, <1>5, <1>6, <1>7, <1>9 DEF Next
<1> QED
  BY <1>8, <1>9

\* A command that meets no other one on the records it touches has done to them, when
\* it replies, what Redis defines for it, the deviations listed with Deviates excepted:
\* whatever the others do meanwhile, and however many calls of THash it makes
\* (src/src/t_hash.cpp, t_zset.cpp and the handlers that call them).
THEOREM CollectionAlone == Spec => AloneLikeRedis
<1>1. Init => SoloInv
  BY SoloStart
<1>2. SoloInv /\ [Next]_vars => SoloInv' /\ [RepliesLikeRedis]_vars
  BY SoloStep
<1>3. RepliesLikeRedis <=>
        \A t \in Threads :
          Replies(t) /\ t \notin disturbed /\ ~Deviates(cmd[t], before[t])
            => Effect(cmd[t], before[t], store')
  BY DEF RepliesLikeRedis
<1> QED
  BY <1>1, <1>2, <1>3, PTL DEF Spec, AloneLikeRedis

=============================================================================
