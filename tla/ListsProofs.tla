------------------------------ MODULE ListsProofs ------------------------------
(***************************************************************************)
(* Proofs about Lists for any names, values, threads and bounds.           *)
(***************************************************************************)
EXTENDS Lists, SequenceTheorems, TLAPS

Working == {"element", "remove", "meta"}

\* The meta record a command finds.
Cur(n) == IF meta[n] = NoMeta THEN Fresh ELSE meta[n]

Bad == broken \cup inverted

\* A command in the middle holds the mutex of its list.
LockInv == \A t \in Threads : pc[t] \in Working => lock[Mutex(t)] = t

\* The command a stage belongs to, and the early returns it has passed.
StageOK(t) ==
  /\ pc[t] = "wait" => cmd[t] \in Push /\ cmd[t].vals # <<>>
  /\ pc[t] = "element" => cmd[t] \in Push \cup Pop \cup Set
  /\ pc[t] = "meta" => cmd[t] \in Push \cup Pop
  /\ pc[t] = "remove" => cmd[t] \in Trim \cup Clear
  /\ pc[t] \in Working =>
       /\ cmd[t] \in Push => cmd[t].vals # <<>>
       /\ cmd[t] \in Pop \cup Trim => Size(local[t]) > 0
       /\ cmd[t] \in Set => AtIndex(local[t], cmd[t].index) \in Inside(local[t])

\* An intact list; what lies outside of its bounds.
Agrees(n) ==
  /\ Len(seq[n]) = Size(Cur(n))
  /\ \A i \in 1 .. Len(seq[n]) :
       Cur(n).left + i \in DOMAIN elem[n] => elem[n][Cur(n).left + i] = seq[n][i]

ListOK(n) ==
  /\ n \notin Bad => Agrees(n)
  /\ n \notin Bad /\ ~Busy(n) => Inside(Cur(n)) \subseteq DOMAIN elem[n]
  /\ n \notin strays /\ ~Busy(n) => DOMAIN elem[n] \subseteq Inside(Cur(n))

\* The ids of the records a command in the middle must find, and may find.
Needed(t) ==
  LET m == local[t]
      c == cmd[t]
  IN CASE pc[t] = "meta" /\ c.op = "push" -> Inside(m) \cup {NewEnd(m, c.side)}
       [] pc[t] = "meta" /\ c.op = "pop" -> Inside(m) \ {End(m, c.side)}
       [] pc[t] = "remove" /\ c.op = "trim" -> Inside(Kept(m, c.start, c.stop))
       [] pc[t] = "remove" /\ c.op = "clear" -> {}
       [] OTHER -> Inside(m)

Allowed(t) == IF pc[t] = "remove" THEN Needed(t) \cup rest[t] ELSE Needed(t)

ThreadOK(t) ==
  pc[t] \in Working =>
    LET n == cmd[t].name
    IN /\ n \notin Bad => /\ local[t] = Cur(n)
                          /\ Needed(t) \subseteq DOMAIN elem[n]
                          /\ pc[t] = "meta" /\ cmd[t].op = "push" =>
                               elem[n][NewEnd(local[t], cmd[t].side)] = Head(cmd[t].vals)
       /\ n \notin strays => DOMAIN elem[n] \subseteq Allowed(t)
       /\ pc[t] = "remove" => rest[t] \cap Needed(t) = {}

GhostInv == Bad \subseteq strays

ListInv ==
  /\ TypeOK
  /\ LockInv
  /\ GhostInv
  /\ \A t \in Threads : StageOK(t) /\ ThreadOK(t)
  /\ \A n \in Names : ListOK(n)

-----------------------------------------------------------------------------
(* Metas and commands *)

AnyCommand == Push \cup Pop \cup Set \cup Trim \cup Clear

IsCommand(c) == c \in AnyCommand /\ (c \in Push => c.vals # <<>>)

LEMMA MetaArithmetic ==
  ASSUME NEW m \in Meta, NEW side \in Sides
  PROVE  /\ Size(m) \in Int /\ Inside(m) \subseteq Int
         /\ End(m, side) \in Int /\ NewEnd(m, side) \in Int
         /\ Grown(m, side) \in Meta /\ Shrunk(m, side) \in Meta
         /\ NewEnd(m, side) \notin Inside(m)
  BY DEF Meta, Sides, Size, Inside, End, NewEnd, Grown, Shrunk

LEMMA ClampBounds ==
  ASSUME NEW size \in Int, NEW i \in Int
  PROVE  /\ Clamp(i, size) \in Int
         /\ size > 0 => Clamp(i, size) \in 0 .. size - 1
  BY DEF Clamp

LEMMA KeptBounds ==
  ASSUME NEW m \in Meta, NEW i \in Int, NEW j \in Int
  PROVE  /\ Kept(m, i, j) \in Meta
         /\ Size(m) > 0 => Inside(Kept(m, i, j)) \subseteq Inside(m)
<1> DEFINE a == Clamp(i, Size(m))
           b == Clamp(j, Size(m))
<1>1. Size(m) \in Int /\ m.left \in Int /\ m.right \in Int
  BY DEF Meta, Size
<1>2. /\ a \in Int /\ b \in Int
      /\ Size(m) > 0 => a \in 0 .. Size(m) - 1 /\ b \in 0 .. Size(m) - 1
  BY <1>1, ClampBounds
<1>3. Kept(m, i, j) = [left |-> (IF m.left + 1 + a > m.left + 1 + b THEN m.right - 1
                                 ELSE m.left + 1 + a) - 1,
                       right |-> m.left + 1 + b + 1]
  BY DEF Kept
<1> HIDE DEF a, b
<1> QED
  BY <1>1, <1>2, <1>3 DEF Meta, Inside, Size

LEMMA CommandKinds ==
  ASSUME NEW c \in AnyCommand
  PROVE  /\ c.name \in Names
         /\ c \in Push <=> c.op = "push"
         /\ c \in Pop <=> c.op = "pop"
         /\ c \in Set <=> c.op = "set"
         /\ c \in Trim <=> c.op = "trim"
         /\ c \in Clear <=> c.op = "clear"
  BY DEF AnyCommand, Push, Pop, Set, Trim, Clear

LEMMA FreshMeta == Fresh \in Meta /\ Size(Fresh) = 0 /\ Inside(Fresh) = {}
  BY DEF Fresh, Meta, Size, Inside

LEMMA CurTyping ==
  ASSUME TypeOK, NEW n \in Names
  PROVE  Cur(n) \in Meta
  BY FreshMeta DEF TypeOK, Cur

\* Every command a thread takes up is one of those, and enters.
LEMMA CommandStep ==
  ASSUME ListInv, NEW t \in Threads, Command(t) \/ Resume(t), ~FlushStart(t)
  PROVE  \E c : /\ IsCommand(c)
                /\ Enter(t, c)
                /\ pc[t] \in {"idle", "wait"}
                /\ ops' \in 0..MaxOps
<1>1. ops \in 0..MaxOps /\ MaxOps \in Nat /\ MaxArgs \in Nat /\ Indexes \subseteq Int
  BY ListAssumption DEF ListInv, TypeOK
<1>2. ASSUME NEW c, Request(t, c), IsCommand(c)
      PROVE  \E d : IsCommand(d) /\ Enter(t, d) /\ pc[t] \in {"idle", "wait"} /\ ops' \in 0..MaxOps
  BY <1>1, <1>2 DEF Request
<1>3. CASE PushCommand(t)
  <2>0. PICK n \in Names, s \in Sides, k \in 1..MaxArgs : \E vs \in [1..k -> Values] :
          Request(t, [op |-> "push", name |-> n, side |-> s, vals |-> vs, ifExists |-> FALSE])
    BY <1>3 DEF PushCommand
  <2>1. PICK vs \in [1..k -> Values] :
          Request(t, [op |-> "push", name |-> n, side |-> s, vals |-> vs, ifExists |-> FALSE])
    BY <2>0
  <2>2. vs \in Seq(Item) /\ vs # <<>>
    <3>1. k \in Nat /\ k # 0
      BY <1>1
    <3>2. vs \in [1..k -> Item]
      BY DEF Item
    <3>3. vs \in Seq(Item)
      BY <3>1, <3>2, SeqDef
    <3> QED
      BY <3>1, <3>3
  <2> QED
    BY <1>2, <2>1, <2>2 DEF IsCommand, AnyCommand, Push
<1>4. CASE PushxCommand(t)
  <2>1. PICK n \in Names, s \in Sides, v \in Values :
          Request(t, [op |-> "push", name |-> n, side |-> s, vals |-> <<v>>, ifExists |-> TRUE])
    BY <1>4 DEF PushxCommand
  <2>2. <<v>> \in Seq(Item) /\ <<v>> # <<>>
    BY DEF Item
  <2> QED
    BY <1>2, <2>1, <2>2 DEF IsCommand, AnyCommand, Push
<1>5. CASE PopCommand(t)
  BY <1>2, <1>5 DEF PopCommand, IsCommand, AnyCommand, Pop, Push
<1>6. CASE RPopLPushCommand(t)
  BY <1>2, <1>6 DEF RPopLPushCommand, IsCommand, AnyCommand, Pop, Push, Sides
<1>7. CASE SetCommand(t)
  BY <1>1, <1>2, <1>7 DEF SetCommand, IsCommand, AnyCommand, Set, Push
<1>8. CASE TrimCommand(t)
  BY <1>1, <1>2, <1>8 DEF TrimCommand, IsCommand, AnyCommand, Trim, Push
<1>9. CASE ClearCommand(t)
  BY <1>2, <1>9 DEF ClearCommand, IsCommand, AnyCommand, Clear, Push
<1>10. CASE Resume(t)
  <2>1. pc[t] = "wait" /\ Enter(t, cmd[t]) /\ ops' = ops
    BY <1>10 DEF Resume
  <2>2. IsCommand(cmd[t])
    BY <2>1 DEF ListInv, StageOK, IsCommand, AnyCommand
  <2> QED
    BY <1>1, <2>1, <2>2
<1> QED
  BY <1>3, <1>4, <1>5, <1>6, <1>7, <1>8, <1>9, <1>10 DEF Command

\* What a command in the middle is, whatever its stage.
LEMMA InTheMiddle ==
  ASSUME ListInv, NEW t \in Threads, pc[t] \in Working
  PROVE  /\ IsCommand(cmd[t]) /\ cmd[t].name \in Names
         /\ local[t] \in Meta
         /\ Mutex(t) \in Stripes /\ Stripe[cmd[t].name] = Mutex(t)
         /\ lock[Mutex(t)] = t
<1>1. IsCommand(cmd[t])
  BY DEF ListInv, StageOK, Working, IsCommand, AnyCommand
<1>2. cmd[t].name \in Names
  BY <1>1, CommandKinds DEF IsCommand
<1> QED
  BY <1>1, <1>2 DEF ListInv, TypeOK, LockInv, Mutex, Stripes

\* The mutex of a list keeps all other threads out of it.
LEMMA Exclusion ==
  ASSUME ListInv, NEW t \in Threads, NEW n \in Names,
         \/ pc[t] \in Working /\ cmd[t].name = n
         \/ lock[Stripe[n]] = NoThread
  PROVE  \A u \in Threads \ {t} : pc[u] \in Working => cmd[u].name # n
<1> SUFFICES ASSUME NEW u \in Threads \ {t}, pc[u] \in Working, cmd[u].name = n
             PROVE  FALSE
  OBVIOUS
<1>1. lock[Stripe[n]] = u
  BY InTheMiddle
<1>2. pc[t] \in Working /\ cmd[t].name = n => lock[Stripe[n]] = t
  BY InTheMiddle
<1> QED
  BY <1>1, <1>2, ListAssumption
-----------------------------------------------------------------------------
(* Records and sequences *)

Records(f) == DOMAIN f \subseteq Int /\ \A i \in DOMAIN f : f[i] \in Item

LEMMA RecordTyping ==
  ASSUME NEW f, Records(f), NEW i \in Int, NEW v \in Item
  PROVE  Records(Put(f, i, v)) /\ Records(Drop(f, i))
  BY DEF Records, Put, Drop

\* w is s with v added at one side.
OneMore(w, s, side, v) ==
  /\ w \in Seq(Item)
  /\ Len(w) = Len(s) + 1
  /\ \A i \in 1 .. Len(s) + 1 :
       w[i] = IF side = "l" THEN (IF i = 1 THEN v ELSE s[i - 1])
              ELSE (IF i = Len(s) + 1 THEN v ELSE s[i])

LEMMA PushedFacts ==
  ASSUME NEW s \in Seq(Item), NEW side \in Sides, NEW v \in Item
  PROVE  OneMore(Pushed(s, side, v), s, side, v)
<1>1. CASE side = "l"
  <2>1. <<v>> \in Seq(Item) /\ Len(<<v>>) = 1 /\ <<v>>[1] = v
    OBVIOUS
  <2>2. Len(s) \in Nat
    OBVIOUS
  <2>3. /\ <<v>> \o s \in Seq(Item)
        /\ Len(<<v>> \o s) = 1 + Len(s)
        /\ \A i \in 1 .. 1 + Len(s) : (<<v>> \o s)[i] = IF i <= 1 THEN <<v>>[i] ELSE s[i - 1]
    BY <2>1, ConcatProperties
  <2> QED
    BY <1>1, <2>1, <2>2, <2>3 DEF Pushed, OneMore
<1>2. CASE side = "r"
  BY <1>2 DEF Pushed, OneMore
<1> QED
  BY <1>1, <1>2 DEF Sides

LEMMA PoppedFacts ==
  ASSUME NEW s \in Seq(Item), NEW side \in Sides, s # <<>>
  PROVE  /\ Popped(s, side) \in Seq(Item)
         /\ Len(s) \in Nat /\ Len(s) > 0
         /\ Len(Popped(s, side)) = Len(s) - 1
         /\ \A i \in 1 .. Len(s) - 1 :
              Popped(s, side)[i] = IF side = "l" THEN s[i + 1] ELSE s[i]
<1>1. Len(s) \in Nat /\ Len(s) > 0
  BY EmptySeq
<1>2. CASE side = "l"
  BY <1>1, <1>2, HeadTailProperties DEF Popped
<1>3. CASE side = "r"
  <2>1. \A i \in 1 .. Len(s) - 1 : s[i] \in Item
    BY <1>1, ElementOfSeq
  <2> DEFINE q == Len(s) - 1
  <2>2. q \in Int /\ q >= 0
    BY <1>1
  <2>3. Popped(s, side) = SubSeq(s, 1, q)
    BY <1>3 DEF Popped, Front
  <2> HIDE DEF q
  <2>4. /\ SubSeq(s, 1, q) \in Seq(Item)
        /\ Len(SubSeq(s, 1, q)) = IF 1 <= q THEN q - 1 + 1 ELSE 0
        /\ \A i \in 1 .. q - 1 + 1 : SubSeq(s, 1, q)[i] = s[1 + i - 1]
    BY <2>1, <2>2, SubSeqProperties DEF q
  <2>5. Len(SubSeq(s, 1, q)) = q /\ \A i \in 1 .. q : SubSeq(s, 1, q)[i] = s[i]
    BY <2>2, <2>4
  <2> QED
    BY <1>1, <1>3, <2>3, <2>4, <2>5 DEF q
<1> QED
  BY <1>1, <1>2, <1>3 DEF Sides

\* w is what s holds from its index a to its index b, both counted from 0.
CutOut(w, s, a, b) ==
  /\ w \in Seq(Item)
  /\ a \in 0 .. Len(s) - 1 /\ b \in 0 .. Len(s) - 1
  /\ Len(w) = IF a <= b THEN b - a + 1 ELSE 0
  /\ \A i \in 1 .. b - a + 1 : w[i] = s[a + i]

LEMMA TrimmedFacts ==
  ASSUME NEW s \in Seq(Item), NEW start \in Int, NEW stop \in Int
  PROVE  /\ Trimmed(s, start, stop) \in Seq(Item)
         /\ s # <<>> =>
              CutOut(Trimmed(s, start, stop), s, Clamp(start, Len(s)), Clamp(stop, Len(s)))
<1>1. CASE s = <<>>
  BY <1>1 DEF Trimmed
<1>2. CASE s # <<>>
  <2> DEFINE a == Clamp(start, Len(s))
             b == Clamp(stop, Len(s))
  <2>1. Len(s) \in Nat /\ Len(s) > 0
    BY <1>2, EmptySeq
  <2>2. a \in 0 .. Len(s) - 1 /\ b \in 0 .. Len(s) - 1
    <3>1. \A i \in Int : Clamp(i, Len(s)) \in 0 .. Len(s) - 1
      BY <2>1 DEF Clamp
    <3> QED
      BY <3>1
  <2>3. Trimmed(s, start, stop) = SubSeq(s, a + 1, b + 1)
    BY <1>2 DEF Trimmed
  <2> HIDE DEF a, b
  <2> DEFINE p == a + 1
             q == b + 1
             w == SubSeq(s, p, q)
  <2>4. p \in Int /\ q \in Int /\ \A i \in p .. q : s[i] \in Item
    BY <2>1, <2>2, ElementOfSeq
  <2>5. Trimmed(s, start, stop) = w /\ p = a + 1 /\ q = b + 1
    BY <2>3
  <2> HIDE DEF p, q
  <2>6. /\ w \in Seq(Item)
        /\ Len(w) = IF p <= q THEN q - p + 1 ELSE 0
        /\ \A i \in 1 .. q - p + 1 : w[i] = s[p + i - 1]
    BY <2>4, SubSeqProperties
  <2> HIDE DEF w
  <2>7. /\ Len(w) = IF a <= b THEN b - a + 1 ELSE 0
        /\ \A i \in 1 .. b - a + 1 : w[i] = s[a + i]
    <3>1. q - p + 1 = b - a + 1 /\ (p <= q <=> a <= b) /\ \A i \in Int : p + i - 1 = a + i
      BY <2>2, <2>5
    <3> QED
      BY <2>2, <2>6, <3>1
  <2> QED
    BY <1>2, <2>2, <2>5, <2>6, <2>7 DEF a, b, CutOut
<1> QED
  BY <1>1, <1>2
-----------------------------------------------------------------------------
(* Every step keeps the types *)

RecordTypes == DOMAIN elem = Names /\ \A n \in Names : Records(elem[n])

ThreadTypes ==
  /\ lock \in [Stripes -> Threads \cup {NoThread}]
  /\ pc \in [Threads -> Stage]
  /\ cmd \in [Threads -> AnyCommand \cup {NoCmd}]
  /\ local \in [Threads -> Meta]
  /\ rest \in [Threads -> SUBSET Int]
  /\ \A t \in Threads : rest[t] \subseteq Inside(local[t])
  /\ got \in [Threads -> Item]
  /\ DOMAIN flushing = Threads
  /\ \A t \in Threads : \A r \in flushing[t] : r.name \in Names
  /\ walk \in [Threads -> 0 .. Databases + 1]

OtherTypes ==
  /\ meta \in [Names -> Meta \cup {NoMeta}]
  /\ ops \in 0..MaxOps
  /\ faults \in 0..MaxFaults
  /\ seq \in [Names -> Seq(Item)]
  /\ broken \subseteq Names
  /\ strays \subseteq Names
  /\ inverted \subseteq Names

LEMMA TypesSplit == TypeOK <=> RecordTypes /\ ThreadTypes /\ OtherTypes
<1> AnyCommand = Push \cup Pop \cup Set \cup Trim \cup Clear
  BY DEF AnyCommand
<1> QED
  BY DEF TypeOK, RecordTypes, ThreadTypes, OtherTypes, Records

LEMMA ElementStep ==
  ASSUME RecordTypes, NEW n \in Names, NEW f, Records(f), elem' = [elem EXCEPT ![n] = f]
  PROVE  RecordTypes'
  BY DEF RecordTypes, Records

LEMMA LeaveTypes ==
  ASSUME ListInv, NEW t \in Threads, NEW more \in AnyCommand \cup {NoCmd}, Leave(t, more),
         pc[t] \in Working
  PROVE  /\ lock' \in [Stripes -> Threads \cup {NoThread}]
         /\ pc' \in [Threads -> Stage]
         /\ cmd' \in [Threads -> AnyCommand \cup {NoCmd}]
<1>1. ThreadTypes
  BY TypesSplit DEF ListInv
<1> QED
  BY <1>1, InTheMiddle DEF ThreadTypes, Leave, Stage

LEMMA EnterTyping ==
  ASSUME ListInv, NEW t \in Threads, NEW c, IsCommand(c), Enter(t, c), ops' \in 0..MaxOps
  PROVE  TypeOK'
<1>1. RecordTypes /\ ThreadTypes /\ OtherTypes
  BY TypesSplit DEF ListInv
<1> DEFINE m == IF meta[c.name] = NoMeta THEN Fresh ELSE meta[c.name]
<1>2. c \in AnyCommand /\ c.name \in Names
  BY CommandKinds DEF IsCommand
<1>3. m \in Meta
  BY <1>1, <1>2, FreshMeta DEF OtherTypes
<1>4. ToRemove(c, m) \subseteq Inside(m)
  BY DEF ToRemove
<1>5. local' = [local EXCEPT ![t] = m] /\ rest' = [rest EXCEPT ![t] = ToRemove(c, m)]
  BY DEF Enter
<1> HIDE DEF m
<1>6. RecordTypes' /\ OtherTypes'
  BY <1>1 DEF Enter, RecordTypes, Records, OtherTypes, data, ideal
<1>7. ThreadTypes'
  <2>1. local' \in [Threads -> Meta]
    BY <1>1, <1>3, <1>5 DEF ThreadTypes
  <2>2. rest' \in [Threads -> SUBSET Int] /\ \A u \in Threads : rest'[u] \subseteq Inside(local'[u])
    BY <1>1, <1>3, <1>4, <1>5, MetaArithmetic DEF ThreadTypes, Sides
  <2>3. lock' \in [Stripes -> Threads \cup {NoThread}]
    BY <1>1, <1>2 DEF ThreadTypes, Enter, Stripes
  <2>4. pc' \in [Threads -> Stage] /\ cmd' \in [Threads -> AnyCommand \cup {NoCmd}]
    BY <1>1, <1>2 DEF ThreadTypes, Enter, Stage
  <2>5. got' = got /\ flushing' = flushing /\ walk' = walk
    BY DEF Enter
  <2> QED
    BY <1>1, <2>1, <2>2, <2>3, <2>4, <2>5 DEF ThreadTypes
<1> QED
  BY <1>6, <1>7, TypesSplit, PTL
LEMMA StepTyping == ListInv /\ [Next]_vars => TypeOK'
<1> SUFFICES ASSUME ListInv, [Next]_vars PROVE TypeOK'
  OBVIOUS
<1> SUFFICES RecordTypes' /\ ThreadTypes' /\ OtherTypes'
  BY TypesSplit, PTL
<1>0. RecordTypes /\ ThreadTypes /\ OtherTypes
  BY TypesSplit DEF ListInv
<1>1. CASE UNCHANGED vars
  BY <1>0, <1>1 DEF vars, data, threads, ideal, RecordTypes, Records, ThreadTypes, OtherTypes
<1>2. ASSUME NEW t \in Threads, Command(t) \/ Resume(t), ~FlushStart(t)
      PROVE  RecordTypes' /\ ThreadTypes' /\ OtherTypes'
  <2>1. TypeOK'
    BY <1>2, CommandStep, EnterTyping
  <2> QED
    BY <2>1, TypesSplit, PTL
<1>3. ASSUME NEW t \in Threads, FlushStart(t)
      PROVE  RecordTypes' /\ ThreadTypes' /\ OtherTypes'
  <2>1. /\ RecordTypes' /\ walk' = [walk EXCEPT ![t] = 1]
        /\ pc' = [pc EXCEPT ![t] = "flush"] /\ ops' = ops + 1 /\ ops < MaxOps
        /\ UNCHANGED <<meta, lock, cmd, local, rest, got, flushing, faults, ideal>>
    BY <1>0, <1>3 DEF FlushStart, data, RecordTypes, Records
  <2>3. ThreadTypes'
    BY <1>0, <2>1, ListAssumption DEF ThreadTypes, Stage
  <2>4. OtherTypes'
    BY <1>0, <2>1, ListAssumption DEF OtherTypes, ideal
  <2> QED
    BY <2>1, <2>3, <2>4
<1>4. ASSUME NEW t \in Threads, PushElement(t)
      PROVE  RecordTypes' /\ ThreadTypes' /\ OtherTypes'
  <2>1. cmd[t] \in Push /\ cmd[t].name \in Names /\ cmd[t].side \in Sides /\ local[t] \in Meta
        /\ Head(cmd[t].vals) \in Item
    <3>1. pc[t] \in Working /\ cmd[t].op = "push"
      BY <1>4 DEF PushElement, Working
    <3>2. cmd[t] \in Push /\ cmd[t].name \in Names /\ cmd[t].vals # <<>> /\ local[t] \in Meta
      BY <3>1, InTheMiddle, CommandKinds DEF IsCommand
    <3> QED
      BY <3>2, HeadTailProperties DEF Push
  <2>2. Records(Put(elem[cmd[t].name], NewEnd(local[t], cmd[t].side), Head(cmd[t].vals)))
    BY <1>0, <2>1, MetaArithmetic, RecordTyping DEF RecordTypes
  <2>3. RecordTypes'
    BY <1>0, <1>4, <2>1, <2>2, ElementStep DEF PushElement
  <2>4. ThreadTypes' /\ OtherTypes'
    BY <1>0, <1>4 DEF PushElement, ThreadTypes, OtherTypes, Stage, ideal
  <2> QED
    BY <2>3, <2>4
<1>5. ASSUME NEW t \in Threads, PopElement(t)
      PROVE  RecordTypes' /\ ThreadTypes' /\ OtherTypes'
  <2>1. cmd[t].name \in Names /\ cmd[t].side \in Sides /\ local[t] \in Meta
    <3>1. pc[t] \in Working /\ cmd[t].op = "pop"
      BY <1>5 DEF PopElement, Working
    <3> QED
      BY <3>1, InTheMiddle, CommandKinds DEF IsCommand, Pop
  <2> DEFINE i == End(local[t], cmd[t].side)
  <2>2. i \in Int /\ Records(Drop(elem[cmd[t].name], i)) /\ Stored(cmd[t].name, i) \in Item
    <3>1. i \in Int /\ Records(elem[cmd[t].name])
      BY <1>0, <2>1, MetaArithmetic DEF RecordTypes
    <3> HIDE DEF i
    <3> QED
      BY <3>1, RecordTyping DEF Records, Stored, Drop, Item
  <2>3. RecordTypes'
    BY <1>0, <1>5, <2>1, <2>2, ElementStep DEF PopElement
  <2>4. got' \in [Threads -> Item]
    BY <1>0, <1>5, <2>2 DEF PopElement, ThreadTypes
  <2>5. ThreadTypes' /\ OtherTypes'
    BY <1>0, <1>5, <2>4 DEF PopElement, ThreadTypes, OtherTypes, Stage, ideal
  <2> QED
    BY <2>3, <2>5
<1>6. ASSUME NEW t \in Threads, SetElement(t)
      PROVE  RecordTypes' /\ ThreadTypes' /\ OtherTypes'
  <2> DEFINE c == cmd[t]
             i == AtIndex(local[t], c.index)
  <2>1. /\ pc[t] \in Working /\ c.name \in Names /\ c.val \in Item /\ i \in Inside(local[t])
        /\ local[t] \in Meta
    <3>1. pc[t] \in Working /\ cmd[t].op = "set"
      BY <1>6 DEF SetElement, Working
    <3>2. c \in Set
      BY <3>1, InTheMiddle, CommandKinds DEF IsCommand
    <3> QED
      BY <3>1, <3>2, InTheMiddle DEF Set, Item, ListInv, StageOK
  <2>2. i \in Int
    BY <2>1 DEF Inside, Meta
  <2>3. /\ elem' = [elem EXCEPT ![c.name] = Put(@, i, c.val)]
        /\ seq' = IF c.name \in broken \cup inverted THEN seq
                  ELSE [seq EXCEPT ![c.name][i - local[t].left] = c.val]
        /\ Leave(t, NoCmd)
        /\ UNCHANGED <<meta, local, rest, got, flushing, walk, ops, faults, broken, strays, inverted>>
    BY <1>6 DEF SetElement
  <2>4. c.name \notin Bad => i - local[t].left \in 1 .. Len(seq[c.name])
    <3>1. c.name \notin Bad => Len(seq[c.name]) = Size(local[t])
      BY <2>1 DEF ListInv, ListOK, Agrees, ThreadOK
    <3> QED
      BY <2>1, <2>2, <3>1 DEF Inside, Meta, Size
  <2> HIDE DEF i
  <2>5. RecordTypes'
    <3>1. Records(Put(elem[c.name], i, c.val))
      BY <1>0, <2>1, <2>2, RecordTyping DEF RecordTypes
    <3> QED
      BY <1>0, <2>1, <2>3, <3>1, ElementStep
  <2>6. seq' \in [Names -> Seq(Item)]
    <3>1. CASE c.name \in Bad
      BY <1>0, <2>3, <3>1 DEF OtherTypes, Bad
    <3>2. CASE c.name \notin Bad
      <4>1. [seq[c.name] EXCEPT ![i - local[t].left] = c.val] \in Seq(Item)
        BY <1>0, <2>1, <2>4, <3>2, ExceptSeq DEF OtherTypes
      <4> QED
        BY <1>0, <2>1, <2>3, <3>2, <4>1 DEF OtherTypes, Bad
    <3> QED
      BY <3>1, <3>2
  <2>7. ThreadTypes' /\ OtherTypes'
    BY <1>0, <2>1, <2>3, <2>6, LeaveTypes DEF ThreadTypes, OtherTypes
  <2> QED
    BY <2>5, <2>7
<1>7. ASSUME NEW t \in Threads, RemoveElement(t)
      PROVE  RecordTypes' /\ ThreadTypes' /\ OtherTypes'
  <2>1. cmd[t].name \in Names
    <3>1. pc[t] \in Working
      BY <1>7 DEF RemoveElement, Working
    <3> QED
      BY <3>1, InTheMiddle
  <2>2. PICK i \in rest[t] : /\ elem' = [elem EXCEPT ![cmd[t].name] = Drop(@, i)]
                             /\ rest' = [rest EXCEPT ![t] = @ \ {i}]
    BY <1>7 DEF RemoveElement
  <2>3. Records(Drop(elem[cmd[t].name], i))
    BY <1>0, <2>1 DEF RecordTypes, Records, Drop
  <2>4. RecordTypes'
    BY <1>0, <2>1, <2>2, <2>3, ElementStep
  <2>5. ThreadTypes' /\ OtherTypes'
    BY <1>0, <1>7, <2>2 DEF RemoveElement, ThreadTypes, OtherTypes, ideal
  <2> QED
    BY <2>4, <2>5
<1>8. ASSUME NEW t \in Threads, PushMeta(t)
      PROVE  RecordTypes' /\ ThreadTypes' /\ OtherTypes'
  <2> DEFINE c == cmd[t]
             more == IF Len(c.vals) = 1 THEN NoCmd ELSE [c EXCEPT !.vals = Tail(@)]
  <2>1. pc[t] \in Working /\ c \in Push /\ c.vals # <<>> /\ local[t] \in Meta
    <3>1. pc[t] \in Working /\ cmd[t].op = "push"
      BY <1>8 DEF PushMeta, Working
    <3> QED
      BY <3>1, InTheMiddle, CommandKinds DEF IsCommand
  <2>2. /\ c.name \in Names /\ c.side \in Sides
        /\ Head(c.vals) \in Item /\ Tail(c.vals) \in Seq(Item)
    BY <2>1, HeadTailProperties DEF Push
  <2>3. more \in AnyCommand \cup {NoCmd}
    BY <2>1, <2>2 DEF Push, AnyCommand
  <2>4. /\ meta' = [meta EXCEPT ![c.name] = Grown(local[t], c.side)]
        /\ seq' = [seq EXCEPT ![c.name] = Pushed(@, c.side, Head(c.vals))]
        /\ Leave(t, more)
        /\ UNCHANGED <<elem, local, rest, got, flushing, walk, ops, faults, broken, strays, inverted>>
    BY <1>8 DEF PushMeta
  <2>5. /\ Grown(local[t], c.side) \in Meta
        /\ Pushed(seq[c.name], c.side, Head(c.vals)) \in Seq(Item)
    BY <1>0, <2>1, <2>2, MetaArithmetic, PushedFacts DEF OtherTypes, OneMore
  <2> HIDE DEF more
  <2>6. RecordTypes' /\ OtherTypes'
    BY <1>0, <2>2, <2>4, <2>5 DEF RecordTypes, Records, OtherTypes
  <2>7. ThreadTypes'
    BY <1>0, <2>1, <2>3, <2>4, LeaveTypes DEF ThreadTypes
  <2> QED
    BY <2>6, <2>7
<1>9. ASSUME NEW t \in Threads, PopMeta(t)
      PROVE  RecordTypes' /\ ThreadTypes' /\ OtherTypes'
  <2> DEFINE c == cmd[t]
             more == IF c.dest = NoName THEN NoCmd
                     ELSE [op |-> "push", name |-> c.dest, side |-> "l",
                           vals |-> <<got[t]>>, ifExists |-> FALSE]
  <2>1. pc[t] \in Working /\ c \in Pop /\ local[t] \in Meta
    <3>1. pc[t] \in Working /\ cmd[t].op = "pop"
      BY <1>9 DEF PopMeta, Working
    <3> QED
      BY <3>1, InTheMiddle, CommandKinds DEF IsCommand
  <2>2. c.name \in Names /\ c.side \in Sides /\ c.dest \in Names \cup {NoName}
    BY <2>1 DEF Pop
  <2>3. more \in AnyCommand \cup {NoCmd}
    <3>1. <<got[t]>> \in Seq(Item)
      BY <1>0 DEF ThreadTypes
    <3> QED
      BY <2>2, <3>1 DEF Push, AnyCommand, Sides
  <2>4. /\ meta' = [meta EXCEPT ![c.name] = Shrunk(local[t], c.side)]
        /\ seq' = IF seq[c.name] = <<>> THEN seq ELSE [seq EXCEPT ![c.name] = Popped(@, c.side)]
        /\ got' = [got EXCEPT ![t] = Empty]
        /\ Leave(t, more)
        /\ UNCHANGED <<elem, local, rest, flushing, walk, ops, faults, broken, strays, inverted>>
    BY <1>9 DEF PopMeta
  <2>5. /\ Shrunk(local[t], c.side) \in Meta
        /\ seq[c.name] # <<>> => Popped(seq[c.name], c.side) \in Seq(Item)
    BY <1>0, <2>1, <2>2, MetaArithmetic, PoppedFacts DEF OtherTypes
  <2> HIDE DEF more
  <2>6. RecordTypes' /\ OtherTypes'
    BY <1>0, <2>2, <2>4, <2>5 DEF RecordTypes, Records, OtherTypes
  <2>7. ThreadTypes'
    BY <1>0, <2>1, <2>3, <2>4, LeaveTypes DEF ThreadTypes, Item
  <2> QED
    BY <2>6, <2>7
<1>10. ASSUME NEW t \in Threads, TrimMeta(t)
      PROVE  RecordTypes' /\ ThreadTypes' /\ OtherTypes'
  <2> DEFINE c == cmd[t]
             k == Kept(local[t], c.start, c.stop)
  <2>1. pc[t] \in Working /\ c \in Trim /\ local[t] \in Meta
    <3>1. pc[t] \in Working /\ cmd[t].op = "trim"
      BY <1>10 DEF TrimMeta, Working
    <3> QED
      BY <3>1, InTheMiddle, CommandKinds DEF IsCommand
  <2>2. c.name \in Names /\ c.start \in Int /\ c.stop \in Int
    BY <2>1 DEF Trim
  <2>3. /\ meta' = [meta EXCEPT ![c.name] = k]
        /\ seq' = [seq EXCEPT ![c.name] = Trimmed(@, c.start, c.stop)]
        /\ inverted' \subseteq inverted \cup {c.name} /\ strays' \subseteq strays \cup {c.name}
        /\ Leave(t, NoCmd)
        /\ UNCHANGED <<elem, local, rest, got, flushing, walk, ops, faults, broken>>
    BY <1>10 DEF TrimMeta
  <2>4. k \in Meta /\ Trimmed(seq[c.name], c.start, c.stop) \in Seq(Item)
    BY <1>0, <2>1, <2>2, KeptBounds, TrimmedFacts DEF OtherTypes
  <2> HIDE DEF k
  <2>5. RecordTypes' /\ OtherTypes'
    BY <1>0, <2>2, <2>3, <2>4 DEF RecordTypes, Records, OtherTypes
  <2>6. ThreadTypes'
    BY <1>0, <2>1, <2>3, LeaveTypes DEF ThreadTypes
  <2> QED
    BY <2>5, <2>6
<1>11. ASSUME NEW t \in Threads, ClearMeta(t)
      PROVE  RecordTypes' /\ ThreadTypes' /\ OtherTypes'
  <2> DEFINE n == cmd[t].name
  <2>1. pc[t] \in Working /\ n \in Names
    <3>1. pc[t] \in Working
      BY <1>11 DEF ClearMeta, Working
    <3> QED
      BY <3>1, InTheMiddle
  <2>2. /\ meta' = [meta EXCEPT ![n] = NoMeta]
        /\ seq' = [seq EXCEPT ![n] = <<>>]
        /\ broken' \subseteq broken /\ inverted' \subseteq inverted
        /\ Leave(t, NoCmd)
        /\ UNCHANGED <<elem, local, rest, got, flushing, walk, ops, faults, strays>>
    BY <1>11 DEF ClearMeta
  <2>3. RecordTypes' /\ OtherTypes'
    BY <1>0, <2>1, <2>2 DEF RecordTypes, Records, OtherTypes
  <2>4. ThreadTypes'
    BY <1>0, <2>1, <2>2, LeaveTypes DEF ThreadTypes
  <2> QED
    BY <2>3, <2>4
<1>12. ASSUME NEW t \in Threads, FlushRecord(t)
      PROVE  RecordTypes' /\ ThreadTypes' /\ OtherTypes'
  <2>1. PICK r \in flushing[t] :
          /\ flushing' = [flushing EXCEPT ![t] = @ \ {r}]
          /\ broken' = broken \cup {r.name}
          /\ strays' = strays \cup {r.name}
          /\ \/ meta' = [meta EXCEPT ![r.name] = NoMeta] /\ UNCHANGED elem
             \/ elem' = [elem EXCEPT ![r.name] = Drop(@, r.id)] /\ UNCHANGED meta
    BY <1>12 DEF FlushRecord
  <2>2. r.name \in Names
    BY <1>0 DEF ThreadTypes
  <2>3. RecordTypes'
    <3>1. Records(Drop(elem[r.name], r.id))
      BY <1>0, <2>2 DEF RecordTypes, Records, Drop
    <3> QED
      BY <1>0, <2>1, <2>2, <3>1, ElementStep DEF RecordTypes, Records
  <2>4. ThreadTypes' /\ OtherTypes'
    BY <1>0, <1>12, <2>1, <2>2 DEF FlushRecord, ThreadTypes, OtherTypes
  <2> QED
    BY <2>3, <2>4
<1>15. ASSUME NEW t \in Threads, FlushDatabase(t)
      PROVE  RecordTypes' /\ ThreadTypes' /\ OtherTypes'
  <2>1. PICK found \in SUBSET Snapshot : flushing' = [flushing EXCEPT ![t] = found]
    BY <1>15 DEF FlushDatabase
  <2>2. \A r \in found : r.name \in Names
    BY <2>1 DEF Snapshot
  <2>3. walk' \in [Threads -> 0 .. Databases + 1]
    BY <1>0, <1>15, ListAssumption DEF FlushDatabase, ThreadTypes
  <2>4. UNCHANGED <<data, lock, pc, cmd, local, rest, got, ops, faults, ideal>>
    BY <1>15 DEF FlushDatabase
  <2>5. ThreadTypes'
    BY <1>0, <2>1, <2>2, <2>3, <2>4 DEF ThreadTypes
  <2> QED
    BY <1>0, <2>4, <2>5 DEF data, ideal, RecordTypes, Records, OtherTypes
<1>13. ASSUME NEW t \in Threads, FlushDone(t)
      PROVE  RecordTypes' /\ ThreadTypes' /\ OtherTypes'
  <2>1. PICK gone \in SUBSET Names :
          /\ pc' = [pc EXCEPT ![t] = "idle"]
          /\ seq' = [n \in Names |-> IF n \in gone THEN <<>> ELSE seq[n]]
          /\ broken' = broken \ gone
          /\ strays' = strays \ gone
          /\ inverted' = inverted \ gone
          /\ walk' = [walk EXCEPT ![t] = 0]
          /\ UNCHANGED <<data, lock, cmd, local, rest, got, flushing, ops, faults>>
    BY <1>13 DEF FlushDone
  <2>2. seq' \in [Names -> Seq(Item)]
    BY <1>0, <2>1 DEF OtherTypes
  <2> QED
    BY <1>0, <2>1, <2>2, ListAssumption DEF data, RecordTypes, Records, ThreadTypes, OtherTypes, Stage
<1>14. CASE Killed
  <2>1. RecordTypes' /\ OtherTypes'
    BY <1>0, <1>14, ListAssumption DEF Killed, data, RecordTypes, Records, OtherTypes
  <2>2. ThreadTypes'
    BY <1>14, FreshMeta, ListAssumption DEF Killed, ThreadTypes, Stage, Item
  <2> QED
    BY <2>1, <2>2
<1> QED
  BY <1>1, <1>2, <1>3, <1>4, <1>5, <1>6, <1>7, <1>8, <1>9, <1>10, <1>11, <1>12, <1>13, <1>14, <1>15
     DEF Next, Work
-----------------------------------------------------------------------------
(* Stages and mutexes *)

OthersWork(t) ==
  \A u \in Threads \ {t} : /\ pc'[u] = pc[u] /\ cmd'[u] = cmd[u]
                           /\ local'[u] = local[u] /\ rest'[u] = rest[u]

LEMMA OneThread ==
  ASSUME ListInv, NEW t \in Threads, Command(t) \/ Work(t)
  PROVE  OthersWork(t)
<1>1. ASSUME NEW c, Enter(t, c) PROVE OthersWork(t)
  BY <1>1 DEF ListInv, TypeOK, Enter, OthersWork
<1>2. CASE Command(t) \/ Resume(t)
  <2>1. CASE FlushStart(t)
    BY <2>1 DEF ListInv, TypeOK, FlushStart, OthersWork
  <2> QED
    BY <1>1, <1>2, <2>1, CommandStep
<1>3. CASE PushElement(t) \/ PopElement(t) \/ RemoveElement(t) \/ FlushRecord(t)
  BY <1>3 DEF ListInv, TypeOK, PushElement, PopElement, RemoveElement, FlushRecord, OthersWork
<1>4. ASSUME NEW more, Leave(t, more), UNCHANGED <<local, rest>>
      PROVE  OthersWork(t)
  BY <1>4 DEF ListInv, TypeOK, Leave, OthersWork
<1>5. CASE PushMeta(t) \/ PopMeta(t) \/ SetElement(t) \/ TrimMeta(t) \/ ClearMeta(t)
  BY <1>4, <1>5 DEF PushMeta, PopMeta, SetElement, TrimMeta, ClearMeta
<1>6. CASE FlushDatabase(t) \/ FlushDone(t)
  BY <1>6 DEF ListInv, TypeOK, FlushDatabase, FlushDone, OthersWork
<1> QED
  BY <1>2, <1>3, <1>5, <1>6 DEF Work

LEMMA OtherStages ==
  ASSUME ListInv, NEW t \in Threads, OthersWork(t), NEW u \in Threads \ {t}
  PROVE  StageOK(u)'
  BY DEF ListInv, OthersWork, StageOK, Working

\* A thread that stays in the middle of its command, or leaves it.
LEMMA SameMutexes ==
  ASSUME ListInv, NEW t \in Threads, OthersWork(t),
         \/ /\ lock' = lock
            /\ pc'[t] \in Working => pc[t] \in Working /\ cmd'[t] = cmd[t]
         \/ \E more : Leave(t, more) /\ pc[t] \in Working
  PROVE  LockInv'
<1>1. CASE lock' = lock /\ (pc'[t] \in Working => pc[t] \in Working /\ cmd'[t] = cmd[t])
  BY <1>1 DEF ListInv, LockInv, OthersWork, Mutex
<1>2. ASSUME NEW more, Leave(t, more), pc[t] \in Working
      PROVE  LockInv'
  <2>1. pc'[t] \notin Working /\ lock' = [lock EXCEPT ![Mutex(t)] = NoThread]
    BY <1>2 DEF Leave, ListInv, TypeOK, Working
  <2>2. ASSUME NEW u \in Threads, pc'[u] \in Working
        PROVE  lock'[Stripe[cmd'[u].name]] = u
    <3>1. u # t /\ pc[u] \in Working /\ cmd'[u] = cmd[u]
      BY <2>1, <2>2 DEF OthersWork
    <3>2. lock[Mutex(u)] = u /\ lock[Mutex(t)] = t /\ Mutex(u) \in Stripes
      BY <1>2, <3>1, InTheMiddle
    <3>3. lock'[Mutex(u)] = u
      BY <2>1, <3>1, <3>2 DEF ListInv, TypeOK
    <3> QED
      BY <3>1, <3>3 DEF Mutex
  <2> QED
    BY <2>2 DEF LockInv, Mutex
<1> QED
  BY <1>1, <1>2

LEMMA StepStages ==
  ListInv /\ [Next]_vars => LockInv' /\ \A t \in Threads : StageOK(t)'
<1> SUFFICES ASSUME ListInv, [Next]_vars PROVE LockInv' /\ \A t \in Threads : StageOK(t)'
  OBVIOUS
<1> DEFINE Goal(t) == LockInv' /\ StageOK(t)'
<1>1. CASE UNCHANGED vars
  BY <1>1 DEF vars, threads, ListInv, LockInv, StageOK, Mutex
<1>2. ASSUME NEW t \in Threads, Command(t) \/ Resume(t), ~FlushStart(t)
      PROVE  Goal(t)
  <2>1. PICK c : IsCommand(c) /\ Enter(t, c) /\ pc[t] \in {"idle", "wait"}
    BY <1>2, CommandStep
  <2> DEFINE m == IF meta[c.name] = NoMeta THEN Fresh ELSE meta[c.name]
  <2>2. c \in AnyCommand /\ c.name \in Names /\ (c \in Push => c.vals # <<>>)
    BY <2>1, CommandKinds DEF IsCommand
  <2>3. /\ cmd'[t] = c /\ local'[t] = m
        /\ pc'[t] = IF c.op \in {"trim", "clear"} THEN "remove" ELSE "element"
        /\ lock[Stripe[c.name]] = NoThread /\ lock' = [lock EXCEPT ![Stripe[c.name]] = t]
        /\ ~Refused(c, meta[c.name])
    BY <2>1 DEF Enter, ListInv, TypeOK
  <2>4. OthersWork(t)
    BY <1>2, OneThread DEF Work
  <2>5. LockInv'
    <3> SUFFICES ASSUME NEW u \in Threads, pc'[u] \in Working
                 PROVE  lock'[Stripe[cmd'[u].name]] = u
      BY DEF LockInv, Mutex
    <3>1. CASE u = t
      BY <2>2, <2>3, <3>1 DEF ListInv, TypeOK, Stripes
    <3>2. CASE u # t
      <4>1. pc[u] \in Working /\ cmd'[u] = cmd[u] /\ lock[Mutex(u)] = u /\ Mutex(u) \in Stripes
        BY <2>4, <3>2, InTheMiddle DEF OthersWork
      <4>2. Mutex(u) # Stripe[c.name]
        BY <2>3, <4>1, ListAssumption
      <4> QED
        BY <2>3, <4>1, <4>2 DEF ListInv, TypeOK, Mutex
    <3> QED
      BY <3>1, <3>2
  <2>6. StageOK(t)'
    <3>1. /\ c \in Pop \cup Trim => Size(m) > 0
          /\ c \in Set => AtIndex(m, c.index) \in Inside(m)
      <4>1. meta[c.name] # NoMeta => m = meta[c.name] /\ m \in Meta /\ Size(m) \in Int
        BY <2>2 DEF ListInv, TypeOK, Meta, Size
      <4>2. c \in Pop \cup Trim => meta[c.name] # NoMeta /\ ~(Size(meta[c.name]) <= 0)
        BY <2>2, <2>3, CommandKinds DEF Refused
      <4>3. c \in Set => meta[c.name] # NoMeta /\ AtIndex(meta[c.name], c.index) \in Inside(meta[c.name])
        BY <2>2, <2>3, CommandKinds DEF Refused
      <4> HIDE DEF m
      <4> QED
        BY <4>1, <4>2, <4>3
    <3>2. CASE c.op \in {"trim", "clear"}
      BY <2>2, <2>3, <3>1, <3>2, CommandKinds DEF StageOK, Working
    <3>3. CASE c.op \notin {"trim", "clear"}
      BY <2>2, <2>3, <3>1, <3>3, CommandKinds DEF StageOK, Working, AnyCommand
    <3> QED
      BY <3>2, <3>3
  <2> QED
    BY <2>5, <2>6
<1>3. ASSUME NEW t \in Threads, FlushStart(t) \/ FlushDatabase(t) \/ FlushDone(t)
      PROVE  Goal(t)
  <2>1. pc'[t] \in {"flush", "idle"} /\ lock' = lock
    BY <1>3 DEF FlushStart, FlushDatabase, FlushDone, ListInv, TypeOK
  <2> QED
    BY <1>3, <2>1, OneThread, SameMutexes DEF Command, Work, StageOK, Working
<1>4. ASSUME NEW t \in Threads, PushElement(t) \/ PopElement(t) \/ RemoveElement(t)
      PROVE  Goal(t)
  <2>1. /\ pc[t] \in Working /\ lock' = lock /\ cmd' = cmd /\ local' = local
        /\ \/ pc[t] = "element" /\ cmd[t].op \in {"push", "pop"} /\ pc'[t] = "meta"
           \/ pc[t] = "remove" /\ pc'[t] = "remove"
    BY <1>4 DEF PushElement, PopElement, RemoveElement, Working, ListInv, TypeOK
  <2>2. LockInv'
    BY <1>4, <2>1, OneThread, SameMutexes DEF Work
  <2>3. cmd[t] \in AnyCommand
    BY <2>1, InTheMiddle DEF IsCommand
  <2>4. StageOK(t)'
    BY <2>1, <2>3, CommandKinds DEF ListInv, StageOK, Working
  <2> QED
    BY <2>2, <2>4
<1>5. ASSUME NEW t \in Threads, NEW more, Leave(t, more), pc[t] \in Working, OthersWork(t),
             more # NoCmd => more \in Push /\ more.vals # <<>>
      PROVE  Goal(t)
  <2>1. LockInv'
    BY <1>5, SameMutexes
  <2>2. /\ pc'[t] = (IF more = NoCmd THEN "idle" ELSE "wait")
        /\ cmd'[t] = more
    BY <1>5 DEF Leave, ListInv, TypeOK
  <2> QED
    BY <1>5, <2>1, <2>2 DEF StageOK, Working
<1>6. ASSUME NEW t \in Threads, SetElement(t) \/ TrimMeta(t) \/ ClearMeta(t)
      PROVE  Goal(t)
  <2>1. pc[t] \in Working /\ Leave(t, NoCmd)
    BY <1>6 DEF SetElement, TrimMeta, ClearMeta, Working
  <2> QED
    BY <1>5, <1>6, <2>1, OneThread DEF Work
<1>7. ASSUME NEW t \in Threads, PushMeta(t)
      PROVE  Goal(t)
  <2> DEFINE c == cmd[t]
             more == IF Len(c.vals) = 1 THEN NoCmd ELSE [c EXCEPT !.vals = Tail(@)]
  <2>1. pc[t] \in Working /\ c.op = "push" /\ Leave(t, more)
    BY <1>7 DEF PushMeta, Working
  <2>2. c \in Push /\ c.vals # <<>>
    BY <2>1, InTheMiddle, CommandKinds DEF IsCommand
  <2>3. Len(c.vals) # 1 => [c EXCEPT !.vals = Tail(@)] \in Push /\ Tail(c.vals) # <<>>
    <3>1. c.vals \in Seq(Item)
      BY <2>2 DEF Push
    <3>2. Tail(c.vals) \in Seq(Item) /\ Len(Tail(c.vals)) = Len(c.vals) - 1 /\ Len(c.vals) \in Nat
      BY <2>2, <3>1, HeadTailProperties
    <3>3. Len(c.vals) # 1 => Tail(c.vals) # <<>>
      <4> DEFINE w == Tail(c.vals)
      <4>1. Len(w) = Len(c.vals) - 1 /\ Len(c.vals) \in Nat
        BY <3>2
      <4> HIDE DEF w
      <4>2. w = <<>> => Len(w) = 0
        OBVIOUS
      <4>3. Len(c.vals) # 1 => w # <<>>
        BY <4>1, <4>2
      <4> QED
        BY <4>3 DEF w
    <3>4. [c EXCEPT !.vals = Tail(@)] \in Push
      BY <2>2, <3>2 DEF Push
    <3> QED
      BY <3>3, <3>4
  <2>4. more # NoCmd => more \in Push /\ more.vals # <<>>
    BY <2>2, <2>3 DEF Push
  <2> HIDE DEF more
  <2> QED
    BY <1>5, <1>7, <2>1, <2>4, OneThread DEF Work
<1>8. ASSUME NEW t \in Threads, PopMeta(t)
      PROVE  Goal(t)
  <2> DEFINE c == cmd[t]
             next == [op |-> "push", name |-> c.dest, side |-> "l",
                      vals |-> <<got[t]>>, ifExists |-> FALSE]
             more == IF c.dest = NoName THEN NoCmd ELSE next
  <2>1. pc[t] \in Working /\ c.op = "pop" /\ Leave(t, more)
    BY <1>8 DEF PopMeta, Working
  <2>2. c \in Pop /\ got[t] \in Item
    BY <2>1, InTheMiddle, CommandKinds DEF IsCommand, ListInv, TypeOK
  <2>3. <<got[t]>> \in Seq(Item) /\ <<got[t]>> # <<>>
    BY <2>2
  <2>4. more # NoCmd => more \in Push /\ more.vals # <<>>
    BY <2>2, <2>3 DEF Push, Pop, Sides
  <2> HIDE DEF more
  <2> QED
    BY <1>5, <1>8, <2>1, <2>4, OneThread DEF Work
<1>9. ASSUME NEW t \in Threads, FlushRecord(t)
      PROVE  Goal(t)
  <2>1. pc[t] = "flush" /\ pc' = pc /\ lock' = lock /\ cmd' = cmd
    BY <1>9 DEF FlushRecord
  <2> QED
    BY <1>9, <2>1, OneThread, SameMutexes DEF Work, StageOK, Working
<1>10. CASE Killed
  BY <1>10 DEF Killed, LockInv, StageOK, Working
<1>11. ASSUME NEW t \in Threads, Command(t) \/ Work(t)
       PROVE  LockInv' /\ \A u \in Threads : StageOK(u)'
  <2>1. Goal(t)
    BY <1>2, <1>3, <1>4, <1>6, <1>7, <1>8, <1>9, <1>11 DEF Work, Command
  <2>2. \A u \in Threads \ {t} : StageOK(u)'
    BY <1>11, OneThread, OtherStages
  <2> QED
    BY <2>1, <2>2
<1> QED
  BY <1>1, <1>10, <1>11 DEF Next
-----------------------------------------------------------------------------
(* Records of the lists *)

OtherLists(n) ==
  \A m \in Names \ {n} : /\ meta'[m] = meta[m] /\ elem'[m] = elem[m] /\ seq'[m] = seq[m]
                         /\ m \in Bad => m \in broken' \cup inverted'
                         /\ m \in strays => m \in strays'

\* A step of one thread on one list leaves all other threads and lists alone.
LEMMA Frame ==
  ASSUME ListInv, NEW t \in Threads, NEW n \in Names, OthersWork(t), OtherLists(n),
         pc[t] \in Working => cmd[t].name = n,
         pc'[t] \in Working => cmd'[t].name = n,
         \A u \in Threads \ {t} : pc[u] \in Working => cmd[u].name # n
  PROVE  /\ \A m \in Names \ {n} : ListOK(m)'
         /\ \A u \in Threads \ {t} : ThreadOK(u)'
         /\ Busy(n)' <=> pc'[t] \in Working
<1>1. Busy(n)' <=> pc'[t] \in Working
  BY DEF OthersWork, Busy, Working
<1>2. ASSUME NEW m \in Names \ {n}
      PROVE  ListOK(m)'
  <2>1. Busy(m)' <=> Busy(m)
    BY <1>2 DEF OthersWork, Busy, Working
  <2>2. ListOK(m)
    BY DEF ListInv
  <2>3. /\ Cur(m)' = Cur(m) /\ elem'[m] = elem[m] /\ seq'[m] = seq[m]
        /\ m \notin Bad' => m \notin Bad
        /\ m \notin strays' => m \notin strays
    BY DEF OtherLists, Cur, Bad
  <2> QED
    BY <2>1, <2>2, <2>3 DEF ListOK, Agrees
<1>3. ASSUME NEW u \in Threads \ {t}
      PROVE  ThreadOK(u)'
  <2> SUFFICES ASSUME pc'[u] \in Working PROVE ThreadOK(u)'
    BY DEF ThreadOK
  <2>1. /\ pc'[u] = pc[u] /\ cmd'[u] = cmd[u] /\ local'[u] = local[u] /\ rest'[u] = rest[u]
        /\ pc[u] \in Working
    BY DEF OthersWork
  <2>2. cmd[u].name \in Names \ {n} /\ ThreadOK(u)
    BY <2>1, InTheMiddle DEF ListInv
  <2>3. /\ Cur(cmd[u].name)' = Cur(cmd[u].name)
        /\ elem'[cmd[u].name] = elem[cmd[u].name]
        /\ cmd[u].name \notin Bad' => cmd[u].name \notin Bad
        /\ cmd[u].name \notin strays' => cmd[u].name \notin strays
    BY <2>1, <2>2 DEF OtherLists, Cur, Bad
  <2>4. Needed(u)' = Needed(u) /\ Allowed(u)' = Allowed(u)
    BY <2>1 DEF Needed, Allowed
  <2> QED
    BY <2>1, <2>2, <2>3, <2>4 DEF ThreadOK
<1> QED
  BY <1>1, <1>2, <1>3

LEMMA Positions ==
  ASSUME NEW m \in Meta, NEW i \in 1 .. Size(m)
  PROVE  m.left + i \in Inside(m) /\ i \in Int
  BY DEF Meta, Size, Inside

\* The same for the actions whose thread is in the middle of a command.
LEMMA FrameInTheMiddle ==
  ASSUME ListInv, NEW t \in Threads, NEW n \in Names, pc[t] \in Working, cmd[t].name = n,
         Work(t), OtherLists(n),
         pc'[t] \in Working => cmd'[t].name = n
  PROVE  /\ \A u \in Threads \ {t} : ThreadOK(u)'
         /\ \A m \in Names \ {n} : ListOK(m)'
         /\ Busy(n)' <=> pc'[t] \in Working
<1>1. \A u \in Threads \ {t} : pc[u] \in Working => cmd[u].name # n
  BY Exclusion
<1>2. OthersWork(t)
  BY OneThread
<1> QED
  BY <1>1, <1>2, Frame

Intact == (\A u \in Threads : ThreadOK(u)) /\ (\A n \in Names : ListOK(n))

LEMMA IntactWhole ==
  ASSUME NEW t, NEW n,
         \A u \in Threads \ {t} : ThreadOK(u)',
         \A m \in Names \ {n} : ListOK(m)',
         ThreadOK(t)', ListOK(n)'
  PROVE  Intact'
<1>1. ASSUME NEW u \in Threads PROVE ThreadOK(u)'
  <2>1. CASE u = t
    BY <2>1
  <2>2. CASE u # t
    BY <2>2
  <2> QED
    BY <2>1, <2>2
<1>2. ASSUME NEW m \in Names PROVE ListOK(m)'
  <2>1. CASE m = n
    BY <2>1
  <2>2. CASE m # n
    BY <2>2
  <2> QED
    BY <2>1, <2>2
<1> QED
  BY <1>1, <1>2 DEF Intact

LEMMA PushElementLists ==
  ASSUME ListInv, NEW t \in Threads, PushElement(t)
  PROVE  Intact'
<1>1. pc[t] \in Working /\ cmd[t].op = "push"
  BY DEF PushElement, Working
<1>2. PICK n \in Names : n = cmd[t].name
  BY <1>1, InTheMiddle
<1>3. PICK m \in Meta : m = local[t]
  BY <1>1, InTheMiddle
<1>4. PICK e \in Int : e = NewEnd(m, cmd[t].side) /\ e \notin Inside(m)
  <2>1. cmd[t].side \in Sides
    BY <1>1, InTheMiddle, CommandKinds DEF IsCommand, Push
  <2> QED
    BY <2>1, MetaArithmetic
<1>5. /\ pc[t] = "element" /\ pc'[t] = "meta"
      /\ elem' = [elem EXCEPT ![n] = Put(@, e, Head(cmd[t].vals))]
      /\ UNCHANGED <<meta, cmd, local, rest, broken, strays, inverted, seq>>
  BY <1>2, <1>3, <1>4 DEF PushElement, ListInv, TypeOK, ideal
<1>6. elem'[n] = Put(elem[n], e, Head(cmd[t].vals))
  BY <1>5 DEF ListInv, TypeOK
<1>7. OtherLists(n)
  BY <1>5 DEF OtherLists, Bad, ListInv, TypeOK
<1>8. /\ \A u \in Threads \ {t} : ThreadOK(u)'
      /\ \A l \in Names \ {n} : ListOK(l)'
      /\ Busy(n)'
  BY <1>1, <1>2, <1>5, <1>7, FrameInTheMiddle DEF Work, Working
<1>9. /\ n \notin Bad => m = Cur(n) /\ Inside(m) \subseteq DOMAIN elem[n] /\ Agrees(n)
      /\ n \notin strays => DOMAIN elem[n] \subseteq Inside(m)
  BY <1>1, <1>2, <1>3, <1>5 DEF ListInv, ThreadOK, ListOK, Needed, Allowed
<1>10. Needed(t)' = Inside(m) \cup {e} /\ Allowed(t)' = Inside(m) \cup {e}
  BY <1>1, <1>3, <1>4, <1>5 DEF Needed, Allowed
<1>11. Cur(n)' = Cur(n) /\ Bad' = Bad
  BY <1>5 DEF Cur, Bad
<1>12. ThreadOK(t)'
  <2>1. /\ DOMAIN Put(elem[n], e, Head(cmd[t].vals)) = DOMAIN elem[n] \cup {e}
        /\ Put(elem[n], e, Head(cmd[t].vals))[e] = Head(cmd[t].vals)
    BY DEF Put
  <2> QED
    BY <1>2, <1>3, <1>4, <1>5, <1>6, <1>9, <1>10, <1>11, <2>1 DEF ThreadOK
<1>13. ListOK(n)'
  <2>1. ASSUME n \notin Bad PROVE Agrees(n)'
    <3> SUFFICES ASSUME NEW i \in 1 .. Len(seq[n]), m.left + i \in DOMAIN elem'[n]
                 PROVE  elem'[n][m.left + i] = seq[n][i]
      BY <1>5, <1>9, <1>11, <2>1 DEF Agrees
    <3>1. m.left + i \in Inside(m)
      BY <1>9, <2>1, Positions DEF Agrees
    <3> QED
      BY <1>4, <1>6, <1>9, <2>1, <3>1 DEF Agrees, Put
  <2> QED
    BY <1>8, <1>11, <2>1, <1>5, <1>9 DEF ListOK
<1> QED
  BY <1>8, <1>12, <1>13, IntactWhole
LEMMA PopElementLists ==
  ASSUME ListInv, NEW t \in Threads, PopElement(t)
  PROVE  Intact'
<1>1. pc[t] \in Working /\ cmd[t].op = "pop"
  BY DEF PopElement, Working
<1>2. PICK n \in Names : n = cmd[t].name
  BY <1>1, InTheMiddle
<1>3. PICK m \in Meta : m = local[t]
  BY <1>1, InTheMiddle
<1>4. PICK e \in Int : e = End(m, cmd[t].side)
  <2>1. cmd[t].side \in Sides
    BY <1>1, InTheMiddle, CommandKinds DEF IsCommand, Pop
  <2> QED
    BY <2>1, MetaArithmetic
<1>5. /\ pc[t] = "element" /\ pc'[t] = "meta"
      /\ elem' = [elem EXCEPT ![n] = Drop(@, e)]
      /\ UNCHANGED <<meta, cmd, local, rest, broken, strays, inverted, seq>>
  BY <1>2, <1>3, <1>4 DEF PopElement, ListInv, TypeOK, ideal
<1>6. elem'[n] = Drop(elem[n], e)
  BY <1>5 DEF ListInv, TypeOK
<1>7. OtherLists(n)
  BY <1>5 DEF OtherLists, Bad, ListInv, TypeOK
<1>8. /\ \A u \in Threads \ {t} : ThreadOK(u)'
      /\ \A l \in Names \ {n} : ListOK(l)'
      /\ Busy(n)'
  BY <1>1, <1>2, <1>5, <1>7, FrameInTheMiddle DEF Work, Working
<1>9. /\ n \notin Bad => m = Cur(n) /\ Inside(m) \subseteq DOMAIN elem[n] /\ Agrees(n)
      /\ n \notin strays => DOMAIN elem[n] \subseteq Inside(m)
  BY <1>1, <1>2, <1>3, <1>5 DEF ListInv, ThreadOK, ListOK, Needed, Allowed
<1>10. Needed(t)' = Inside(m) \ {e} /\ Allowed(t)' = Inside(m) \ {e}
  BY <1>1, <1>3, <1>4, <1>5 DEF Needed, Allowed
<1>11. Cur(n)' = Cur(n) /\ Bad' = Bad
  BY <1>5 DEF Cur, Bad
<1>12. /\ DOMAIN elem'[n] = DOMAIN elem[n] \ {e}
       /\ \A i \in DOMAIN elem'[n] : elem'[n][i] = elem[n][i]
  BY <1>6 DEF Drop
<1>13. ThreadOK(t)'
  BY <1>1, <1>2, <1>3, <1>5, <1>9, <1>10, <1>11, <1>12 DEF ThreadOK
<1>14. ListOK(n)'
  BY <1>5, <1>8, <1>9, <1>11, <1>12 DEF ListOK, Agrees
<1> QED
  BY <1>8, <1>13, <1>14, IntactWhole

LEMMA SetElementLists ==
  ASSUME ListInv, NEW t \in Threads, SetElement(t)
  PROVE  Intact'
<1>1. pc[t] \in Working /\ cmd[t].op = "set" /\ pc[t] = "element"
  BY DEF SetElement, Working
<1>2. PICK n \in Names : n = cmd[t].name
  BY <1>1, InTheMiddle
<1>3. PICK m \in Meta : m = local[t]
  BY <1>1, InTheMiddle
<1>4. PICK e \in Inside(m) : e = AtIndex(m, cmd[t].index)
  <2>1. cmd[t] \in Set
    BY <1>1, InTheMiddle, CommandKinds DEF IsCommand
  <2> QED
    BY <1>1, <1>3, <2>1 DEF ListInv, StageOK
<1>5. PICK v : v = cmd[t].val
  OBVIOUS
<1>6. /\ elem' = [elem EXCEPT ![n] = Put(@, e, v)]
      /\ seq' = IF n \in Bad THEN seq ELSE [seq EXCEPT ![n][e - m.left] = v]
      /\ UNCHANGED <<meta, local, rest, broken, strays, inverted>>
      /\ Leave(t, NoCmd)
  BY <1>2, <1>3, <1>4, <1>5 DEF SetElement, Bad
<1>7. pc'[t] = "idle"
  BY <1>6 DEF Leave, ListInv, TypeOK
<1>8. elem'[n] = Put(elem[n], e, v)
  BY <1>6 DEF ListInv, TypeOK
<1>9. OtherLists(n)
  BY <1>6 DEF OtherLists, Bad, ListInv, TypeOK
<1>10. /\ \A u \in Threads \ {t} : ThreadOK(u)'
       /\ \A l \in Names \ {n} : ListOK(l)'
       /\ ~Busy(n)'
  BY <1>1, <1>2, <1>7, <1>9, FrameInTheMiddle DEF Work, Working
<1>11. /\ n \notin Bad => m = Cur(n) /\ Inside(m) \subseteq DOMAIN elem[n] /\ Agrees(n)
       /\ n \notin strays => DOMAIN elem[n] \subseteq Inside(m)
       /\ n \notin strays => n \notin Bad
  BY <1>1, <1>2, <1>3 DEF ListInv, GhostInv, ThreadOK, ListOK, Needed, Allowed
<1>12. Cur(n)' = Cur(n) /\ Bad' = Bad /\ strays' = strays
  BY <1>6 DEF Cur, Bad
<1>13. /\ DOMAIN elem'[n] = DOMAIN elem[n] \cup {e}
       /\ \A i \in DOMAIN elem'[n] : elem'[n][i] = IF i = e THEN v ELSE elem[n][i]
  BY <1>8 DEF Put
<1>14. ThreadOK(t)'
  BY <1>7 DEF ThreadOK, Working
<1>15. ASSUME n \notin Bad PROVE Agrees(n)'
  <2>1. /\ Len(seq'[n]) = Len(seq[n])
        /\ \A i \in 1 .. Len(seq[n]) : seq'[n][i] = IF i = e - m.left THEN v ELSE seq[n][i]
    <3>1. seq[n] \in Seq(Item) /\ Len(seq[n]) = Size(m) /\ v \in Item
      <4>1. cmd[t] \in Set
        BY <1>1, InTheMiddle, CommandKinds DEF IsCommand
      <4> QED
        BY <1>5, <1>11, <1>15, <4>1 DEF ListInv, TypeOK, Agrees, Set, Item
    <3>2. e - m.left \in 1 .. Len(seq[n])
      BY <3>1 DEF Inside, Size, Meta
    <3>3. seq'[n] = [seq[n] EXCEPT ![e - m.left] = v]
      BY <1>6, <1>15 DEF ListInv, TypeOK
    <3> QED
      BY <3>1, <3>2, <3>3, ExceptSeq
  <2>2. ASSUME NEW i \in 1 .. Len(seq[n])
        PROVE  m.left + i = e <=> i = e - m.left
    BY DEF Meta, Inside
  <2>3. \A i \in 1 .. Len(seq[n]) : m.left + i \in DOMAIN elem[n] => elem[n][m.left + i] = seq[n][i]
    BY <1>11, <1>15 DEF Agrees
  <2>4. \A i \in 1 .. Len(seq[n]) : m.left + i \in DOMAIN elem'[n] => elem'[n][m.left + i] = seq'[n][i]
    BY <1>13, <2>1, <2>2, <2>3
  <2> QED
    BY <1>11, <1>12, <1>15, <2>1, <2>4 DEF Agrees
<1>16. ListOK(n)'
  BY <1>10, <1>11, <1>12, <1>13, <1>15 DEF ListOK
<1> QED
  BY <1>10, <1>14, <1>16, IntactWhole

LEMMA RemoveElementLists ==
  ASSUME ListInv, NEW t \in Threads, RemoveElement(t)
  PROVE  Intact'
<1>1. pc[t] \in Working /\ pc[t] = "remove"
  BY DEF RemoveElement, Working
<1>2. PICK n \in Names : n = cmd[t].name
  BY <1>1, InTheMiddle
<1>3. PICK e \in rest[t] : /\ elem' = [elem EXCEPT ![n] = Drop(@, e)]
                           /\ rest' = [rest EXCEPT ![t] = @ \ {e}]
  BY <1>2 DEF RemoveElement
<1>4. UNCHANGED <<meta, pc, cmd, local, broken, strays, inverted, seq>>
  BY DEF RemoveElement, ideal
<1>5. elem'[n] = Drop(elem[n], e) /\ rest'[t] = rest[t] \ {e}
  BY <1>3 DEF ListInv, TypeOK
<1>6. OtherLists(n)
  BY <1>3, <1>4 DEF OtherLists, Bad, ListInv, TypeOK
<1>7. /\ \A u \in Threads \ {t} : ThreadOK(u)'
      /\ \A l \in Names \ {n} : ListOK(l)'
      /\ Busy(n)'
  BY <1>1, <1>2, <1>4, <1>6, FrameInTheMiddle DEF Work, Working
<1>8. /\ n \notin Bad => local[t] = Cur(n) /\ Needed(t) \subseteq DOMAIN elem[n] /\ Agrees(n)
      /\ n \notin strays => DOMAIN elem[n] \subseteq Needed(t) \cup rest[t]
      /\ rest[t] \cap Needed(t) = {}
  BY <1>1, <1>2 DEF ListInv, ThreadOK, ListOK, Allowed
<1>9. Needed(t)' = Needed(t) /\ Allowed(t)' = Needed(t) \cup (rest[t] \ {e})
  BY <1>1, <1>4, <1>5 DEF Needed, Allowed
<1>10. Cur(n)' = Cur(n) /\ Bad' = Bad /\ strays' = strays
  BY <1>4 DEF Cur, Bad
<1>11. /\ DOMAIN elem'[n] = DOMAIN elem[n] \ {e}
       /\ \A i \in DOMAIN elem'[n] : elem'[n][i] = elem[n][i]
  BY <1>5 DEF Drop
<1>12. ThreadOK(t)'
  BY <1>1, <1>2, <1>4, <1>5, <1>8, <1>9, <1>10, <1>11 DEF ThreadOK
<1>13. ListOK(n)'
  BY <1>4, <1>7, <1>8, <1>10, <1>11 DEF ListOK, Agrees
<1> QED
  BY <1>7, <1>12, <1>13, IntactWhole
LEMMA PushMetaLists ==
  ASSUME ListInv, NEW t \in Threads, PushMeta(t)
  PROVE  Intact'
<1>1. pc[t] \in Working /\ cmd[t].op = "push" /\ pc[t] = "meta"
  BY DEF PushMeta, Working
<1>2. PICK n \in Names : n = cmd[t].name
  BY <1>1, InTheMiddle
<1>3. PICK m \in Meta : m = local[t]
  BY <1>1, InTheMiddle
<1>4. PICK side \in Sides, v \in Item : side = cmd[t].side /\ v = Head(cmd[t].vals)
  <2>1. cmd[t] \in Push /\ cmd[t].vals # <<>>
    BY <1>1, InTheMiddle, CommandKinds DEF IsCommand
  <2> QED
    BY <2>1, HeadTailProperties DEF Push
<1>5. /\ meta' = [meta EXCEPT ![n] = Grown(m, side)]
      /\ seq' = [seq EXCEPT ![n] = Pushed(@, side, v)]
      /\ UNCHANGED <<elem, local, rest, broken, strays, inverted>>
      /\ pc'[t] \in {"idle", "wait"}
  BY <1>2, <1>3, <1>4 DEF PushMeta, Leave, ListInv, TypeOK
<1>6. meta'[n] = Grown(m, side) /\ seq'[n] = Pushed(seq[n], side, v)
  BY <1>5 DEF ListInv, TypeOK
<1>7. OtherLists(n)
  BY <1>5 DEF OtherLists, Bad, ListInv, TypeOK
<1>8. /\ \A u \in Threads \ {t} : ThreadOK(u)'
      /\ \A l \in Names \ {n} : ListOK(l)'
      /\ ~Busy(n)'
  BY <1>1, <1>2, <1>5, <1>7, FrameInTheMiddle DEF Work, Working
<1>9. /\ n \notin Bad => /\ m = Cur(n) /\ Agrees(n)
                         /\ Inside(m) \cup {NewEnd(m, side)} \subseteq DOMAIN elem[n]
                         /\ elem[n][NewEnd(m, side)] = v
      /\ n \notin strays => DOMAIN elem[n] \subseteq Inside(m) \cup {NewEnd(m, side)}
  BY <1>1, <1>2, <1>3, <1>4 DEF ListInv, ThreadOK, ListOK, Needed, Allowed
<1>10. PICK k \in Meta : k = Grown(m, side)
  BY MetaArithmetic
<1>11. Cur(n)' = k /\ Bad' = Bad /\ strays' = strays
  <2>1. k # NoMeta
    BY ListAssumption DEF Meta
  <2> QED
    BY <1>5, <1>6, <1>10, <2>1 DEF Cur, Bad
<1>12. ThreadOK(t)'
  BY <1>5 DEF ThreadOK, Working
<1>13. ASSUME n \notin strays \/ n \notin Bad
       PROVE  Inside(k) = Inside(m) \cup {NewEnd(m, side)}
  <2>1. Size(m) \in Nat
    BY <1>9, <1>13 DEF ListInv, GhostInv, Agrees, TypeOK
  <2> QED
    BY <1>10, <2>1 DEF Inside, NewEnd, Grown, Meta, Size, Sides
<1>14. ASSUME n \notin Bad PROVE Agrees(n)'
  <2>1. seq[n] \in Seq(Item) /\ Len(seq[n]) = Size(m) /\ Len(seq[n]) \in Nat
    BY <1>9, <1>14 DEF ListInv, TypeOK, Agrees
  <2>2. /\ Len(seq'[n]) = Len(seq[n]) + 1
        /\ \A i \in 1 .. Len(seq[n]) + 1 :
             seq'[n][i] = IF side = "l" THEN (IF i = 1 THEN v ELSE seq[n][i - 1])
                          ELSE (IF i = Len(seq[n]) + 1 THEN v ELSE seq[n][i])
    <3>1. OneMore(Pushed(seq[n], side, v), seq[n], side, v)
      BY <2>1, PushedFacts
    <3> QED
      BY <1>6, <2>1, <3>1 DEF OneMore
  <2>3. \A i \in 1 .. Len(seq[n]) : elem[n][m.left + i] = seq[n][i]
    <3> SUFFICES ASSUME NEW i \in 1 .. Len(seq[n]) PROVE elem[n][m.left + i] = seq[n][i]
      OBVIOUS
    <3>1. m.left + i \in DOMAIN elem[n]
      BY <1>9, <1>14, <2>1, Positions
    <3> QED
      BY <1>9, <1>14, <3>1 DEF Agrees
  <2>4. Size(k) = Size(m) + 1
    BY <1>10 DEF Grown, Size, Meta, Sides
  <2>5. ASSUME NEW i \in 1 .. Len(seq[n]) + 1
        PROVE  elem[n][k.left + i] = seq'[n][i]
    <3>1. CASE side = "l"
      <4>1. k.left = m.left - 1 /\ NewEnd(m, side) = m.left
        BY <1>10, <3>1 DEF Grown, NewEnd, Meta
      <4>2. CASE i = 1
        <5>1. k.left + i = NewEnd(m, side)
          BY <4>1, <4>2 DEF Meta
        <5> QED
          BY <1>9, <1>14, <2>2, <3>1, <4>2, <5>1
      <4>3. CASE i # 1
        <5>1. i - 1 \in 1 .. Len(seq[n]) /\ k.left + i = m.left + (i - 1)
          BY <2>1, <4>1, <4>3 DEF Meta
        <5> QED
          BY <2>2, <2>3, <3>1, <4>3, <5>1
      <4> QED
        BY <4>2, <4>3
    <3>2. CASE side = "r"
      <4>1. k.left = m.left /\ NewEnd(m, side) = m.left + Len(seq[n]) + 1
        BY <1>10, <2>1, <3>2 DEF Grown, NewEnd, Meta, Size
      <4>2. CASE i = Len(seq[n]) + 1
        <5>1. k.left + i = NewEnd(m, side)
          BY <2>1, <4>1, <4>2 DEF Meta
        <5> QED
          BY <1>9, <1>14, <2>2, <3>2, <4>2, <5>1
      <4>3. CASE i # Len(seq[n]) + 1
        <5>1. i \in 1 .. Len(seq[n]) /\ k.left + i = m.left + i
          BY <2>1, <4>1, <4>3
        <5> QED
          BY <2>2, <2>3, <3>2, <4>3, <5>1
      <4> QED
        BY <4>2, <4>3
    <3> QED
      BY <3>1, <3>2 DEF Sides
  <2> QED
    BY <1>5, <1>11, <2>1, <2>2, <2>4, <2>5 DEF Agrees
<1>15. ListOK(n)'
  BY <1>5, <1>8, <1>9, <1>11, <1>13, <1>14 DEF ListOK
<1> QED
  BY <1>8, <1>12, <1>15, IntactWhole

LEMMA PopMetaLists ==
  ASSUME ListInv, NEW t \in Threads, PopMeta(t)
  PROVE  Intact'
<1>1. pc[t] \in Working /\ cmd[t].op = "pop" /\ pc[t] = "meta"
  BY DEF PopMeta, Working
<1>2. PICK n \in Names : n = cmd[t].name
  BY <1>1, InTheMiddle
<1>3. PICK m \in Meta : m = local[t]
  BY <1>1, InTheMiddle
<1>4. PICK side \in Sides : side = cmd[t].side
  BY <1>1, InTheMiddle, CommandKinds DEF IsCommand, Pop
<1>5. /\ meta' = [meta EXCEPT ![n] = Shrunk(m, side)]
      /\ seq' = IF seq[n] = <<>> THEN seq ELSE [seq EXCEPT ![n] = Popped(@, side)]
      /\ UNCHANGED <<elem, local, rest, broken, strays, inverted>>
      /\ pc'[t] \in {"idle", "wait"}
  BY <1>2, <1>3, <1>4 DEF PopMeta, Leave, ListInv, TypeOK
<1>6. /\ meta'[n] = Shrunk(m, side)
      /\ seq'[n] = IF seq[n] = <<>> THEN seq[n] ELSE Popped(seq[n], side)
  BY <1>5 DEF ListInv, TypeOK
<1>7. OtherLists(n)
  BY <1>5 DEF OtherLists, Bad, ListInv, TypeOK
<1>8. /\ \A u \in Threads \ {t} : ThreadOK(u)'
      /\ \A l \in Names \ {n} : ListOK(l)'
      /\ ~Busy(n)'
  BY <1>1, <1>2, <1>5, <1>7, FrameInTheMiddle DEF Work, Working
<1>9. /\ n \notin Bad => /\ m = Cur(n) /\ Agrees(n)
                         /\ Inside(m) \ {End(m, side)} \subseteq DOMAIN elem[n]
      /\ n \notin strays => DOMAIN elem[n] \subseteq Inside(m) \ {End(m, side)}
  BY <1>1, <1>2, <1>3, <1>4 DEF ListInv, ThreadOK, ListOK, Needed, Allowed
<1>10. Size(m) > 0 /\ Size(m) \in Int
  BY <1>1, <1>3, InTheMiddle, CommandKinds, MetaArithmetic DEF ListInv, StageOK, IsCommand, Sides
<1>11. PICK k \in Meta : k = Shrunk(m, side)
  BY MetaArithmetic
<1>12. Cur(n)' = k /\ Bad' = Bad /\ strays' = strays
  <2>1. k # NoMeta
    BY ListAssumption DEF Meta
  <2> QED
    BY <1>5, <1>6, <1>11, <2>1 DEF Cur, Bad
<1>13. ThreadOK(t)'
  BY <1>5 DEF ThreadOK, Working
<1>14. Inside(k) = Inside(m) \ {End(m, side)} /\ Size(k) = Size(m) - 1
       /\ k.left = IF side = "l" THEN m.left + 1 ELSE m.left
  BY <1>10, <1>11 DEF Inside, End, Shrunk, Meta, Size, Sides
<1>15. ASSUME n \notin Bad PROVE Agrees(n)'
  <2>1. seq[n] \in Seq(Item) /\ Len(seq[n]) = Size(m) /\ seq[n] # <<>>
    BY <1>9, <1>10, <1>15 DEF ListInv, TypeOK, Agrees
  <2>2. /\ Len(seq'[n]) = Len(seq[n]) - 1 /\ Len(seq[n]) \in Nat
        /\ \A i \in 1 .. Len(seq[n]) - 1 :
             seq'[n][i] = IF side = "l" THEN seq[n][i + 1] ELSE seq[n][i]
    <3>1. \A s \in Seq(Item) : s # <<>> =>
            /\ Len(Popped(s, side)) = Len(s) - 1 /\ Len(s) \in Nat
            /\ \A i \in 1 .. Len(s) - 1 :
                 Popped(s, side)[i] = IF side = "l" THEN s[i + 1] ELSE s[i]
      BY PoppedFacts
    <3> QED
      BY <1>6, <2>1, <3>1
  <2>3. \A i \in 1 .. Len(seq[n]) : m.left + i \in DOMAIN elem[n] => elem[n][m.left + i] = seq[n][i]
    BY <1>9, <1>15 DEF Agrees
  <2>4. ASSUME NEW i \in 1 .. Len(seq[n]) - 1, k.left + i \in DOMAIN elem[n]
        PROVE  elem[n][k.left + i] = seq'[n][i]
    <3>1. CASE side = "l"
      <4>1. i + 1 \in 1 .. Len(seq[n]) /\ k.left + i = m.left + (i + 1)
        BY <1>14, <2>2, <3>1 DEF Meta
      <4> QED
        BY <2>2, <2>3, <2>4, <3>1, <4>1
    <3>2. CASE side = "r"
      <4>1. i \in 1 .. Len(seq[n]) /\ k.left + i = m.left + i
        BY <1>14, <2>2, <3>2
      <4> QED
        BY <2>2, <2>3, <2>4, <3>2, <4>1
    <3> QED
      BY <3>1, <3>2 DEF Sides
  <2> QED
    BY <1>5, <1>12, <1>14, <2>1, <2>2, <2>4 DEF Agrees
<1>16. ListOK(n)'
  BY <1>5, <1>8, <1>9, <1>12, <1>14, <1>15 DEF ListOK
<1> QED
  BY <1>8, <1>13, <1>16, IntactWhole
LEMMA TrimMetaLists ==
  ASSUME ListInv, NEW t \in Threads, TrimMeta(t)
  PROVE  Intact'
<1>1. pc[t] \in Working /\ cmd[t].op = "trim" /\ pc[t] = "remove" /\ rest[t] = {}
  BY DEF TrimMeta, Working
<1>2. PICK n \in Names : n = cmd[t].name
  BY <1>1, InTheMiddle
<1>3. PICK m \in Meta : m = local[t]
  BY <1>1, InTheMiddle
<1>4. PICK x \in Int, y \in Int : x = cmd[t].start /\ y = cmd[t].stop
  BY <1>1, InTheMiddle, CommandKinds DEF IsCommand, Trim
<1>5. PICK k \in Meta : k = Kept(m, x, y)
  BY KeptBounds
<1>6. /\ meta' = [meta EXCEPT ![n] = k]
      /\ seq' = [seq EXCEPT ![n] = Trimmed(@, x, y)]
      /\ UNCHANGED <<elem, local, rest, broken>>
      /\ IF Size(k) < 0
         THEN inverted' = inverted \cup {n} /\ strays' = strays \cup {n}
         ELSE UNCHANGED <<inverted, strays>>
      /\ pc'[t] = "idle"
  BY <1>2, <1>3, <1>4, <1>5 DEF TrimMeta, Leave, ListInv, TypeOK
<1>7. meta'[n] = k /\ seq'[n] = Trimmed(seq[n], x, y)
  BY <1>6 DEF ListInv, TypeOK
<1>8. OtherLists(n)
  BY <1>6 DEF OtherLists, Bad, ListInv, TypeOK
<1>9. /\ \A u \in Threads \ {t} : ThreadOK(u)'
      /\ \A l \in Names \ {n} : ListOK(l)'
      /\ ~Busy(n)'
  BY <1>1, <1>2, <1>6, <1>8, FrameInTheMiddle DEF Work, Working
<1>10. /\ n \notin Bad => m = Cur(n) /\ Agrees(n) /\ Inside(k) \subseteq DOMAIN elem[n]
       /\ n \notin strays => DOMAIN elem[n] \subseteq Inside(k)
  BY <1>1, <1>2, <1>3, <1>4, <1>5 DEF ListInv, ThreadOK, ListOK, Needed, Allowed
<1>11. Size(m) > 0 /\ Size(m) \in Int
  BY <1>1, <1>3, InTheMiddle, CommandKinds, MetaArithmetic DEF ListInv, StageOK, IsCommand, Sides
<1>12. /\ Cur(n)' = k
       /\ n \notin Bad' => n \notin Bad /\ Size(k) >= 0
       /\ n \notin strays' => n \notin strays
  <2>1. k # NoMeta /\ Size(k) \in Int
    BY ListAssumption DEF Meta, Size
  <2> QED
    BY <1>6, <1>7, <2>1 DEF Cur, Bad
<1>13. ThreadOK(t)'
  BY <1>6 DEF ThreadOK, Working
<1>14. ASSUME n \notin Bad, Size(k) >= 0 PROVE Agrees(n)'
  <2> DEFINE a == Clamp(x, Size(m))
             b == Clamp(y, Size(m))
  <2>1. seq[n] \in Seq(Item) /\ Len(seq[n]) = Size(m) /\ seq[n] # <<>>
    BY <1>10, <1>11, <1>14 DEF ListInv, TypeOK, Agrees
  <2>2. /\ a \in 0 .. Size(m) - 1 /\ b \in 0 .. Size(m) - 1
        /\ Len(seq'[n]) = IF a <= b THEN b - a + 1 ELSE 0
        /\ \A i \in 1 .. b - a + 1 : seq'[n][i] = seq[n][a + i]
    <3>1. CutOut(Trimmed(seq[n], x, y), seq[n], a, b)
      BY <2>1, TrimmedFacts
    <3> HIDE DEF a, b
    <3> QED
      BY <1>7, <2>1, <3>1 DEF CutOut
  <2>3. /\ k.left = (IF m.left + 1 + a > m.left + 1 + b THEN m.right - 1 ELSE m.left + 1 + a) - 1
        /\ k.right = m.left + 1 + b + 1
    BY <1>5 DEF Kept
  <2>4. /\ m.left \in Int /\ m.right \in Int /\ k.left \in Int /\ k.right \in Int
        /\ Size(m) = m.right - m.left - 1
        /\ Size(k) = k.right - k.left - 1
    BY DEF Meta, Size
  <2> HIDE DEF a, b
  <2>5. \A i \in 1 .. Len(seq[n]) : m.left + i \in DOMAIN elem[n] => elem[n][m.left + i] = seq[n][i]
    BY <1>10, <1>14 DEF Agrees
  <2>6. CASE a <= b
    <3>1. k.left = m.left + a /\ Size(k) = b - a + 1
      <4>1. a \in Int /\ b \in Int
        BY <2>2
      <4>2. ~(m.left + 1 + a > m.left + 1 + b)
        BY <2>4, <2>6, <4>1
      <4>3. k.left = m.left + 1 + a - 1 /\ k.right = m.left + 1 + b + 1
        BY <2>3, <2>4, <4>1, <4>2
      <4> QED
        BY <2>4, <4>1, <4>3
    <3>2. ASSUME NEW i \in 1 .. b - a + 1, k.left + i \in DOMAIN elem[n]
          PROVE  elem[n][k.left + i] = seq'[n][i]
      <4>1. a + i \in 1 .. Len(seq[n]) /\ k.left + i = m.left + (a + i)
        BY <1>11, <2>1, <2>2, <3>1 DEF Meta
      <4> QED
        BY <2>2, <2>5, <3>2, <4>1
    <3> QED
      BY <1>6, <1>12, <2>2, <2>6, <3>1, <3>2 DEF Agrees
  <2>7. CASE a > b
    <3>1. Size(k) = 0
      <4>1. a \in Int /\ b \in Int /\ a <= Size(m) - 1
        BY <1>11, <2>2
      <4>2. m.left + 1 + a > m.left + 1 + b
        BY <2>4, <2>7, <4>1
      <4>3. k.left = m.right - 2 /\ k.right = m.left + 1 + b + 1
        BY <2>3, <2>4, <4>2
      <4> QED
        BY <1>11, <1>14, <2>4, <2>7, <4>1, <4>3
    <3> QED
      BY <1>12, <2>2, <2>7, <3>1 DEF Agrees
  <2> QED
    BY <2>2, <2>6, <2>7
<1>15. ListOK(n)'
  BY <1>6, <1>9, <1>10, <1>12, <1>14 DEF ListOK
<1> QED
  BY <1>9, <1>13, <1>15, IntactWhole

LEMMA ClearMetaLists ==
  ASSUME ListInv, NEW t \in Threads, ClearMeta(t)
  PROVE  Intact'
<1>1. pc[t] \in Working /\ cmd[t].op = "clear" /\ pc[t] = "remove" /\ rest[t] = {}
  BY DEF ClearMeta, Working
<1>2. PICK n \in Names : n = cmd[t].name
  BY <1>1, InTheMiddle
<1>3. /\ meta' = [meta EXCEPT ![n] = NoMeta]
      /\ seq' = [seq EXCEPT ![n] = <<>>]
      /\ UNCHANGED <<elem, local, rest, strays>>
      /\ broken \ {n} \subseteq broken' /\ inverted' = inverted \ {n}
      /\ pc'[t] = "idle"
  BY <1>2 DEF ClearMeta, Leave, ListInv, TypeOK
<1>4. meta'[n] = NoMeta /\ seq'[n] = <<>>
  BY <1>3 DEF ListInv, TypeOK
<1>5. OtherLists(n)
  BY <1>3 DEF OtherLists, Bad, ListInv, TypeOK
<1>6. /\ \A u \in Threads \ {t} : ThreadOK(u)'
      /\ \A l \in Names \ {n} : ListOK(l)'
      /\ ~Busy(n)'
  BY <1>1, <1>2, <1>3, <1>5, FrameInTheMiddle DEF Work, Working
<1>7. n \notin strays => DOMAIN elem[n] = {}
  BY <1>1, <1>2 DEF ListInv, ThreadOK, Needed, Allowed
<1>8. Cur(n)' = Fresh
  BY <1>4 DEF Cur
<1>9. Agrees(n)'
  <2>1. Len(seq'[n]) = 0
    BY <1>4
  <2> QED
    BY <1>8, <2>1, FreshMeta DEF Agrees
<1>10. ListOK(n)'
  BY <1>3, <1>6, <1>7, <1>8, <1>9, FreshMeta DEF ListOK
<1>11. ThreadOK(t)'
  BY <1>3 DEF ThreadOK, Working
<1> QED
  BY <1>6, <1>10, <1>11, IntactWhole
LEMMA EnterLists ==
  ASSUME ListInv, NEW t \in Threads, NEW c, IsCommand(c), Enter(t, c), OthersWork(t),
         pc[t] \in {"idle", "wait"}
  PROVE  Intact'
<1>1. PICK n \in Names : n = c.name
  BY CommandKinds DEF IsCommand
<1>2. PICK m \in Meta : m = Cur(n)
  BY CurTyping DEF ListInv
<1>3. /\ lock[Stripe[n]] = NoThread
      /\ ~Refused(c, meta[n])
      /\ local'[t] = m /\ rest'[t] = ToRemove(c, m) /\ cmd'[t] = c
      /\ pc'[t] = IF c.op \in {"trim", "clear"} THEN "remove" ELSE "element"
      /\ UNCHANGED <<meta, elem, seq, broken, strays, inverted>>
  BY <1>1, <1>2 DEF Enter, Cur, data, ideal, ListInv, TypeOK
<1>4. \A u \in Threads \ {t} : pc[u] \in Working => cmd[u].name # n
  BY <1>3, Exclusion
<1>5. pc[t] \notin Working /\ ~Busy(n)
  BY <1>4 DEF Busy, Working
<1>6. OtherLists(n)
  BY <1>3 DEF OtherLists, Bad
<1>7. /\ \A u \in Threads \ {t} : ThreadOK(u)'
      /\ \A l \in Names \ {n} : ListOK(l)'
      /\ Busy(n)'
  <2>1. pc'[t] \in Working /\ cmd'[t].name = n
    BY <1>1, <1>3 DEF Working
  <2> QED
    BY <1>4, <1>5, <1>6, <2>1, Frame
<1>8. /\ n \notin Bad => Agrees(n) /\ Inside(m) \subseteq DOMAIN elem[n]
      /\ n \notin strays => DOMAIN elem[n] \subseteq Inside(m)
  BY <1>2, <1>5 DEF ListInv, ListOK
<1>9. Cur(n)' = m /\ Bad' = Bad /\ strays' = strays
  BY <1>2, <1>3 DEF Cur, Bad
<1>10. ListOK(n)'
  BY <1>2, <1>3, <1>7, <1>8, <1>9 DEF ListOK, Agrees
<1>11. ThreadOK(t)'
  <2>1. CASE c.op = "trim"
    <3>1. PICK k \in Meta : k = Kept(m, c.start, c.stop) /\ Inside(k) \subseteq Inside(m)
      <4>1. c.start \in Int /\ c.stop \in Int
        BY <2>1, CommandKinds DEF IsCommand, Trim
      <4>2. meta[n] # NoMeta /\ ~(Size(meta[n]) <= 0)
        BY <1>3, <2>1 DEF Refused
      <4>3. Size(m) > 0
        <5>1. m = meta[n] /\ Size(m) \in Int
          BY <1>2, <4>2 DEF Cur, Meta, Size
        <5> QED
          BY <4>2, <5>1
      <4> QED
        BY <4>1, <4>3, KeptBounds
    <3>2. pc'[t] = "remove" /\ rest'[t] = Inside(m) \ Inside(k)
      BY <1>3, <2>1, <3>1 DEF ToRemove
    <3>3. Needed(t)' = Inside(k) /\ Allowed(t)' = Inside(k) \cup (Inside(m) \ Inside(k))
      BY <1>3, <2>1, <3>1, <3>2 DEF Needed, Allowed
    <3> QED
      BY <1>1, <1>3, <1>8, <1>9, <3>1, <3>2, <3>3 DEF ThreadOK
  <2>2. CASE c.op = "clear"
    <3>1. pc'[t] = "remove" /\ rest'[t] = Inside(m)
      BY <1>3, <2>2 DEF ToRemove
    <3>2. Needed(t)' = {} /\ Allowed(t)' = Inside(m)
      BY <1>3, <2>2, <3>1 DEF Needed, Allowed
    <3> QED
      BY <1>1, <1>3, <1>8, <1>9, <3>1, <3>2 DEF ThreadOK
  <2>3. CASE c.op \notin {"trim", "clear"}
    <3>1. pc'[t] = "element"
      BY <1>3, <2>3
    <3>2. Needed(t)' = Inside(m) /\ Allowed(t)' = Inside(m)
      BY <1>3, <3>1 DEF Needed, Allowed
    <3> QED
      BY <1>1, <1>3, <1>8, <1>9, <3>1, <3>2 DEF ThreadOK
  <2> QED
    BY <2>1, <2>2, <2>3
<1> QED
  BY <1>7, <1>10, <1>11, IntactWhole

LEMMA FlushStartLists ==
  ASSUME ListInv, NEW t \in Threads, FlushStart(t)
  PROVE  Intact'
<1>1. /\ pc[t] = "idle" /\ pc' = [pc EXCEPT ![t] = "flush"] /\ pc \in [Threads -> Stage]
      /\ UNCHANGED <<meta, elem, seq, cmd, local, rest, broken, strays, inverted>>
  BY DEF FlushStart, data, ideal, ListInv, TypeOK
<1>2. ASSUME NEW n \in Names PROVE ListOK(n)'
  <2>1. Busy(n)' <=> Busy(n)
    BY <1>1 DEF Busy
  <2> QED
    BY <1>1, <2>1 DEF ListInv, ListOK, Agrees, Cur, Bad
<1>3. ASSUME NEW u \in Threads PROVE ThreadOK(u)'
  <2>1. u # t => pc'[u] = pc[u]
    BY <1>1
  <2>2. pc'[t] = "flush"
    BY <1>1
  <2> QED
    BY <1>1, <2>1, <2>2 DEF ListInv, ThreadOK, Needed, Allowed, Cur, Bad, Working
<1> QED
  BY <1>2, <1>3 DEF Intact

LEMMA FlushDatabaseLists ==
  ASSUME ListInv, NEW t \in Threads, FlushDatabase(t)
  PROVE  Intact'
<1>1. UNCHANGED <<meta, elem, pc, cmd, local, rest, seq, broken, strays, inverted>>
  BY DEF FlushDatabase, data, ideal
<1>2. ASSUME NEW n \in Names PROVE ListOK(n)'
  BY <1>1 DEF ListInv, ListOK, Agrees, Cur, Bad, Busy
<1>3. ASSUME NEW u \in Threads PROVE ThreadOK(u)'
  BY <1>1 DEF ListInv, ThreadOK, Needed, Allowed, Cur, Bad, Working
<1> QED
  BY <1>2, <1>3 DEF Intact

LEMMA FlushRecordLists ==
  ASSUME ListInv, NEW t \in Threads, FlushRecord(t)
  PROVE  Intact'
<1>1. PICK r \in flushing[t] :
        /\ broken' = broken \cup {r.name}
        /\ strays' = strays \cup {r.name}
        /\ \/ meta' = [meta EXCEPT ![r.name] = NoMeta] /\ UNCHANGED elem
           \/ elem' = [elem EXCEPT ![r.name] = Drop(@, r.id)] /\ UNCHANGED meta
  BY DEF FlushRecord
<1>2. UNCHANGED <<seq, pc, cmd, local, rest, inverted>>
  BY DEF FlushRecord
<1>3. r.name \in Bad' /\ r.name \in strays'
  BY <1>1 DEF Bad
<1>4. ASSUME NEW n \in Names, n # r.name
      PROVE  /\ meta'[n] = meta[n] /\ elem'[n] = elem[n] /\ Cur(n)' = Cur(n)
             /\ n \notin Bad' => n \notin Bad
             /\ n \notin strays' => n \notin strays
  BY <1>1, <1>2, <1>4 DEF ListInv, TypeOK, Bad, Cur
<1>5. ASSUME NEW n \in Names PROVE ListOK(n)'
  <2>1. Busy(n)' <=> Busy(n)
    BY <1>2 DEF Busy
  <2>2. CASE n = r.name
    BY <1>3, <2>2 DEF ListOK
  <2>3. CASE n # r.name
    BY <1>2, <1>4, <2>1, <2>3 DEF ListInv, ListOK, Agrees
  <2> QED
    BY <2>2, <2>3
<1>6. ASSUME NEW u \in Threads, pc[u] \in Working PROVE ThreadOK(u)'
  <2>1. Needed(u)' = Needed(u) /\ Allowed(u)' = Allowed(u)
    BY <1>2 DEF Needed, Allowed
  <2>2. PICK n \in Names : n = cmd[u].name
    BY <1>6, InTheMiddle
  <2>3. CASE n = r.name
    BY <1>2, <1>3, <1>6, <2>1, <2>2, <2>3 DEF ListInv, ThreadOK
  <2>4. CASE n # r.name
    BY <1>2, <1>4, <1>6, <2>1, <2>2, <2>4 DEF ListInv, ThreadOK
  <2> QED
    BY <2>3, <2>4
<1>7. ASSUME NEW u \in Threads PROVE ThreadOK(u)'
  BY <1>2, <1>6 DEF ThreadOK
<1> QED
  BY <1>5, <1>7 DEF Intact

LEMMA FlushDoneLists ==
  ASSUME ListInv, NEW t \in Threads, FlushDone(t)
  PROVE  Intact'
<1>1. PICK gone \in SUBSET Names :
        /\ \A n \in gone : meta[n] = NoMeta /\ DOMAIN elem[n] = {} /\ ~Busy(n)
        /\ seq' = [n \in Names |-> IF n \in gone THEN <<>> ELSE seq[n]]
        /\ broken' = broken \ gone
        /\ strays' = strays \ gone
        /\ inverted' = inverted \ gone
  BY DEF FlushDone
<1>2. /\ pc[t] = "flush" /\ pc' = [pc EXCEPT ![t] = "idle"] /\ pc \in [Threads -> Stage]
      /\ UNCHANGED <<meta, elem, cmd, local, rest>>
  BY DEF FlushDone, data, ListInv, TypeOK
<1>3. \A n \in Names : Busy(n)' <=> Busy(n)
  BY <1>2 DEF Busy
<1>4. ASSUME NEW n \in gone PROVE ListOK(n)'
  <2>1. Cur(n)' = Fresh /\ seq'[n] = <<>> /\ DOMAIN elem'[n] = {}
    BY <1>1, <1>2 DEF Cur
  <2>2. Len(seq'[n]) = 0
    BY <2>1
  <2> QED
    BY <2>1, <2>2, FreshMeta DEF ListOK, Agrees
<1>5. ASSUME NEW n \in Names \ gone PROVE ListOK(n)'
  <2>1. Cur(n)' = Cur(n) /\ seq'[n] = seq[n] /\ elem'[n] = elem[n]
        /\ (n \in Bad' <=> n \in Bad) /\ (n \in strays' <=> n \in strays)
    BY <1>1, <1>2 DEF Cur, Bad
  <2> QED
    BY <1>3, <2>1 DEF ListInv, ListOK, Agrees
<1>6. ASSUME NEW u \in Threads, pc'[u] \in Working PROVE ThreadOK(u)'
  <2>1. pc'[u] = pc[u] /\ pc[u] \in Working
    BY <1>2, <1>6 DEF Working
  <2>2. PICK n \in Names : n = cmd[u].name
    BY <2>1, InTheMiddle
  <2>3. n \notin gone
    BY <1>1, <2>1, <2>2 DEF Busy, Working
  <2>4. Cur(n)' = Cur(n) /\ elem'[n] = elem[n]
        /\ (n \in Bad' <=> n \in Bad) /\ (n \in strays' <=> n \in strays)
    BY <1>1, <1>2, <2>3 DEF Cur, Bad
  <2>5. Needed(u)' = Needed(u) /\ Allowed(u)' = Allowed(u)
    BY <1>2, <2>1 DEF Needed, Allowed
  <2> QED
    BY <1>2, <2>1, <2>2, <2>4, <2>5 DEF ListInv, ThreadOK
<1>7. ASSUME NEW u \in Threads PROVE ThreadOK(u)'
  BY <1>6 DEF ThreadOK
<1> QED
  BY <1>4, <1>5, <1>7 DEF Intact

LEMMA KilledLists ==
  ASSUME ListInv, Killed
  PROVE  Intact'
<1>1. /\ pc' = [t \in Threads |-> "idle"]
      /\ UNCHANGED <<meta, elem, seq, inverted>>
      /\ broken' = broken \cup
           {n \in Names : Busy(n) /\ meta[n] # NoMeta /\ ~(Inside(meta[n]) \subseteq DOMAIN elem[n])}
      /\ strays' = strays \cup {n \in Names : Busy(n)}
  BY DEF Killed, data
<1>2. ASSUME NEW n \in Names PROVE ListOK(n)'
  <2>1. Cur(n)' = Cur(n)
    BY <1>1 DEF Cur
  <2>2. n \notin Bad' => n \notin Bad
    BY <1>1 DEF Bad
  <2>3. n \notin Bad' => Inside(Cur(n)) \subseteq DOMAIN elem[n]
    <3>1. CASE Busy(n)
      BY <1>1, <3>1, FreshMeta DEF Bad, Cur
    <3>2. CASE ~Busy(n)
      BY <2>2, <3>2 DEF ListInv, ListOK
    <3> QED
      BY <3>1, <3>2
  <2>4. n \notin strays' => DOMAIN elem[n] \subseteq Inside(Cur(n))
    BY <1>1 DEF ListInv, ListOK
  <2> QED
    BY <1>1, <2>1, <2>2, <2>3, <2>4 DEF ListInv, ListOK, Agrees
<1>3. ASSUME NEW u \in Threads PROVE ThreadOK(u)'
  BY <1>1 DEF ThreadOK, Working
<1> QED
  BY <1>2, <1>3 DEF Intact

LEMMA StepLists == ListInv /\ [Next]_vars => Intact'
<1> SUFFICES ASSUME ListInv, [Next]_vars PROVE Intact'
  OBVIOUS
<1>1. CASE UNCHANGED vars
  <2>1. Intact
    BY DEF ListInv, Intact
  <2> QED
    BY <1>1, <2>1 DEF vars, data, threads, ideal, Intact, ThreadOK, ListOK, Agrees, Needed,
                      Allowed, Cur, Bad, Busy
<1>2. ASSUME NEW t \in Threads, Command(t) \/ Resume(t), ~FlushStart(t)
      PROVE  Intact'
  BY <1>2, CommandStep, EnterLists, OneThread DEF Work
<1> QED
  BY <1>1, <1>2, FlushStartLists, PushElementLists, PushMetaLists, PopElementLists, PopMetaLists,
     SetElementLists, RemoveElementLists, TrimMetaLists, ClearMetaLists, FlushRecordLists,
     FlushDatabaseLists, FlushDoneLists, KilledLists DEF Next, Work
LEMMA StepGhosts == ListInv /\ [Next]_vars => GhostInv'
<1> SUFFICES ASSUME ListInv, [Next]_vars PROVE GhostInv'
  OBVIOUS
<1>1. broken \cup inverted \subseteq strays
  BY DEF ListInv, GhostInv, Bad
<1>2. CASE UNCHANGED vars
  BY <1>1, <1>2 DEF vars, ideal, GhostInv, Bad
<1>3. ASSUME NEW t \in Threads, Command(t) \/ Resume(t), ~FlushStart(t)
      PROVE  GhostInv'
  <2>1. UNCHANGED ideal
    BY <1>3, CommandStep DEF Enter
  <2> QED
    BY <1>1, <2>1 DEF ideal, GhostInv, Bad
<1>4. ASSUME NEW t \in Threads,
             \/ FlushStart(t) \/ FlushDatabase(t)
             \/ PushElement(t) \/ PopElement(t) \/ RemoveElement(t)
      PROVE  GhostInv'
  <2>1. UNCHANGED ideal
    BY <1>4 DEF FlushStart, FlushDatabase, PushElement, PopElement, RemoveElement
  <2> QED
    BY <1>1, <2>1 DEF ideal, GhostInv, Bad
<1>5. ASSUME NEW t \in Threads, SetElement(t) \/ PushMeta(t) \/ PopMeta(t)
      PROVE  GhostInv'
  BY <1>1, <1>5 DEF SetElement, PushMeta, PopMeta, GhostInv, Bad
<1>6. ASSUME NEW t \in Threads, TrimMeta(t)
      PROVE  GhostInv'
  <2>1. PICK n : \/ inverted' = inverted \cup {n} /\ strays' = strays \cup {n}
                 \/ UNCHANGED <<inverted, strays>>
    BY <1>6 DEF TrimMeta
  <2>2. broken' = broken
    BY <1>6 DEF TrimMeta
  <2> QED
    BY <1>1, <2>1, <2>2 DEF GhostInv, Bad
<1>7. ASSUME NEW t \in Threads, ClearMeta(t)
      PROVE  GhostInv'
  <2>1. broken' \subseteq broken /\ inverted' \subseteq inverted /\ strays' = strays
    BY <1>7 DEF ClearMeta
  <2> QED
    BY <1>1, <2>1 DEF GhostInv, Bad
<1>8. ASSUME NEW t \in Threads, FlushRecord(t)
      PROVE  GhostInv'
  BY <1>1, <1>8 DEF FlushRecord, GhostInv, Bad
<1>9. ASSUME NEW t \in Threads, FlushDone(t)
      PROVE  GhostInv'
  <2>1. PICK gone : broken' = broken \ gone /\ strays' = strays \ gone /\ inverted' = inverted \ gone
    BY <1>9 DEF FlushDone
  <2> QED
    BY <1>1, <2>1 DEF GhostInv, Bad
<1>10. CASE Killed
  BY <1>1, <1>10 DEF Killed, GhostInv, Bad
<1> QED
  BY <1>2, <1>3, <1>4, <1>5, <1>6, <1>7, <1>8, <1>9, <1>10 DEF Next, Work

LEMMA InitInv == Init => ListInv
<1> SUFFICES ASSUME Init PROVE ListInv
  OBVIOUS
<1>1. TypeOK
  <2>1. <<>> \in Seq(Item) /\ DOMAIN <<>> = {}
    OBVIOUS
  <2> QED
    BY <2>1, FreshMeta, ListAssumption DEF Init, TypeOK, Stage, Item
<1>2. LockInv /\ GhostInv /\ \A t \in Threads : StageOK(t) /\ ThreadOK(t)
  BY DEF Init, LockInv, GhostInv, Bad, StageOK, ThreadOK, Working
<1>3. ASSUME NEW n \in Names PROVE ListOK(n)
  <2>1. Cur(n) = Fresh /\ seq[n] = <<>> /\ elem[n] = <<>>
    BY DEF Init, Cur
  <2>2. Len(seq[n]) = 0 /\ DOMAIN elem[n] = {}
    BY <2>1
  <2> QED
    BY <2>1, <2>2, FreshMeta DEF ListOK, Agrees
<1> QED
  BY <1>1, <1>2, <1>3 DEF ListInv

-----------------------------------------------------------------------------
(* Theorems *)

\* The inductive invariant holds in every reachable state.
THEOREM ListInvariant == Spec => []ListInv
<1>1. ListInv /\ [Next]_vars => ListInv'
  <2> SUFFICES ASSUME ListInv, [Next]_vars PROVE ListInv'
    OBVIOUS
  <2>1. TypeOK' /\ LockInv' /\ GhostInv' /\ Intact' /\ \A t \in Threads : StageOK(t)'
    BY StepTyping, StepStages, StepGhosts, StepLists
  <2> QED
    BY <2>1 DEF ListInv, Intact
<1> QED
  BY InitInv, <1>1, PTL DEF Spec

\* Metas, records, mutexes, commands and sequences keep their types.
THEOREM ListTyping == Spec => []TypeOK
<1>1. ListInv => TypeOK
  BY DEF ListInv
<1> QED
  BY ListInvariant, <1>1, PTL

LEMMA InvContents == ListInv => Contents
<1> SUFFICES ASSUME ListInv, NEW n \in Names \ (broken \cup inverted), ~Busy(n)
             PROVE  IF meta[n] = NoMeta THEN seq[n] = <<>>
                    ELSE /\ Len(seq[n]) = Size(meta[n])
                         /\ Inside(meta[n]) \subseteq DOMAIN elem[n]
                         /\ \A i \in DOMAIN seq[n] : Stored(n, meta[n].left + i) = seq[n][i]
  BY DEF Contents
<1>1. Agrees(n) /\ Inside(Cur(n)) \subseteq DOMAIN elem[n]
  BY DEF ListInv, ListOK, Bad
<1>2. seq[n] \in Seq(Item) /\ Cur(n) \in Meta
  BY CurTyping DEF ListInv, TypeOK
<1>3. CASE meta[n] = NoMeta
  <2>1. Len(seq[n]) = 0
    BY <1>1, <1>3, FreshMeta DEF Agrees, Cur
  <2> QED
    BY <1>2, <1>3, <2>1, EmptySeq
<1>4. CASE meta[n] # NoMeta
  <2>1. Cur(n) = meta[n]
    BY <1>4 DEF Cur
  <2>2. DOMAIN seq[n] = 1 .. Len(seq[n]) /\ Len(seq[n]) = Size(meta[n])
    BY <1>1, <1>2, <2>1 DEF Agrees
  <2>3. ASSUME NEW i \in DOMAIN seq[n] PROVE Stored(n, meta[n].left + i) = seq[n][i]
    <3>1. meta[n].left + i \in Inside(meta[n])
      BY <1>2, <2>1, <2>2, Positions
    <3> QED
      BY <1>1, <2>1, <2>2, <3>1 DEF Agrees, Stored
  <2> QED
    BY <1>1, <1>4, <2>1, <2>2, <2>3
<1> QED
  BY <1>3, <1>4

\* The meta record and the element records of every intact list hold exactly
\* the elements the commands should have left in it, in order.
THEOREM ListContents == Spec => []Contents
  BY ListInvariant, InvContents, PTL

\* No element record is left where no command can reach it.
THEOREM ListOrphans == Spec => []NoOrphans
<1>1. ListInv => NoOrphans
  <2> SUFFICES ASSUME ListInv, NEW n \in Names \ strays, ~Busy(n)
               PROVE  DOMAIN elem[n] = IF meta[n] = NoMeta THEN {} ELSE Inside(meta[n])
    BY DEF NoOrphans
  <2>1. DOMAIN elem[n] = Inside(Cur(n))
    BY DEF ListInv, ListOK, GhostInv
  <2> QED
    BY <2>1, FreshMeta DEF Cur
<1> QED
  BY ListInvariant, <1>1, PTL

\* LINDEX and LRANGE return what the sequence has at every index.
THEOREM ListReads == Spec => []ReadsAgree
<1>1. ListInv => ReadsAgree
  <2> SUFFICES ASSUME ListInv, NEW n \in Names \ (broken \cup inverted), ~Busy(n),
                      NEW i \in Int, NEW j \in Int
               PROVE  LET s == seq[n]
                          k == IF i < 0 THEN i + Len(s) ELSE i
                      IN /\ LIndex(n, i) = IF k \in 0 .. Len(s) - 1 THEN s[k + 1] ELSE NoMeta
                         /\ LRange(n, i, j) = IF s = <<>> THEN <<>> ELSE Trimmed(s, i, j)
    BY ListAssumption DEF ReadsAgree
  <2> DEFINE s == seq[n]
             k == IF i < 0 THEN i + Len(s) ELSE i
  <2>1. s \in Seq(Item) /\ Len(s) \in Nat
    BY DEF ListInv, TypeOK
  <2>2. IF meta[n] = NoMeta THEN s = <<>>
        ELSE /\ Len(s) = Size(meta[n])
             /\ Inside(meta[n]) \subseteq DOMAIN elem[n]
             /\ \A l \in DOMAIN s : Stored(n, meta[n].left + l) = s[l]
    BY InvContents DEF Contents
  <2>3. CASE meta[n] = NoMeta
    <3>1. Len(s) = 0 /\ s = <<>>
      BY <2>2, <2>3
    <3> QED
      BY <2>3, <3>1 DEF LIndex, LRange
  <2>4. CASE meta[n] # NoMeta
    <3> DEFINE m == meta[n]
    <3>1. /\ m \in Meta /\ Len(s) = Size(m) /\ DOMAIN s = 1 .. Len(s)
          /\ \A l \in 1 .. Len(s) : Stored(n, m.left + l) = s[l]
      <4>1. m \in Meta
        BY <2>4 DEF ListInv, TypeOK
      <4>2. DOMAIN s = 1 .. Len(s)
        BY <2>1
      <4> HIDE DEF s, m
      <4> QED
        BY <2>2, <2>4, <4>1, <4>2 DEF m
    <3>2. AtIndex(m, i) = k + m.left + 1 /\ k \in Int
      BY <2>1, <3>1 DEF AtIndex
    <3>3. k \in 0 .. Len(s) - 1 <=> AtIndex(m, i) \in Inside(m)
      <4>1. m.left \in Int /\ m.right \in Int /\ m.right = m.left + Len(s) + 1
        BY <3>1 DEF Meta, Size
      <4> HIDE DEF s, k, m
      <4> QED
        BY <2>1, <3>2, <4>1 DEF Inside
    <3>4. LIndex(n, i) = IF k \in 0 .. Len(s) - 1 THEN s[k + 1] ELSE NoMeta
      <4>1. k \in 0 .. Len(s) - 1 => k + 1 \in 1 .. Len(s) /\ m.left + (k + 1) = AtIndex(m, i)
        <5>1. m.left \in Int
          BY <3>1 DEF Meta
        <5> HIDE DEF s, k, m
        <5> QED
          BY <2>1, <3>2, <5>1
      <4> HIDE DEF k
      <4> QED
        BY <2>4, <3>1, <3>3, <4>1 DEF LIndex
    <3>5. LRange(n, i, j) = IF s = <<>> THEN <<>> ELSE Trimmed(s, i, j)
      <4>1. CASE s = <<>>
        <5>1. Size(m) = 0
          BY <3>1, <4>1
        <5> QED
          BY <4>1, <5>1 DEF LRange
      <4>2. CASE s # <<>>
        <5> DEFINE a == Clamp(i, Size(m))
                   b == Clamp(j, Size(m))
                   w == Trimmed(s, i, j)
        <5>1. Size(m) > 0 /\ Size(m) \in Int
          BY <2>1, <3>1, <4>2, EmptySeq
        <5>2. CutOut(w, s, a, b)
          BY <2>1, <3>1, <4>2, TrimmedFacts
        <5>3. LRange(n, i, j) =
                [l \in 1 .. (IF a <= b THEN b - a + 1 ELSE 0) |-> Stored(n, m.left + a + l)]
          BY <2>4, <5>1 DEF LRange
        <5> HIDE DEF a, b, w
        <5>4. a \in 0 .. Len(s) - 1 /\ b \in 0 .. Len(s) - 1
              /\ w = [l \in 1 .. Len(w) |-> w[l]] /\ Len(w) = IF a <= b THEN b - a + 1 ELSE 0
          BY <5>2 DEF CutOut
        <5>5. ASSUME NEW l \in 1 .. Len(w) PROVE Stored(n, m.left + a + l) = w[l]
          <6>1. a + l \in 1 .. Len(s) /\ m.left + a + l = m.left + (a + l) /\ l \in 1 .. b - a + 1
            <7>1. m.left \in Int /\ Len(w) = IF a <= b THEN b - a + 1 ELSE 0
              BY <3>1, <5>4 DEF Meta
            <7> HIDE DEF s, m
            <7> QED
              BY <2>1, <5>4, <7>1
          <6> QED
            BY <3>1, <5>2, <6>1 DEF CutOut
        <5>6. LRange(n, i, j) = [l \in 1 .. Len(w) |-> Stored(n, m.left + a + l)]
          BY <5>3, <5>4
        <5> QED
          BY <4>2, <5>4, <5>5, <5>6 DEF w
      <4> QED
        BY <4>1, <4>2
    <3> QED
      BY <3>4, <3>5
  <2> QED
    BY <2>3, <2>4
<1> QED
  BY ListInvariant, <1>1, PTL
=============================================================================
