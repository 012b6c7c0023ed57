------------------------------- MODULE KeyProofs -------------------------------
(***************************************************************************)
(* Proofs about Strings, and then about StringBytes and Expiry, which      *)
(* extend it: for any keys, threads, stripes, databases, paddings, bytes,  *)
(* bounds and any batch of records between two looks at the clock.         *)
(***************************************************************************)
EXTENDS Expiry, StringBytes, FiniteSetTheorems, SequenceTheorems, WellFoundedInduction, TLAPS

\* The command a stage belongs to.
StageOK(t) ==
  /\ pc[t] \notin {"idle", "flush"} =>
       /\ cmd[t] \in Request
       /\ cmd[t].keys # <<>>
       /\ cmd[t].op \in Locked => Len(cmd[t].keys) = 1
       /\ cmd[t].secs \in Seconds \cup {0}
  /\ pc[t] = "wait" => /\ cmd[t].op \in Locked
                       /\ cmd[t].op = "pfmerge" => cmd[t].look # <<>>
  /\ pc[t] = "look" => /\ cmd[t].op \in {"pfmerge", "msetnx", "del"}
                       /\ cmd[t].op # "del" => cmd[t].look # <<>>
                       /\ cmd[t].op = "pfmerge" => got[t] # NoValue
  /\ pc[t] = "write" => cmd[t].op \notin {"del", "expire"}
  /\ pc[t] = "remove" => cmd[t].op = "del"
  /\ pc[t] = "expire" => cmd[t].secs \in Seconds

\* What a command under the mutex has read is what it writes back.
Kept(t) ==
  IF cmd[t].op \in Modifying
  THEN IF got[t] = NoValue THEN {} ELSE got[t].marks
  ELSE IF cmd[t].op = "setnx" THEN {} ELSE Nat

\* A command in the middle holds its mutex, and nothing that must be shown has
\* been added to its key since it read the value.
HolderOK(t) ==
  Inside(t) => /\ lock[Mutex(t)] = t
               /\ pc[t] # "expire" => mods[Key(t)] \subseteq Kept(t)

StringInv ==
  /\ StringsTypeOK
  /\ \A t \in Threads : StageOK(t) /\ HolderOK(t)
  /\ MutexesReleased
  /\ NoLostUpdate

-----------------------------------------------------------------------------
(* Steps of one thread *)

\* What is enough for a step of thread t to leave all other threads alone.
StepOf(t) ==
  /\ \A u \in Threads \ {t} : pc'[u] = pc[u] /\ cmd'[u] = cmd[u] /\ got'[u] = got[u]
  /\ \A s \in Stripes : lock'[s] # lock[s] =>
       lock[s] \in {t, NoThread} /\ lock'[s] \in {t, NoThread}
  /\ \A k \in Keys : mods'[k] # mods[k] => mods'[k] = {} \/ (Inside(t) /\ Key(t) = k)
  /\ abandoned \subseteq abandoned'
  /\ \A s \in Stripes \ abandoned' : lock'[s] = t => Inside(t)' /\ Mutex(t)' = s

LEMMA KeyTyping ==
  ASSUME StringInv, NEW t \in Threads, pc[t] \notin {"idle", "flush"}
  PROVE  /\ cmd[t] \in Request /\ cmd[t].keys \in Seq(Keys) /\ cmd[t].keys # <<>>
         /\ Key(t) \in Keys /\ Mutex(t) \in Stripes
<1>1. cmd[t] \in Request /\ cmd[t].keys # <<>>
  BY DEF StringInv, StageOK
<1>2. cmd[t].keys \in Seq(Keys)
  BY <1>1 DEF Request
<1>3. Key(t) \in Keys
  BY <1>1, <1>2, HeadTailProperties DEF Key
<1> QED
  BY <1>1, <1>2, <1>3 DEF Mutex, Stripes

LEMMA InsideTyping ==
  ASSUME StringInv, NEW t \in Threads, Inside(t)
  PROVE  /\ Key(t) \in Keys /\ Mutex(t) \in Stripes /\ Mutex(t) = Stripe[Key(t)]
         /\ lock[Mutex(t)] = t /\ t # NoThread
         /\ cmd[t] \in Request /\ Len(cmd[t].keys) = 1
<1>1. pc[t] \notin {"idle", "flush"}
  BY DEF Inside
<1> QED
  BY <1>1, KeyTyping, StringAssumption DEF StringInv, HolderOK, StageOK, Inside, Mutex

\* The threads a step leaves alone keep what they rely on.
LEMMA OthersKeep ==
  ASSUME StringInv, NEW t \in Threads, StepOf(t), NEW u \in Threads \ {t}
  PROVE  StageOK(u)' /\ HolderOK(u)' /\ Inside(u)' = Inside(u) /\ Mutex(u)' = Mutex(u)
<1>1. pc'[u] = pc[u] /\ cmd'[u] = cmd[u] /\ got'[u] = got[u]
  BY DEF StepOf
<1>2. /\ StageOK(u)' /\ Inside(u)' = Inside(u) /\ Mutex(u)' = Mutex(u)
      /\ Key(u)' = Key(u) /\ Kept(u)' = Kept(u)
  BY <1>1 DEF StringInv, StageOK, Inside, Mutex, Key, Kept
<1>3. ASSUME Inside(u)
      PROVE  lock'[Mutex(u)] = u /\ (pc[u] # "expire" => mods'[Key(u)] \subseteq Kept(u))
  <2>1. /\ Key(u) \in Keys /\ Mutex(u) \in Stripes /\ Mutex(u) = Stripe[Key(u)]
        /\ lock[Mutex(u)] = u /\ u # NoThread
    BY <1>3, InsideTyping
  <2>2. lock'[Mutex(u)] = u
    BY <2>1 DEF StepOf
  <2>3. ~(Inside(t) /\ Key(t) = Key(u))
    BY <2>1, InsideTyping
  <2>4. mods'[Key(u)] = mods[Key(u)] \/ mods'[Key(u)] = {}
    BY <2>1, <2>3 DEF StepOf
  <2> QED
    BY <1>3, <2>2, <2>4 DEF StringInv, HolderOK
<1>4. HolderOK(u)'
  BY <1>1, <1>2, <1>3 DEF HolderOK
<1> QED
  BY <1>2, <1>4

MutexOK(s) ==
  IF lock[s] = NoThread THEN \A t \in Threads : Inside(t) => Mutex(t) # s
  ELSE Inside(lock[s]) /\ Mutex(lock[s]) = s

LEMMA StepPreserves ==
  ASSUME StringInv, NEW t \in Threads, StepOf(t),
         StringsTypeOK', StageOK(t)', HolderOK(t)', NoLostUpdate'
  PROVE  StringInv'
<1>1. ASSUME NEW u \in Threads PROVE StageOK(u)' /\ HolderOK(u)'
  BY OthersKeep
<1>2. ASSUME NEW s \in Stripes, s \notin abandoned'
      PROVE  MutexOK(s)'
  <2>1. CASE lock'[s] = NoThread
    BY <1>1, <2>1, StringAssumption DEF HolderOK, MutexOK
  <2>2. ASSUME NEW u \in Threads, lock'[s] = u, Inside(u)', Mutex(u)' = s
        PROVE  MutexOK(s)'
    BY <2>2, StringAssumption DEF MutexOK, Inside, Mutex, Key
  <2>3. CASE lock'[s] = t
    BY <1>2, <2>2, <2>3 DEF StepOf
  <2>4. CASE lock'[s] \notin {t, NoThread}
    <3>1. PICK u \in Threads \ {t} : u = lock[s]
      BY <2>4 DEF StepOf, StringInv, StringsTypeOK
    <3>2. lock'[s] = u /\ lock[s] = u /\ s \notin abandoned /\ u # NoThread
      BY <1>2, <2>4, <3>1, StringAssumption DEF StepOf
    <3>3. Inside(u) /\ Mutex(u) = s
      BY <3>2 DEF StringInv, MutexesReleased
    <3>4. Inside(u)' /\ Mutex(u)' = s
      BY <3>3, OthersKeep
    <3> QED
      BY <2>2, <3>2, <3>4
  <2> QED
    BY <2>1, <2>3, <2>4
<1>3. MutexesReleased'
  BY <1>2 DEF MutexesReleased, MutexOK
<1> QED
  BY <1>1, <1>3 DEF StringInv

-----------------------------------------------------------------------------
(* Requests *)

Starts(c, stage) ==
  /\ c \in Request
  /\ c.keys # <<>>
  /\ c.op \in Locked => Len(c.keys) = 1
  /\ c.secs \in Seconds \cup {0}
  /\ \/ stage = "wait" /\ c.op \in Locked /\ (c.op = "pfmerge" => c.look # <<>>)
     \/ stage = "write" /\ c.op \in {"set", "mset"}
     \/ stage = "look" /\ c.op = "msetnx" /\ c.look # <<>>
     \/ stage = "look" /\ c.op = "del"
     \/ stage = "expire" /\ c.op = "expire" /\ c.secs \in Seconds

LEMMA KeyListTyping ==
  ASSUME NEW op, NEW ks \in KeyLists(op)
  PROVE  ks \in Seq(Keys) /\ ks # <<>>
<1>1. ks \in [1..1 -> Keys] \/ ks \in [1..2 -> Keys]
  BY DEF KeyLists
<1>2. \A n \in Nat : \A s \in [1..n -> Keys] : s \in Seq(Keys) /\ (n # 0 => s # <<>>)
  BY SeqDef
<1>3. CASE ks \in [1..1 -> Keys]
  <2>1. 1 \in Nat /\ 1 # 0
    OBVIOUS
  <2> QED
    BY <1>2, <1>3, <2>1
<1>4. CASE ks \in [1..2 -> Keys]
  <2>1. 2 \in Nat /\ 2 # 0
    OBVIOUS
  <2> QED
    BY <1>2, <1>4, <2>1
<1> QED
  BY <1>1, <1>3, <1>4

LEMMA NotEmpty ==
  ASSUME NEW s, Len(s) # 0
  PROVE  s # <<>>
<1>1. Len(<<>>) = 0
  BY EmptySeq
<1> QED
  BY <1>1, Zenon

LEMMA OneKey ==
  ASSUME NEW k \in Keys
  PROVE  <<k>> \in Seq(Keys) /\ <<k>> # <<>> /\ Len(<<k>>) = 1 /\ <<>> \in Seq(Keys)
  OBVIOUS

LEMMA CommandStep ==
  ASSUME StringInv, NEW t \in Threads, Command(t), ~FlushStart(t)
  PROVE  \E c, stage : Starts(c, stage) /\ Begin(t, c, stage)
<1>0. ops \in Nat /\ Seconds \subseteq Nat /\ Kinds \subseteq BOOLEAN /\ {0} \cup Seconds \subseteq Nat
  BY StringAssumption DEF StringInv, StringsTypeOK
<1>1. CASE LockedCommand(t)
  <2>1. PICK op \in Locked \ {"pfmerge", "setex"}, k \in Keys : \E n \in Numbers(op) :
          Begin(t, [op |-> op, keys |-> <<k>>, look |-> <<>>, number |-> n,
                    secs |-> 0, id |-> ops], "wait")
    BY <1>1 DEF LockedCommand
  <2>2. Numbers(op) \subseteq BOOLEAN
    BY <1>0 DEF Numbers
  <2> QED
    BY <1>0, <2>1, <2>2, OneKey DEF Starts, Request
<1>2. CASE SetExCommand(t)
  <2>1. PICK k \in Keys, n \in Kinds, s \in Seconds :
          Begin(t, [op |-> "setex", keys |-> <<k>>, look |-> <<>>, number |-> n,
                    secs |-> s, id |-> ops], "wait")
    BY <1>2 DEF SetExCommand
  <2> QED
    BY <1>0, <2>1, OneKey DEF Starts, Request, Locked, Replacing
<1>3. CASE PFMergeCommand(t)
  <2>1. PICK ks \in [1..2 -> Keys] :
          Begin(t, [op |-> "pfmerge", keys |-> <<ks[1]>>, look |-> Tail(ks), number |-> FALSE,
                    secs |-> 0, id |-> ops], "wait")
    BY <1>3 DEF PFMergeCommand
  <2>2. ks \in Seq(Keys) /\ ks # <<>> /\ ks[1] \in Keys
    <3>1. ks \in KeyLists("mset")
      BY DEF KeyLists, Several
    <3>2. ks[1] \in Keys
      OBVIOUS
    <3> QED
      BY <3>1, <3>2, KeyListTyping
  <2>3. Tail(ks) \in Seq(Keys) /\ Tail(ks) # <<>>
    <3>1. Len(ks) = 2
      OBVIOUS
    <3>2. Tail(ks) \in Seq(Keys) /\ Len(Tail(ks)) = 1
      BY <2>2, <3>1, HeadTailProperties
    <3>3. Len(Tail(ks)) # 0
      BY <3>2
    <3>4. Tail(ks) # <<>>
      BY <3>3, NotEmpty
    <3> QED
      BY <3>2, <3>4
  <2> QED
    BY <1>0, <2>1, <2>2, <2>3, OneKey DEF Starts, Request, Locked, Modifying
<1>4. CASE SetCommand(t)
  <2>0. PICK op \in {"set", "mset"} : \E ks \in KeyLists(op), n \in Kinds :
          \E s \in {0} \cup (IF op = "set" THEN Seconds ELSE {}) :
            Begin(t, [op |-> op, keys |-> ks, look |-> <<>>, number |-> n,
                      secs |-> s, id |-> ops], "write")
    BY <1>4 DEF SetCommand
  <2>1. PICK ks \in KeyLists(op), n \in Kinds, s \in {0} \cup Seconds :
          Begin(t, [op |-> op, keys |-> ks, look |-> <<>>, number |-> n,
                    secs |-> s, id |-> ops], "write")
    BY <2>0
  <2>2. /\ ks \in Seq(Keys) /\ ks # <<>> /\ <<>> \in Seq(Keys)
        /\ n \in BOOLEAN /\ s \in Nat
    BY <1>0, KeyListTyping
  <2> QED
    BY <1>0, <2>1, <2>2
    DEF Starts, Request, Locked, Modifying, Replacing, Unlocked
<1>5. CASE MSetNXCommand(t)
  <2>1. PICK ks \in KeyLists("msetnx"), n \in Kinds :
          Begin(t, [op |-> "msetnx", keys |-> ks, look |-> ks, number |-> n,
                    secs |-> 0, id |-> ops], "look")
    BY <1>5 DEF MSetNXCommand
  <2>2. ks \in Seq(Keys) /\ ks # <<>> /\ n \in BOOLEAN
    BY <1>0, KeyListTyping
  <2> QED
    BY <1>0, <2>1, <2>2 DEF Starts, Request, Locked, Modifying, Replacing, Unlocked
<1>6. CASE DelCommand(t)
  <2>1. PICK ks \in KeyLists("del") :
          Begin(t, [op |-> "del", keys |-> ks, look |-> <<>>, number |-> FALSE,
                    secs |-> 0, id |-> ops], "look")
    BY <1>6 DEF DelCommand
  <2>2. ks \in Seq(Keys) /\ ks # <<>> /\ <<>> \in Seq(Keys)
    BY KeyListTyping
  <2> QED
    BY <1>0, <2>1, <2>2 DEF Starts, Request, Locked, Modifying, Replacing, Unlocked
<1>7. CASE ExpireCommand(t)
  <2>1. PICK k \in Keys, s \in Seconds :
          Begin(t, [op |-> "expire", keys |-> <<k>>, look |-> <<>>, number |-> FALSE,
                    secs |-> s, id |-> ops], "expire")
    BY <1>7 DEF ExpireCommand
  <2> QED
    BY <1>0, <2>1, OneKey DEF Starts, Request, Locked, Modifying, Replacing, Unlocked
<1> QED
  BY <1>1, <1>2, <1>3, <1>4, <1>5, <1>6, <1>7 DEF Command

LEMMA BeginStep ==
  ASSUME StringInv, NEW t \in Threads, NEW c, NEW stage, Starts(c, stage), Begin(t, c, stage)
  PROVE  StringInv'
<1>1. /\ pc' = [pc EXCEPT ![t] = stage] /\ cmd' = [cmd EXCEPT ![t] = c]
      /\ pc[t] = "idle" /\ pc'[t] = stage /\ cmd'[t] = c /\ got'[t] = got[t]
      /\ ops' = ops + 1 /\ ops < MaxOps
      /\ UNCHANGED <<store, expiry, clock, lock, got, flush, mods, abandoned>>
  BY DEF Begin, StringInv, StringsTypeOK, data
<1>2. StringsTypeOK'
  BY <1>1, StringAssumption DEF StringInv, StringsTypeOK, Starts, Stage
<1>3. ~Inside(t) /\ ~Inside(t)'
  BY <1>1 DEF Starts, Inside, Locked, Modifying, Replacing
<1>4. StageOK(t)' /\ HolderOK(t)'
  BY <1>1, <1>3 DEF Starts, StageOK, HolderOK
<1>5. \A s \in Stripes \ abandoned : lock[s] # t
  BY <1>3, StringAssumption DEF StringInv, MutexesReleased
<1>6. StepOf(t)
  BY <1>1, <1>5 DEF StepOf, StringInv, StringsTypeOK
<1>7. NoLostUpdate'
  BY <1>1 DEF StringInv, NoLostUpdate
<1> QED
  BY <1>2, <1>4, <1>6, <1>7, StepPreserves

-----------------------------------------------------------------------------
(* Replies *)

\* A thread that goes idle, or on with its command.
Moves(t) ==
  /\ pc' \in [Threads -> Stage]
  /\ cmd' \in [Threads -> Request \cup {NoCmd}]
  /\ got' \in [Threads -> Value \cup {NoValue}]
  /\ \A u \in Threads \ {t} : pc'[u] = pc[u] /\ cmd'[u] = cmd[u] /\ got'[u] = got[u]

LEMMA OverFacts ==
  ASSUME StringInv, NEW t \in Threads, Over(t)
  PROVE  Moves(t) /\ pc'[t] = "idle" /\ StageOK(t)' /\ HolderOK(t)' /\ ~Inside(t)'
<1>1. Moves(t) /\ pc'[t] = "idle"
  BY DEF Over, Moves, Stage, StringInv, StringsTypeOK
<1> QED
  BY <1>1 DEF StageOK, HolderOK, Inside

LEMMA NextKeyFacts ==
  ASSUME StringInv, NEW t \in Threads, pc[t] \notin {"idle", "flush"},
         NEW stage \in {"look", "write"}, NextKey(t, stage),
         stage = "look" => cmd[t].op = "del",
         stage = "write" => cmd[t].op \notin {"del", "expire"}
  PROVE  /\ Moves(t) /\ StageOK(t)' /\ HolderOK(t)' /\ ~Inside(t)'
         /\ cmd[t].op \in Locked => pc'[t] = "idle"
<1>1. CASE Len(cmd[t].keys) = 1
  BY <1>1, OverFacts DEF NextKey
<1>2. CASE Len(cmd[t].keys) # 1
  <2>1. /\ cmd[t] \in Request /\ cmd[t].keys \in Seq(Keys) /\ cmd[t].keys # <<>>
        /\ cmd[t].op \notin Locked /\ cmd[t].secs \in Seconds \cup {0}
    BY <1>2, KeyTyping DEF StringInv, StageOK
  <2>2. Tail(cmd[t].keys) \in Seq(Keys) /\ Tail(cmd[t].keys) # <<>>
    <3> DEFINE ks == cmd[t].keys
    <3>1. ks \in Seq(Keys) /\ ks # <<>> /\ Len(ks) # 1
      BY <1>2, <2>1
    <3> HIDE DEF ks
    <3>2. Len(ks) \in Nat /\ Len(ks) # 0
      BY <3>1, EmptySeq
    <3>3. Tail(ks) \in Seq(Keys) /\ Len(Tail(ks)) = Len(ks) - 1
      BY <3>1, HeadTailProperties
    <3>4. Len(Tail(ks)) # 0
      BY <3>1, <3>2, <3>3
    <3>5. Tail(ks) # <<>>
      BY <3>4, NotEmpty
    <3> QED
      BY <3>3, <3>5 DEF ks
  <2>3. /\ cmd' = [cmd EXCEPT ![t].keys = Tail(@)] /\ pc' = [pc EXCEPT ![t] = stage] /\ got' = got
    BY <1>2 DEF NextKey
  <2>4. cmd \in [Threads -> Request \cup {NoCmd}] /\ pc \in [Threads -> Stage]
        /\ got \in [Threads -> Value \cup {NoValue}]
    BY DEF StringInv, StringsTypeOK
  <2>5. /\ cmd'[t] \in Request /\ cmd'[t].keys = Tail(cmd[t].keys) /\ cmd'[t].op = cmd[t].op
        /\ cmd'[t].secs = cmd[t].secs
    BY <2>1, <2>2, <2>3, <2>4 DEF Request
  <2>6. pc'[t] = stage /\ stage \in Stage
    BY <2>3, <2>4 DEF Stage
  <2>7. Moves(t)
    BY <2>3, <2>4, <2>5, <2>6 DEF Moves
  <2>8. ~Inside(t)'
    BY <2>1, <2>5 DEF Inside
  <2> QED
    BY <2>1, <2>2, <2>5, <2>6, <2>7, <2>8 DEF StageOK, HolderOK
<1> QED
  BY <1>1, <1>2

\* Types, for the steps that leave the records alone.
LEMMA QuietTypes ==
  ASSUME StringInv, NEW t \in Threads, Moves(t),
         lock' \in [Stripes -> Threads \cup {NoThread}], abandoned' \subseteq Stripes,
         UNCHANGED <<store, expiry, clock, flush, ops, mods>>
  PROVE  StringsTypeOK' /\ NoLostUpdate'
  BY DEF StringInv, StringsTypeOK, Moves, NoLostUpdate

LEMMA FreeMutex ==
  ASSUME StringInv, NEW t \in Threads, pc[t] = "wait", Free(Mutex(t))
  PROVE  /\ Mutex(t) \in Stripes /\ lock[Mutex(t)] = NoThread /\ ~Inside(t)
         /\ [lock EXCEPT ![Mutex(t)] = t] \in [Stripes -> Threads \cup {NoThread}]
         /\ lock \in [Stripes -> Threads \cup {NoThread}]
         /\ cmd[t].op \in Locked /\ cmd[t] \in Request /\ Key(t) \in Keys
         /\ \A s \in Stripes \ abandoned : lock[s] # t
<1>1. Mutex(t) \in Stripes /\ cmd[t] \in Request /\ Key(t) \in Keys /\ ~Inside(t)
  BY KeyTyping DEF Inside
<1>2. lock \in [Stripes -> Threads \cup {NoThread}]
  BY DEF StringInv, StringsTypeOK
<1>3. \A s \in Stripes \ abandoned : lock[s] # t
  BY <1>1, StringAssumption DEF StringInv, MutexesReleased
<1> QED
  BY <1>1, <1>2, <1>3 DEF Free, StringInv, StageOK

LEMMA RefusedStep ==
  ASSUME StringInv, NEW t \in Threads, Refused(t)
  PROVE  StringInv'
<1>1. /\ pc[t] = "wait" /\ Free(Mutex(t)) /\ Over(t)
      /\ UNCHANGED <<store, expiry, clock, lock, flush, ops, mods, abandoned>>
  BY DEF Refused, data
<1>2. /\ Moves(t) /\ StageOK(t)' /\ HolderOK(t)' /\ ~Inside(t)'
  BY <1>1, OverFacts
<1>3. StringsTypeOK' /\ NoLostUpdate'
  BY <1>1, <1>2, FreeMutex, QuietTypes DEF StringInv, StringsTypeOK
<1>4. StepOf(t)
  BY <1>1, <1>2, FreeMutex DEF StepOf, Moves
<1> QED
  BY <1>2, <1>3, <1>4, StepPreserves

LEMMA EnterStep ==
  ASSUME StringInv, NEW t \in Threads, Enter(t)
  PROVE  StringInv'
<1> DEFINE v == store[Key(t)]
<1>1. /\ pc[t] = "wait" /\ Free(Mutex(t))
      /\ ~Refuses(cmd[t].op, v)
      /\ cmd[t].op = "pfmerge" => v # NoValue
      /\ got' = [got EXCEPT ![t] = IF cmd[t].op = "setex" THEN NoValue ELSE v]
      /\ lock' = [lock EXCEPT ![Mutex(t)] = t]
      /\ pc' = [pc EXCEPT ![t] = IF cmd[t].op = "pfmerge" THEN "look" ELSE "write"]
      /\ UNCHANGED <<store, expiry, clock, cmd, flush, ops, mods, abandoned>>
  BY DEF Enter, data
<1>2. v \in Value \cup {NoValue} /\ mods[Key(t)] \in SUBSET Nat
      /\ (IF v = NoValue THEN mods[Key(t)] = {} ELSE mods[Key(t)] \subseteq v.marks)
  BY <1>1, FreeMutex DEF StringInv, StringsTypeOK, NoLostUpdate
<1>3. /\ pc'[t] = (IF cmd[t].op = "pfmerge" THEN "look" ELSE "write")
      /\ got'[t] = (IF cmd[t].op = "setex" THEN NoValue ELSE v)
      /\ lock'[Mutex(t)] = t /\ cmd' = cmd /\ mods' = mods
  BY <1>1, FreeMutex DEF StringInv, StringsTypeOK
<1> HIDE DEF v
<1>4. Moves(t)
  BY <1>1, <1>2 DEF Moves, Stage, StringInv, StringsTypeOK
<1>5. StringsTypeOK' /\ NoLostUpdate'
  BY <1>1, <1>4, FreeMutex, QuietTypes DEF StringInv, StringsTypeOK
<1>6. Inside(t)' /\ Mutex(t)' = Mutex(t) /\ Key(t)' = Key(t)
  BY <1>1, <1>3, FreeMutex DEF Inside, Mutex, Key
<1>7. StageOK(t)'
  <2>1. /\ cmd[t] \in Request /\ cmd[t].keys # <<>>
        /\ cmd[t].op \in Locked /\ Len(cmd[t].keys) = 1
        /\ cmd[t].secs \in Seconds \cup {0}
    BY <1>1 DEF StringInv, StageOK
  <2>2. cmd[t].op = "pfmerge" => cmd[t].look # <<>>
    BY <1>1 DEF StringInv, StageOK
  <2> QED
    BY <1>1, <1>3, <2>1, <2>2 DEF StageOK, Locked, Modifying, Replacing
<1>8. HolderOK(t)'
  <2>1. mods[Key(t)] \subseteq Kept(t)'
    BY <1>1, <1>2, <1>3, FreeMutex DEF Kept, Refuses, Locked, Modifying, Replacing
  <2> QED
    BY <1>3, <1>6, <2>1 DEF HolderOK
<1>9. StepOf(t)
  BY <1>1, <1>4, <1>6, FreeMutex DEF StepOf, Moves
<1> QED
  BY <1>5, <1>7, <1>8, <1>9, StepPreserves

LEMMA MergeIntoMissingStep ==
  ASSUME StringInv, NEW t \in Threads, MergeIntoMissing(t)
  PROVE  StringInv'
<1>1. /\ pc[t] = "wait" /\ Free(Mutex(t)) /\ Over(t)
      /\ lock' = [lock EXCEPT ![Mutex(t)] = t]
      /\ abandoned' = abandoned \cup {Mutex(t)}
      /\ UNCHANGED <<store, expiry, clock, flush, ops, mods>>
  BY DEF MergeIntoMissing, data
<1>2. /\ Moves(t) /\ StageOK(t)' /\ HolderOK(t)' /\ ~Inside(t)'
  BY <1>1, OverFacts
<1>3. StringsTypeOK' /\ NoLostUpdate'
  BY <1>1, <1>2, FreeMutex, QuietTypes DEF StringInv, StringsTypeOK
<1>4. StepOf(t)
  BY <1>1, <1>2, FreeMutex DEF StepOf, Moves
<1> QED
  BY <1>2, <1>3, <1>4, StepPreserves

\* A thread in a command holds no mutex but its own, and its own only inside.
LEMMA OwnMutex ==
  ASSUME StringInv, NEW t \in Threads, NEW s \in Stripes \ abandoned, lock[s] = t
  PROVE  Inside(t) /\ Mutex(t) = s
  BY StringAssumption DEF StringInv, MutexesReleased

LEMMA MergeMissingStep ==
  ASSUME StringInv, NEW t \in Threads, MergeMissing(t)
  PROVE  StringInv'
<1>1. /\ pc[t] = "look" /\ Over(t)
      /\ abandoned' = abandoned \cup {Mutex(t)}
      /\ UNCHANGED <<store, expiry, clock, lock, flush, ops, mods>>
  BY DEF MergeMissing, data
<1>2. /\ Moves(t) /\ StageOK(t)' /\ HolderOK(t)' /\ ~Inside(t)'
  BY <1>1, OverFacts
<1>3. Mutex(t) \in Stripes
  BY <1>1, KeyTyping
<1>4. StringsTypeOK' /\ NoLostUpdate'
  BY <1>1, <1>2, <1>3, QuietTypes DEF StringInv, StringsTypeOK
<1>5. StepOf(t)
  BY <1>1, <1>2, OwnMutex DEF StepOf, Moves
<1> QED
  BY <1>2, <1>4, <1>5, StepPreserves

\* One key less to look at.
LEMMA NextLook ==
  ASSUME StringInv, NEW t \in Threads, pc[t] = "look", cmd[t].op # "del",
         cmd' = [cmd EXCEPT ![t].look = Tail(@)],
         pc' = [pc EXCEPT ![t] = IF Len(cmd[t].look) = 1 THEN "write" ELSE "look"]
  PROVE  /\ pc' \in [Threads -> Stage] /\ cmd' \in [Threads -> Request \cup {NoCmd}]
         /\ \A u \in Threads \ {t} : pc'[u] = pc[u] /\ cmd'[u] = cmd[u]
         /\ cmd'[t] \in Request /\ cmd'[t].keys = cmd[t].keys /\ cmd'[t].op = cmd[t].op
         /\ cmd'[t].secs = cmd[t].secs
         /\ pc'[t] \in {"look", "write"}
         /\ pc'[t] = "look" => cmd'[t].look # <<>>
<1> DEFINE ks == cmd[t].look
<1>1. /\ cmd[t] \in Request /\ ks \in Seq(Keys) /\ ks # <<>>
  BY KeyTyping DEF StringInv, StageOK, Request
<1> HIDE DEF ks
<1>2. Tail(ks) \in Seq(Keys) /\ Len(Tail(ks)) = Len(ks) - 1 /\ Len(ks) \in Nat
  BY <1>1, HeadTailProperties
<1>3. Len(ks) # 1 => Tail(ks) # <<>>
  <2>1. SUFFICES ASSUME Len(ks) # 1 PROVE Tail(ks) # <<>>
    OBVIOUS
  <2>2. Len(Tail(ks)) # 0
    BY <1>2, <2>1
  <2> QED
    BY <2>2, NotEmpty
<1>4. cmd \in [Threads -> Request \cup {NoCmd}] /\ pc \in [Threads -> Stage]
  BY DEF StringInv, StringsTypeOK
<1>5. /\ cmd'[t] \in Request /\ cmd'[t].keys = cmd[t].keys /\ cmd'[t].op = cmd[t].op
      /\ cmd'[t].secs = cmd[t].secs /\ cmd'[t].look = Tail(ks)
  BY <1>1, <1>2, <1>4 DEF Request, ks
<1>6. pc'[t] = (IF Len(ks) = 1 THEN "write" ELSE "look")
  BY <1>4 DEF ks
<1> QED
  BY <1>3, <1>4, <1>5, <1>6 DEF Stage

LEMMA MergeStep ==
  ASSUME StringInv, NEW t \in Threads, Merge(t)
  PROVE  StringInv'
<1> DEFINE v == store[Head(cmd[t].look)]
<1>1. /\ pc[t] = "look" /\ cmd[t].op = "pfmerge" /\ v # NoValue
      /\ got' = [got EXCEPT ![t].marks = @ \cup v.marks]
      /\ cmd' = [cmd EXCEPT ![t].look = Tail(@)]
      /\ pc' = [pc EXCEPT ![t] = IF Len(cmd[t].look) = 1 THEN "write" ELSE "look"]
      /\ UNCHANGED <<store, expiry, clock, lock, flush, ops, mods, abandoned>>
  BY DEF Merge, data
<1>2. v \in Value
  <2>1. cmd[t].look \in Seq(Keys) /\ cmd[t].look # <<>>
    BY <1>1, KeyTyping DEF StringInv, StageOK, Request
  <2>2. Head(cmd[t].look) \in Keys
    BY <2>1, HeadTailProperties
  <2> QED
    BY <1>1, <2>2 DEF StringInv, StringsTypeOK
<1> HIDE DEF v
<1>3. /\ pc' \in [Threads -> Stage] /\ cmd' \in [Threads -> Request \cup {NoCmd}]
      /\ \A u \in Threads \ {t} : pc'[u] = pc[u] /\ cmd'[u] = cmd[u]
      /\ cmd'[t] \in Request /\ cmd'[t].keys = cmd[t].keys /\ cmd'[t].op = cmd[t].op
      /\ cmd'[t].secs = cmd[t].secs
      /\ pc'[t] \in {"look", "write"}
      /\ pc'[t] = "look" => cmd'[t].look # <<>>
  BY <1>1, NextLook
<1>4. got \in [Threads -> Value \cup {NoValue}] /\ got[t] \in Value
  BY <1>1 DEF StringInv, StringsTypeOK, StageOK
<1>5. /\ got'[t] \in Value /\ got'[t].marks = got[t].marks \cup v.marks
      /\ got' \in [Threads -> Value \cup {NoValue}]
      /\ \A u \in Threads \ {t} : got'[u] = got[u]
  BY <1>1, <1>2, <1>4 DEF Value
<1>6. Moves(t)
  BY <1>3, <1>5 DEF Moves
<1>7. StringsTypeOK' /\ NoLostUpdate'
  BY <1>1, <1>6, QuietTypes DEF StringInv, StringsTypeOK
<1>8. Inside(t) /\ Inside(t)' /\ Mutex(t)' = Mutex(t) /\ Key(t)' = Key(t)
  BY <1>1, <1>3 DEF Inside, Mutex, Key, Locked, Modifying
<1>9. got'[t] # NoValue /\ got[t] # NoValue
  BY <1>4, <1>5, StringAssumption DEF Value
<1>10. StageOK(t)'
  <2>1. /\ cmd[t].keys # <<>> /\ Len(cmd[t].keys) = 1 /\ cmd[t].secs \in Seconds \cup {0}
    BY <1>1 DEF StringInv, StageOK, Locked, Modifying
  <2> QED
    BY <1>1, <1>3, <1>9, <2>1 DEF StageOK, Locked, Modifying, Replacing
<1>11. HolderOK(t)'
  <2>1. lock[Mutex(t)] = t /\ mods[Key(t)] \subseteq got[t].marks
    BY <1>1, <1>8, <1>9 DEF StringInv, HolderOK, Kept, Modifying
  <2>2. Kept(t)' = got[t].marks \cup v.marks
    BY <1>1, <1>3, <1>5, <1>9 DEF Kept, Modifying
  <2>3. lock' = lock /\ mods' = mods
    BY <1>1
  <2> QED
    BY <1>8, <2>1, <2>2, <2>3 DEF HolderOK
<1>12. StepOf(t)
  BY <1>1, <1>6, <1>8, OwnMutex DEF StepOf, Moves
<1> QED
  BY <1>7, <1>10, <1>11, <1>12, StepPreserves

LEMMA LookNXStep ==
  ASSUME StringInv, NEW t \in Threads, LookNX(t)
  PROVE  StringInv'
<1>1. /\ pc[t] = "look" /\ cmd[t].op = "msetnx"
      /\ UNCHANGED <<store, expiry, clock, lock, flush, ops, mods, abandoned>>
      /\ \/ Over(t)
         \/ /\ cmd' = [cmd EXCEPT ![t].look = Tail(@)]
            /\ pc' = [pc EXCEPT ![t] = IF Len(cmd[t].look) = 1 THEN "write" ELSE "look"]
            /\ got' = got
  BY DEF LookNX, data
<1>2. Moves(t) /\ StageOK(t)' /\ HolderOK(t)' /\ ~Inside(t)'
  <2>1. CASE Over(t)
    BY <2>1, OverFacts
  <2>2. CASE /\ cmd' = [cmd EXCEPT ![t].look = Tail(@)]
             /\ pc' = [pc EXCEPT ![t] = IF Len(cmd[t].look) = 1 THEN "write" ELSE "look"]
             /\ got' = got
    <3>1. /\ pc' \in [Threads -> Stage] /\ cmd' \in [Threads -> Request \cup {NoCmd}]
          /\ \A u \in Threads \ {t} : pc'[u] = pc[u] /\ cmd'[u] = cmd[u]
          /\ cmd'[t] \in Request /\ cmd'[t].keys = cmd[t].keys /\ cmd'[t].op = "msetnx"
          /\ cmd'[t].secs = cmd[t].secs
          /\ pc'[t] \in {"look", "write"}
          /\ pc'[t] = "look" => cmd'[t].look # <<>>
      BY <1>1, <2>2, NextLook
    <3>2. got' = got /\ got \in [Threads -> Value \cup {NoValue}]
      BY <2>2 DEF StringInv, StringsTypeOK
    <3>3. cmd[t].keys # <<>> /\ cmd[t].secs \in Seconds \cup {0}
      BY <1>1 DEF StringInv, StageOK
    <3> QED
      BY <3>1, <3>2, <3>3
      DEF Moves, StageOK, HolderOK, Inside, Locked, Modifying, Replacing
  <2> QED
    BY <1>1, <2>1, <2>2
<1>3. StringsTypeOK' /\ NoLostUpdate'
  BY <1>1, <1>2, QuietTypes DEF StringInv, StringsTypeOK
<1>4. ~Inside(t)
  BY <1>1 DEF Inside, Locked, Modifying, Replacing
<1>5. StepOf(t)
  BY <1>1, <1>2, <1>4, OwnMutex DEF StepOf, Moves
<1> QED
  BY <1>2, <1>3, <1>5, StepPreserves
LEMMA LookDelStep ==
  ASSUME StringInv, NEW t \in Threads, LookDel(t)
  PROVE  StringInv'
<1>1. /\ pc[t] = "look" /\ cmd[t].op = "del"
      /\ UNCHANGED <<store, expiry, clock, lock, flush, ops, mods, abandoned>>
      /\ \/ NextKey(t, "look")
         \/ pc' = [pc EXCEPT ![t] = "remove"] /\ cmd' = cmd /\ got' = got
  BY DEF LookDel, data
<1>2. Moves(t) /\ StageOK(t)' /\ HolderOK(t)' /\ ~Inside(t)'
  <2>1. CASE NextKey(t, "look")
    BY <1>1, <2>1, NextKeyFacts
  <2>2. CASE pc' = [pc EXCEPT ![t] = "remove"] /\ cmd' = cmd /\ got' = got
    <3>1. pc'[t] = "remove" /\ Moves(t)
      BY <2>2 DEF Moves, Stage, StringInv, StringsTypeOK
    <3> QED
      BY <1>1, <2>2, <3>1 DEF StageOK, HolderOK, Inside, StringInv
  <2> QED
    BY <1>1, <2>1, <2>2
<1>3. StringsTypeOK' /\ NoLostUpdate'
  BY <1>1, <1>2, QuietTypes DEF StringInv, StringsTypeOK
<1>4. ~Inside(t)
  BY <1>1 DEF Inside, Locked, Modifying, Replacing
<1>5. StepOf(t)
  BY <1>1, <1>2, <1>4, OwnMutex DEF StepOf, Moves
<1> QED
  BY <1>2, <1>3, <1>5, StepPreserves

\* Removing a record, as DEL and FLUSHDB do, together with what it had to show.
LEMMA Removed ==
  ASSUME StringInv, NEW k \in Keys,
         store' = [store EXCEPT ![k] = NoValue], mods' = [mods EXCEPT ![k] = {}]
  PROVE  /\ store' \in [Keys -> Value \cup {NoValue}]
         /\ mods' \in [Keys -> SUBSET Nat]
         /\ NoLostUpdate'
         /\ \A x \in Keys : mods'[x] # mods[x] => mods'[x] = {}
<1>1. store \in [Keys -> Value \cup {NoValue}] /\ mods \in [Keys -> SUBSET Nat]
  BY DEF StringInv, StringsTypeOK
<1>2. NoLostUpdate'
  BY <1>1 DEF StringInv, NoLostUpdate
<1> QED
  BY <1>1, <1>2

LEMMA RemoveDelStep ==
  ASSUME StringInv, NEW t \in Threads, RemoveDel(t)
  PROVE  StringInv'
<1>1. /\ pc[t] = "remove" /\ NextKey(t, "look")
      /\ store' = [store EXCEPT ![Key(t)] = NoValue]
      /\ mods' = [mods EXCEPT ![Key(t)] = {}]
      /\ UNCHANGED <<expiry, clock, lock, flush, ops, abandoned>>
  BY DEF RemoveDel
<1>2. cmd[t].op = "del" /\ Key(t) \in Keys
  BY <1>1, KeyTyping DEF StringInv, StageOK
<1>3. Moves(t) /\ StageOK(t)' /\ HolderOK(t)' /\ ~Inside(t)'
  BY <1>1, <1>2, NextKeyFacts
<1>4. /\ store' \in [Keys -> Value \cup {NoValue}] /\ mods' \in [Keys -> SUBSET Nat]
      /\ NoLostUpdate'
      /\ \A x \in Keys : mods'[x] # mods[x] => mods'[x] = {}
  BY <1>1, <1>2, Removed
<1>5. StringsTypeOK'
  BY <1>1, <1>3, <1>4 DEF StringInv, StringsTypeOK, Moves
<1>6. ~Inside(t)
  BY <1>1 DEF Inside
<1>7. StepOf(t)
  BY <1>1, <1>3, <1>4, <1>6, OwnMutex DEF StepOf, Moves
<1> QED
  BY <1>3, <1>4, <1>5, <1>7, StepPreserves

\* The value a command writes shows all that it has to.
LEMMA WriteShows ==
  ASSUME StringInv, NEW t \in Threads, pc[t] = "write"
  PROVE  /\ Key(t) \in Keys
         /\ Result(cmd[t], got[t]) \in Value
         /\ Shown(cmd[t], mods[Key(t)]) \in SUBSET Nat
         /\ Shown(cmd[t], mods[Key(t)]) \subseteq Result(cmd[t], got[t]).marks
         /\ Shown(cmd[t], mods[Key(t)]) # {} => Inside(t)
<1> DEFINE k == Key(t)
           c == cmd[t]
           v == got[t]
<1>1. /\ k \in Keys /\ c \in Request /\ v \in Value \cup {NoValue}
      /\ mods[k] \in SUBSET Nat
  BY KeyTyping DEF StringInv, StringsTypeOK
<1>2. c.id \in Nat /\ c.number \in BOOLEAN
  BY <1>1 DEF Request
<1>3. c.op \in Modifying \cup {"setnx", "getset", "setex"} => Inside(t)
  BY DEF Inside, Locked, Replacing
<1>4. Inside(t) => mods[k] \subseteq Kept(t)
  BY DEF StringInv, HolderOK
<1> HIDE DEF k
<1>5. Result(c, v) \in Value
        /\ Result(c, v).marks = {c.id} \cup (IF c.op \in Modifying /\ v # NoValue THEN v.marks ELSE {})
  BY <1>1, <1>2 DEF Result, Value
<1>6. c.op \in Modifying => Kept(t) = (IF v = NoValue THEN {} ELSE v.marks)
  BY DEF Kept
<1>7. c.op = "setnx" => Kept(t) = {} /\ c.op \notin Modifying
  BY DEF Kept, Modifying
<1>8. CASE c.op \in Modifying \cup {"setnx"}
  <2>1. Shown(c, mods[k]) = mods[k] \cup {c.id}
    BY <1>8 DEF Shown, Modifying
  <2>2. Inside(t) /\ mods[k] \subseteq Kept(t)
    BY <1>3, <1>4, <1>8
  <2>3. mods[k] \subseteq Result(c, v).marks
    BY <1>5, <1>6, <1>7, <1>8, <2>2
  <2> QED
    BY <1>1, <1>2, <1>5, <2>1, <2>2, <2>3 DEF k
<1>9. CASE c.op \notin Modifying \cup {"setnx"}
  <2>1. Shown(c, mods[k]) = (IF c.op \in {"getset", "setex"} THEN {c.id} ELSE {})
    BY <1>9 DEF Shown
  <2> QED
    BY <1>1, <1>2, <1>3, <1>5, <2>1 DEF k
<1> QED
  BY <1>8, <1>9

LEMMA WriteStep ==
  ASSUME StringInv, NEW t \in Threads, Write(t)
  PROVE  StringInv'
<1> DEFINE k == Key(t)
           r == Result(cmd[t], got[t])
           m == Shown(cmd[t], mods[Key(t)])
<1>1. /\ pc[t] = "write"
      /\ store' = [store EXCEPT ![k] = r]
      /\ mods' = [mods EXCEPT ![k] = m]
      /\ \/ cmd[t].secs > 0 /\ pc' = [pc EXCEPT ![t] = "expire"] /\ UNCHANGED <<lock, cmd, got>>
         \/ lock' = Released(t) /\ NextKey(t, "write")
      /\ UNCHANGED <<expiry, clock, flush, ops, abandoned>>
  BY DEF Write
<1>2. k \in Keys /\ r \in Value /\ m \in SUBSET Nat /\ m \subseteq r.marks
      /\ (m # {} => Inside(t))
  BY <1>1, WriteShows
<1>3. store \in [Keys -> Value \cup {NoValue}] /\ mods \in [Keys -> SUBSET Nat]
      /\ lock \in [Stripes -> Threads \cup {NoThread}]
      /\ pc \in [Threads -> Stage] /\ cmd \in [Threads -> Request \cup {NoCmd}]
      /\ got \in [Threads -> Value \cup {NoValue}]
  BY DEF StringInv, StringsTypeOK
<1>4. cmd[t] \in Request /\ Mutex(t) \in Stripes /\ cmd[t].op \notin {"del", "expire"}
      /\ cmd[t].keys # <<>> /\ (cmd[t].op \in Locked => Len(cmd[t].keys) = 1)
      /\ cmd[t].secs \in Seconds \cup {0}
  BY <1>1, KeyTyping DEF StringInv, StageOK
<1>5. \A x \in Keys : mods'[x] # mods[x] => mods'[x] = {} \/ (Inside(t) /\ Key(t) = x)
  BY <1>1, <1>2, <1>3
<1> HIDE DEF r, m
<1>6. NoLostUpdate'
  <2>1. r # NoValue
    BY <1>2, StringAssumption DEF Value
  <2>2. ASSUME NEW x \in Keys, x # k
        PROVE  store'[x] = store[x] /\ mods'[x] = mods[x]
    BY <1>1, <1>3, <2>2
  <2>3. store'[k] = r /\ mods'[k] = m
    BY <1>1, <1>2, <1>3
  <2> HIDE DEF k
  <2> QED
    BY <1>2, <2>1, <2>2, <2>3 DEF StringInv, NoLostUpdate
<1>7. store' \in [Keys -> Value \cup {NoValue}] /\ mods' \in [Keys -> SUBSET Nat]
  BY <1>1, <1>2, <1>3
<1>8. CASE cmd[t].secs > 0 /\ pc' = [pc EXCEPT ![t] = "expire"] /\ UNCHANGED <<lock, cmd, got>>
  <2>1. pc'[t] = "expire" /\ cmd' = cmd /\ got' = got /\ lock' = lock /\ Moves(t)
    BY <1>3, <1>8 DEF Moves, Stage
  <2>2. Inside(t)' = Inside(t) /\ Mutex(t)' = Mutex(t)
    BY <1>1, <2>1 DEF Inside, Mutex, Key
  <2>3. cmd[t].secs \in Seconds
    BY <1>4, <1>8
  <2>4. StageOK(t)'
    BY <1>4, <2>1, <2>3 DEF StageOK
  <2>5. HolderOK(t)'
    BY <2>1, <2>2 DEF StringInv, HolderOK
  <2>6. StringsTypeOK'
    BY <1>1, <1>7, <2>1 DEF StringInv, StringsTypeOK, Moves
  <2>7. StepOf(t)
    BY <1>1, <1>5, <2>1, <2>2, OwnMutex DEF StepOf, Moves
  <2> QED
    BY <1>6, <2>4, <2>5, <2>6, <2>7, StepPreserves
<1>9. CASE lock' = Released(t) /\ NextKey(t, "write")
  <2>1. Moves(t) /\ StageOK(t)' /\ HolderOK(t)' /\ ~Inside(t)'
    BY <1>1, <1>4, <1>9, NextKeyFacts
  <2>2. lock' = (IF cmd[t].op \in Locked THEN [lock EXCEPT ![Mutex(t)] = NoThread] ELSE lock)
    BY <1>9 DEF Released
  <2>3. lock' \in [Stripes -> Threads \cup {NoThread}]
    BY <1>3, <2>2
  <2>4. Inside(t) <=> cmd[t].op \in Locked
    BY <1>1 DEF Inside
  <2>5. Inside(t) => lock[Mutex(t)] = t
    BY DEF StringInv, HolderOK
  <2>6. \A s \in Stripes : lock'[s] # lock[s] =>
          lock[s] \in {t, NoThread} /\ lock'[s] \in {t, NoThread}
    BY <1>3, <1>4, <2>2, <2>4, <2>5
  <2>7. \A s \in Stripes \ abandoned : lock'[s] # t
    BY <1>3, <1>4, <2>2, <2>4, OwnMutex, StringAssumption
  <2>8. StringsTypeOK'
    BY <1>1, <1>7, <2>1, <2>3 DEF StringInv, StringsTypeOK, Moves
  <2>9. StepOf(t)
    BY <1>1, <1>5, <2>1, <2>6, <2>7 DEF StepOf, Moves
  <2> QED
    BY <1>6, <2>1, <2>8, <2>9, StepPreserves
<1> QED
  BY <1>1, <1>8, <1>9
LEMMA SetExpireStep ==
  ASSUME StringInv, NEW t \in Threads, SetExpire(t)
  PROVE  StringInv'
<1>1. PICK p \in Pads :
        /\ pc[t] = "expire" /\ Over(t)
        /\ expiry' = [expiry EXCEPT ![Key(t)][p] = Deadline(cmd[t].secs)]
        /\ lock' = Released(t)
        /\ UNCHANGED <<store, clock, flush, ops, mods, abandoned>>
  BY DEF SetExpire
<1> DEFINE d == Deadline(cmd[t].secs)
<1>2. Key(t) \in Keys /\ Mutex(t) \in Stripes /\ cmd[t].secs \in Seconds
  BY <1>1, KeyTyping DEF StringInv, StageOK
<1>3. expiry \in [Keys -> [Pads -> Nat \cup {NoRecord}]] /\ clock \in Nat
      /\ lock \in [Stripes -> Threads \cup {NoThread}]
  BY StringAssumption DEF StringInv, StringsTypeOK
<1>4. d \in Nat /\ d <= clock + cmd[t].secs
  <2>1. cmd[t].secs \in Nat
    BY <1>2, StringAssumption
  <2>2. d = clock + cmd[t].secs
    BY DEF Deadline
  <2> QED
    BY <1>3, <2>1, <2>2
<1>5. Moves(t) /\ StageOK(t)' /\ HolderOK(t)' /\ ~Inside(t)'
  BY <1>1, OverFacts
<1> HIDE DEF d
<1>6. /\ expiry' \in [Keys -> [Pads -> Nat \cup {NoRecord}]]
      /\ \A k \in Keys, q \in Pads : expiry'[k][q] = expiry[k][q] \/ expiry'[k][q] = d
  BY <1>1, <1>2, <1>3, <1>4 DEF d
<1>7. lock' = (IF cmd[t].op \in Locked THEN [lock EXCEPT ![Mutex(t)] = NoThread] ELSE lock)
  BY <1>1 DEF Released
<1>8. lock' \in [Stripes -> Threads \cup {NoThread}]
  BY <1>3, <1>7
<1>9. StringsTypeOK'
  <2>1. \A k \in Keys, q \in Pads :
          expiry'[k][q] # NoRecord => \E s \in Seconds : expiry'[k][q] <= clock + s
    <3>1. SUFFICES ASSUME NEW k \in Keys, NEW q \in Pads, expiry'[k][q] # NoRecord
                   PROVE  \E s \in Seconds : expiry'[k][q] <= clock + s
      OBVIOUS
    <3>2. CASE expiry'[k][q] = expiry[k][q]
      BY <3>1, <3>2 DEF StringInv, StringsTypeOK
    <3>3. CASE expiry'[k][q] = d
      BY <1>2, <1>4, <3>3
    <3> QED
      BY <1>6, <3>2, <3>3
  <2> QED
    BY <1>1, <1>5, <1>6, <1>8, <2>1 DEF StringInv, StringsTypeOK, Moves
<1>10. NoLostUpdate'
  BY <1>1 DEF StringInv, NoLostUpdate
<1>11. StepOf(t)
  <2>1. Inside(t) <=> cmd[t].op \in Locked
    BY <1>1 DEF Inside
  <2>2. Inside(t) => lock[Mutex(t)] = t
    BY DEF StringInv, HolderOK
  <2>3. \A s \in Stripes : lock'[s] # lock[s] =>
          lock[s] \in {t, NoThread} /\ lock'[s] \in {t, NoThread}
    BY <1>2, <1>3, <1>7, <2>1, <2>2
  <2>4. \A s \in Stripes \ abandoned : lock'[s] # t
    BY <1>2, <1>3, <1>7, <2>1, OwnMutex, StringAssumption
  <2> QED
    BY <1>1, <1>5, <2>3, <2>4 DEF StepOf, Moves
<1> QED
  BY <1>5, <1>9, <1>10, <1>11, StepPreserves

-----------------------------------------------------------------------------
(* FLUSHDB and the clock *)

\* Steps that leave commands and mutexes alone.
LEMMA StaysPut ==
  ASSUME StringInv, StringsTypeOK', NoLostUpdate',
         UNCHANGED <<lock, pc, cmd, got, abandoned>>,
         \A k \in Keys : mods'[k] # mods[k] => mods'[k] = {}
  PROVE  StringInv'
<1>1. ASSUME NEW u \in Threads PROVE StageOK(u)' /\ HolderOK(u)'
  <2>1. StageOK(u)' /\ Inside(u)' = Inside(u) /\ Mutex(u)' = Mutex(u)
        /\ Key(u)' = Key(u) /\ Kept(u)' = Kept(u)
    BY DEF StringInv, StageOK, Inside, Mutex, Key, Kept
  <2>2. Inside(u) => Key(u) \in Keys
    BY InsideTyping
  <2>3. HolderOK(u)
    BY DEF StringInv
  <2>4. Inside(u) => mods'[Key(u)] = mods[Key(u)] \/ mods'[Key(u)] = {}
    BY <2>2
  <2> QED
    BY <2>1, <2>3, <2>4 DEF HolderOK
<1>2. MutexesReleased'
  BY DEF StringInv, MutexesReleased, Inside, Mutex, Key
<1> QED
  BY <1>1, <1>2 DEF StringInv

LEMMA AheadTyping ==
  ASSUME StringInv, NEW d \in 0..LastDb
  PROVE  Ahead(d) \in [db : 0..LastDb, ahead : SUBSET Item]
<1>1. Pads \subseteq Nat
  BY StringAssumption
<1>2. ASSUME NEW i \in Snapshot(d) PROVE i \in Item
  <2>1. CASE \E k \in Keys : i = [record |-> FALSE, key |-> k, pad |-> 0]
    BY <2>1 DEF Item
  <2>2. CASE \E k \in Keys, p \in Pads : i = [record |-> TRUE, key |-> k, pad |-> p]
    BY <1>1, <2>2 DEF Item
  <2> QED
    BY <1>2, <2>1, <2>2 DEF Snapshot
<1> QED
  BY <1>2 DEF Ahead

LEMMA FlushStartStep ==
  ASSUME StringInv, NEW t \in Threads, FlushStart(t)
  PROVE  StringInv'
<1>1. /\ pc[t] = "idle" /\ ops < MaxOps /\ ops' = ops + 1
      /\ pc' = [pc EXCEPT ![t] = "flush"]
      /\ flush' = [flush EXCEPT ![t] = Ahead(0)]
      /\ UNCHANGED <<store, expiry, clock, lock, cmd, got, mods, abandoned>>
  BY DEF FlushStart, data
<1>2. 0 \in 0..LastDb
  BY StringAssumption
<1>3. Ahead(0) \in [db : 0..LastDb, ahead : SUBSET Item]
  BY <1>2, AheadTyping
<1>4. StringsTypeOK'
  BY <1>1, <1>3, StringAssumption DEF StringInv, StringsTypeOK, Stage
<1>5. NoLostUpdate'
  BY <1>1 DEF StringInv, NoLostUpdate
<1>6. pc'[t] = "flush" /\ ~Inside(t) /\ ~Inside(t)'
  BY <1>1 DEF StringInv, StringsTypeOK, Inside
<1>7. StageOK(t)' /\ HolderOK(t)'
  BY <1>6 DEF StageOK, HolderOK
<1>8. StepOf(t)
  BY <1>1, <1>6, OwnMutex DEF StepOf, StringInv, StringsTypeOK
<1> QED
  BY <1>4, <1>5, <1>7, <1>8, StepPreserves

LEMMA FlushTyping ==
  ASSUME StringInv, NEW t \in Threads, NEW i,
         flush' = [flush EXCEPT ![t].ahead = @ \ {i}]
  PROVE  /\ flush' \in [Threads -> [db : 0..LastDb, ahead : SUBSET Item]]
         /\ i \in flush[t].ahead => i \in Item
<1>1. flush \in [Threads -> [db : 0..LastDb, ahead : SUBSET Item]]
  BY DEF StringInv, StringsTypeOK
<1>2. flush[t].ahead \subseteq Item
  BY <1>1
<1> QED
  BY <1>1, <1>2

LEMMA FlushKeyStep ==
  ASSUME StringInv, NEW t \in Threads, FlushKey(t)
  PROVE  StringInv'
<1>1. PICK i \in flush[t].ahead :
        /\ store' = [store EXCEPT ![i.key] = NoValue]
        /\ mods' = [mods EXCEPT ![i.key] = {}]
        /\ flush' = [flush EXCEPT ![t].ahead = @ \ {i}]
        /\ UNCHANGED <<expiry, clock, lock, pc, cmd, got, ops, abandoned>>
  BY DEF FlushKey
<1>2. i \in Item /\ flush' \in [Threads -> [db : 0..LastDb, ahead : SUBSET Item]]
  BY <1>1, FlushTyping
<1>3. i.key \in Keys
  BY <1>2 DEF Item
<1>4. /\ store' \in [Keys -> Value \cup {NoValue}] /\ mods' \in [Keys -> SUBSET Nat]
      /\ NoLostUpdate'
      /\ \A x \in Keys : mods'[x] # mods[x] => mods'[x] = {}
  BY <1>1, <1>3, Removed
<1>5. StringsTypeOK'
  BY <1>1, <1>2, <1>4 DEF StringInv, StringsTypeOK
<1> QED
  BY <1>1, <1>4, <1>5, StaysPut

\* Removing an expiry record, as FLUSHDB and the expiry thread do.
LEMMA RecordGone ==
  ASSUME StringInv, NEW k0, NEW p0, expiry' = [expiry EXCEPT ![k0][p0] = NoRecord],
         clock' = clock
  PROVE  /\ expiry' \in [Keys -> [Pads -> Nat \cup {NoRecord}]]
         /\ \A k \in Keys, q \in Pads : expiry'[k][q] = expiry[k][q] \/ expiry'[k][q] = NoRecord
         /\ \A k \in Keys : k # k0 => expiry'[k] = expiry[k]
         /\ \A k \in Keys, q \in Pads :
              expiry'[k][q] # NoRecord => \E s \in Seconds : expiry'[k][q] <= clock' + s
<1>1. expiry \in [Keys -> [Pads -> Nat \cup {NoRecord}]]
  BY DEF StringInv, StringsTypeOK
<1>2. /\ expiry' \in [Keys -> [Pads -> Nat \cup {NoRecord}]]
      /\ \A k \in Keys, q \in Pads : expiry'[k][q] = expiry[k][q] \/ expiry'[k][q] = NoRecord
      /\ \A k \in Keys : k # k0 => expiry'[k] = expiry[k]
  BY <1>1
<1>3. \A k \in Keys, q \in Pads :
        expiry'[k][q] # NoRecord => \E s \in Seconds : expiry'[k][q] <= clock' + s
  BY <1>2 DEF StringInv, StringsTypeOK
<1> QED
  BY <1>2, <1>3

LEMMA FlushExpiryStep ==
  ASSUME StringInv, NEW t \in Threads, FlushExpiry(t)
  PROVE  StringInv'
<1>1. PICK i \in flush[t].ahead :
        /\ expiry' = [expiry EXCEPT ![i.key][i.pad] = NoRecord]
        /\ flush' = [flush EXCEPT ![t].ahead = @ \ {i}]
        /\ UNCHANGED <<store, clock, lock, pc, cmd, got, ops, mods, abandoned>>
  BY DEF FlushExpiry
<1>2. flush' \in [Threads -> [db : 0..LastDb, ahead : SUBSET Item]]
  BY <1>1, FlushTyping
<1>5. StringsTypeOK'
  BY <1>1, <1>2, RecordGone DEF StringInv, StringsTypeOK
<1>6. NoLostUpdate'
  BY <1>1 DEF StringInv, NoLostUpdate
<1> QED
  BY <1>1, <1>5, <1>6, StaysPut

LEMMA FlushDoneStep ==
  ASSUME StringInv, NEW t \in Threads, FlushDone(t)
  PROVE  StringInv'
<1>1. /\ pc[t] = "flush"
      /\ UNCHANGED <<store, expiry, clock, lock, cmd, got, ops, mods, abandoned>>
      /\ \/ flush[t].db < LastDb /\ flush' = [flush EXCEPT ![t] = Ahead(flush[t].db + 1)] /\ pc' = pc
         \/ flush' = [flush EXCEPT ![t] = NoFlush] /\ pc' = [pc EXCEPT ![t] = "idle"]
  BY DEF FlushDone, data
<1>2. flush \in [Threads -> [db : 0..LastDb, ahead : SUBSET Item]] /\ pc \in [Threads -> Stage]
  BY DEF StringInv, StringsTypeOK
<1>3. flush' \in [Threads -> [db : 0..LastDb, ahead : SUBSET Item]]
  <2>1. CASE flush[t].db < LastDb /\ flush' = [flush EXCEPT ![t] = Ahead(flush[t].db + 1)]
    <3>1. flush[t].db + 1 \in 0..LastDb
      BY <1>2, <2>1, StringAssumption
    <3>2. Ahead(flush[t].db + 1) \in [db : 0..LastDb, ahead : SUBSET Item]
      BY <3>1, AheadTyping
    <3> QED
      BY <1>2, <2>1, <3>2
  <2>2. CASE flush' = [flush EXCEPT ![t] = NoFlush]
    BY <1>2, <2>2, StringAssumption DEF NoFlush
  <2> QED
    BY <1>1, <2>1, <2>2
<1>4. pc' \in [Threads -> Stage] /\ pc'[t] \in {"flush", "idle"}
      /\ \A u \in Threads \ {t} : pc'[u] = pc[u]
  BY <1>1, <1>2 DEF Stage
<1>5. StringsTypeOK' /\ NoLostUpdate'
  BY <1>1, <1>3, <1>4 DEF StringInv, StringsTypeOK, NoLostUpdate
<1>6. ~Inside(t) /\ ~Inside(t)' /\ StageOK(t)' /\ HolderOK(t)'
  BY <1>1, <1>4 DEF Inside, StageOK, HolderOK
<1>7. StepOf(t)
  BY <1>1, <1>4, <1>6, OwnMutex DEF StepOf
<1> QED
  BY <1>5, <1>6, <1>7, StepPreserves

LEMMA TickStep ==
  ASSUME StringInv, Tick
  PROVE  StringInv'
<1>1. /\ clock < MaxClock /\ clock' = clock + 1
      /\ UNCHANGED <<store, expiry, lock, pc, cmd, got, flush, ops, mods, abandoned>>
  BY DEF Tick, data, threads
<1>2. clock \in 0..MaxClock /\ MaxClock \in Nat /\ Seconds \subseteq Nat
      /\ expiry \in [Keys -> [Pads -> Nat \cup {NoRecord}]]
  BY StringAssumption DEF StringInv, StringsTypeOK
<1>3. clock' \in 0..MaxClock
  BY <1>1, <1>2
<1>4. \A k \in Keys, q \in Pads :
        expiry'[k][q] # NoRecord => \E s \in Seconds : expiry'[k][q] <= clock' + s
  <2>1. SUFFICES ASSUME NEW k \in Keys, NEW q \in Pads, expiry[k][q] # NoRecord
                 PROVE  \E s \in Seconds : expiry[k][q] <= clock' + s
    BY <1>1
  <2>2. PICK s \in Seconds : expiry[k][q] <= clock + s
    BY <2>1 DEF StringInv, StringsTypeOK
  <2>3. expiry[k][q] \in Nat /\ s \in Nat
    BY <1>2, <2>1
  <2>4. expiry[k][q] <= clock' + s
    BY <1>1, <1>2, <2>2, <2>3
  <2> QED
    BY <2>4
<1>5. StringsTypeOK'
  BY <1>1, <1>3, <1>4 DEF StringInv, StringsTypeOK
<1>6. NoLostUpdate'
  BY <1>1 DEF StringInv, NoLostUpdate
<1> QED
  BY <1>1, <1>5, <1>6, StaysPut

-----------------------------------------------------------------------------
(* Theorems *)

LEMMA WorkStep ==
  ASSUME StringInv, NEW t \in Threads, Work(t)
  PROVE  StringInv'
  BY RefusedStep, EnterStep, MergeIntoMissingStep, MergeMissingStep, MergeStep,
     LookNXStep, LookDelStep, RemoveDelStep, WriteStep, SetExpireStep,
     FlushKeyStep, FlushExpiryStep, FlushDoneStep DEF Work

LEMMA StringInductive ==
  ASSUME StringInv, StringsNext
  PROVE  StringInv'
<1>1. CASE Tick
  BY <1>1, TickStep
<1>2. ASSUME NEW t \in Threads, Command(t)
      PROVE  StringInv'
  <2>1. CASE FlushStart(t)
    BY <2>1, FlushStartStep
  <2>2. CASE ~FlushStart(t)
    BY <1>2, <2>2, CommandStep, BeginStep
  <2> QED
    BY <2>1, <2>2
<1>3. ASSUME NEW t \in Threads, Work(t)
      PROVE  StringInv'
  BY <1>3, WorkStep
<1> QED
  BY <1>1, <1>2, <1>3 DEF StringsNext

LEMMA StringInitial ==
  ASSUME StringsInit
  PROVE  StringInv
<1>1. StringsTypeOK
  BY StringAssumption DEF StringsInit, StringsTypeOK, Stage, NoFlush
<1>2. \A t \in Threads : StageOK(t) /\ HolderOK(t) /\ ~Inside(t)
  BY DEF StringsInit, StageOK, HolderOK, Inside
<1>3. MutexesReleased
  BY <1>2 DEF StringsInit, MutexesReleased
<1>4. NoLostUpdate
  BY DEF StringsInit, NoLostUpdate
<1> QED
  BY <1>1, <1>2, <1>3, <1>4 DEF StringInv

LEMMA StringStutter ==
  ASSUME StringInv, UNCHANGED svars
  PROVE  StringInv'
<1>1. UNCHANGED <<store, expiry, clock, lock, pc, cmd, got, flush, ops, mods, abandoned>>
  BY DEF svars, data, threads
<1> QED
  BY <1>1
  DEF StringInv, StringsTypeOK, StageOK, HolderOK, Inside, Mutex, Key, Kept,
      MutexesReleased, NoLostUpdate

\* The inductive invariant of the string commands: every thread is at a stage of
\* its command, and the one that works under a mutex holds it and writes back
\* what the key has to show.
THEOREM StringInvariant == StringsSpec => []StringInv
<1>1. StringsInit => StringInv
  BY StringInitial
<1>2. StringInv /\ [StringsNext]_svars => StringInv'
  BY StringInductive, StringStutter
<1> QED
  BY <1>1, <1>2, PTL DEF StringsSpec

\* Every value, expiry record, command and mutex of cmdhandler.cpp and
\* ttlmanager.cpp (setExpire) keeps its form, and no expiry record lies further
\* ahead than the largest time a client has sent.
THEOREM StringTyping == StringsSpec => []StringsTypeOK
<1>1. StringInv => StringsTypeOK
  BY DEF StringInv
<1> QED
  BY <1>1, StringInvariant, PTL

\* Whatever APPEND, SETRANGE, PFADD, INCR, PFMERGE and SETNX have done to a key
\* since it was last replaced or removed shows in its value, for any number of
\* threads and any hashing of keys to the mutexes.
THEOREM StringUpdates == StringsSpec => []NoLostUpdate
<1>1. StringInv => NoLostUpdate
  BY DEF StringInv
<1> QED
  BY <1>1, StringInvariant, PTL

\* A StringMutex is locked exactly while a command works under it, whichever way
\* its handler returns, but for the two returns of PFMERGE that leave it locked.
THEOREM StringMutexes == StringsSpec => []MutexesReleased
<1>1. StringInv => MutexesReleased
  BY DEF StringInv
<1> QED
  BY <1>1, StringInvariant, PTL

-----------------------------------------------------------------------------
(* The bytes of values *)

\* A family of subsets has a minimal one, a set of numbers a least one.
LEMMA MinimalSubset ==
  ASSUME NEW S, IsFiniteSet(S), NEW Bad, Bad \subseteq SUBSET S, Bad # {}
  PROVE  \E T \in Bad : \A U \in Bad : U \subseteq T => U = T
<1>1. IsWellFoundedOn(StrictSubsetOrdering(S), SUBSET S)
  BY FS_StrictSubsetOrderingWellFounded, FS_FiniteSubsetsOfFinite
<1>2. \E T \in Bad : \A U \in Bad : ~(<<U, T>> \in StrictSubsetOrdering(S))
  BY <1>1, WFMin
<1> QED
  BY <1>2 DEF StrictSubsetOrdering

LEMMA LeastNat ==
  ASSUME NEW Bad, Bad \subseteq Nat, Bad # {}
  PROVE  \E n \in Bad : \A m \in Bad : n <= m
<1>1. PICK b \in Bad : TRUE
  OBVIOUS
<1> DEFINE Below == {0..n : n \in {m \in Bad : m <= b}}
<1>2. IsFiniteSet(0..b)
  BY <1>1, FS_Interval
<1>3. Below \subseteq SUBSET (0..b) /\ Below # {}
  BY <1>1
<1>4. PICK T \in Below : \A U \in Below : U \subseteq T => U = T
  <2> DEFINE S == 0..b
  <2>1. IsFiniteSet(S) /\ Below \subseteq SUBSET S /\ Below # {}
    BY <1>2, <1>3
  <2> HIDE DEF Below, S
  <2> QED
    BY <2>1, MinimalSubset
<1>5. PICK n \in Bad : n <= b /\ T = 0..n
  BY <1>4
<1>6. ASSUME NEW m \in Bad, m < n
      PROVE  FALSE
  <2>1. 0..m \in Below /\ 0..m \subseteq T
    BY <1>1, <1>5, <1>6
  <2>2. 0..m = 0..n
    BY <1>4, <1>5, <2>1
  <2>3. n \in 0..n /\ n \notin 0..m
    BY <1>6
  <2> QED
    BY <2>2, <2>3
<1> QED
  BY <1>5, <1>6

LEMMA TextTyping ==
  /\ Texts \subseteq Seq(Bytes)
  /\ Clean \subseteq Seq(Letters)
  /\ Clean \subseteq Texts
  /\ \A s \in Texts : Len(s) <= MaxBytes
  /\ \A s \in Texts : s \in Seq(Letters) => s \in Clean
<1>1. /\ \A s : s \in Texts <=> \E n \in 0..MaxBytes : s \in [1..n -> Bytes]
      /\ \A s : s \in Clean <=> \E n \in 0..MaxBytes : s \in [1..n -> Letters]
  BY DEF Texts, Clean, BoundedSeq, SeqOf
<1>2. Letters \subseteq Bytes /\ MaxBytes \in Nat
  BY ByteAssumption DEF Bytes
<1>3. \A s \in Texts : s \in Seq(Bytes) /\ Len(s) <= MaxBytes
  BY <1>1, <1>2
<1>4. \A s \in Clean : s \in Seq(Letters) /\ s \in Texts
  BY <1>1, <1>2
<1>5. ASSUME NEW s \in Texts, s \in Seq(Letters)
      PROVE  s \in Clean
  <2>1. Len(s) \in 0..MaxBytes /\ s \in [1..Len(s) -> Letters]
    BY <1>2, <1>3, <1>5
  <2> QED
    BY <1>1, <2>1
<1> QED
  BY <1>3, <1>4, <1>5

\* A text without a NUL passes as a C string.
LEMMA CleanCString ==
  ASSUME NEW s \in Seq(Letters)
  PROVE  CString(s) = s
<1>1. \A i \in DOMAIN s : s[i] # Nul
  BY ByteAssumption
<1> QED
  BY <1>1 DEF CString

\* A text with one is cut.
LEMMA CutCString ==
  ASSUME NEW s \in Seq(Bytes), s \notin Seq(Letters)
  PROVE  CString(s) \in Seq(Bytes) /\ Len(CString(s)) < Len(s)
<1> DEFINE Ends == {i \in DOMAIN s : s[i] = Nul}
<1>1. Ends # {} /\ Ends \subseteq Nat
  <2>1. SUFFICES ASSUME Ends = {} PROVE FALSE
    OBVIOUS
  <2>2. \A i \in 1..Len(s) : s[i] \in Letters
    BY <2>1 DEF Bytes
  <2>3. s \in [1..Len(s) -> Letters] /\ Len(s) \in Nat
    BY <2>2
  <2> QED
    BY <2>3
<1>2. PICK n \in Ends : \A m \in Ends : n <= m
  <2> HIDE DEF Ends
  <2> QED
    BY <1>1, LeastNat
<1> DEFINE Cuts(i) == s[i] = Nul /\ \A j \in 1..i - 1 : s[j] # Nul
           c == CHOOSE i \in DOMAIN s : Cuts(i)
<1>3. n \in DOMAIN s /\ Cuts(n)
  BY <1>2
<1>4. c \in DOMAIN s /\ c \in 1..Len(s)
  <2>1. \E i \in DOMAIN s : Cuts(i)
    BY <1>3
  <2>2. c \in DOMAIN s
    <3> HIDE DEF Cuts
    <3> QED
      BY <2>1
  <2> QED
    BY <2>2
<1>5. CString(s) = SubSeq(s, 1, c - 1)
  BY <1>3 DEF CString
<1> HIDE DEF c
<1>6. c - 1 \in 0..Len(s) - 1
  BY <1>4
<1>7. SubSeq(s, 1, c - 1) \in Seq(Bytes) /\ Len(SubSeq(s, 1, c - 1)) = c - 1
  BY <1>6
<1> QED
  BY <1>5, <1>6, <1>7

\* MGET sends what GET sends of the texts without a NUL, and of no others.
LEMMA PrintedWhole ==
  ASSUME NEW s \in Texts
  PROVE  (Printed(s) = Whole(s)) <=> s \in Clean
<1>1. s \in Seq(Bytes) /\ (s \in Seq(Letters) <=> s \in Clean)
  BY TextTyping
<1>2. (Printed(s) = Whole(s)) <=> CString(s) = s
  BY DEF Printed, Whole
<1> QED
  BY <1>1, <1>2, CleanCString, CutCString

LEMMA MGetLikeGet ==
  ASSUME NEW v \in Texts \cup {Missing}, NEW w \in Texts \cup {Missing}
  PROVE  LET r == MGet(<<v, w>>)
         IN /\ (r[1] = Get(v)) <=> (v = Missing \/ v \in Clean)
            /\ (r[2] = Get(w)) <=> (w = Missing \/ w \in Clean)
            /\ (Exists(v) = 1) <=> (r[1] # NoBulk)
<1>1. MGet(<<v, w>>)[1] = (IF v = Missing THEN NoBulk ELSE Printed(v))
      /\ MGet(<<v, w>>)[2] = (IF w = Missing THEN NoBulk ELSE Printed(w))
  BY DEF MGet
<1>2. \A s \in Texts : s # Missing /\ Printed(s) # NoBulk
  <2>1. \A s \in Texts : Len(s) \in Nat /\ s # Missing
    BY TextTyping, ByteAssumption DEF Bytes
  <2>2. \A s \in Texts : Printed(s).announced # NoBulk.announced
    BY <2>1 DEF Printed, NoBulk
  <2> QED
    BY <2>1, <2>2
<1> QED
  BY <1>1, <1>2, PrintedWhole DEF Get, Exists

\* SETRANGE writes the bytes of its range and no others.
LEMMA SetRangeWrites ==
  ASSUME NEW v \in Seq(Bytes), NEW s \in Seq(Letters), NEW offset \in Nat
  PROVE  SetRange(v, offset, s) = Written(v, offset, s)
<1>1. v # Missing /\ s \in Seq(Bytes) /\ Nul \in Bytes
  <2>1. Letters \subseteq Bytes
    BY DEF Bytes
  <2> QED
    BY <2>1, ByteAssumption DEF Bytes
<1> DEFINE n == Len(v)
           m == Len(s)
           W == Written(v, offset, s)
           l == IF n > offset + m THEN n ELSE offset + m
<1>2. n \in Nat /\ m \in Nat /\ l \in Nat
  OBVIOUS
<1>3. /\ DOMAIN W = 1..l
      /\ \A i \in 1..l : W[i] = IF i \in offset + 1..offset + m THEN s[i - offset]
                                ELSE IF i <= n THEN v[i] ELSE Nul
  BY DEF Written
<1>4. W \in [1..l -> Bytes]
  <2>1. W = [i \in 1..l |-> W[i]]
    BY DEF Written
  <2>2. \A i \in 1..l : i \in offset + 1..offset + m => i - offset \in 1..m
    BY <1>2
  <2>3. \A i \in 1..l : W[i] \in Bytes
    BY <1>1, <1>2, <1>3, <2>2
  <2> QED
    BY <2>1, <2>3
<1>5. W \in Seq(Bytes) /\ Len(W) = l
  BY <1>2, <1>4
<1>6. CASE offset >= n
  <2> DEFINE z == offset - n
             a == v \o Nuls(z)
             r == a \o s
  <2>1. z \in Nat /\ l = offset + m
    BY <1>2, <1>6
  <2>2. Nuls(z) \in Seq(Bytes) /\ Len(Nuls(z)) = z /\ \A i \in 1..z : Nuls(z)[i] = Nul
    BY <1>1, <2>1 DEF Nuls
  <2>3. SetRange(v, offset, s) = r
    BY <1>1, <1>2, <1>6 DEF SetRange
  <2>4. /\ a \in Seq(Bytes) /\ Len(a) = offset
        /\ \A i \in 1..offset : a[i] = IF i <= n THEN v[i] ELSE Nul
    <3>1. a \in Seq(Bytes) /\ Len(a) = n + z /\ n + z = offset
      BY <2>1, <2>2
    <3>2. \A i \in 1..n + z : a[i] = IF i <= n THEN v[i] ELSE Nuls(z)[i - n]
      BY <2>2
    <3>3. \A i \in 1..n + z : ~(i <= n) => i - n \in 1..z
      BY <1>2, <2>1
    <3> QED
      BY <2>2, <3>1, <3>2, <3>3
  <2> HIDE DEF a, z, W
  <2>5. /\ r \in Seq(Bytes) /\ Len(r) = offset + m
        /\ \A i \in 1..offset + m : r[i] = IF i <= offset THEN a[i] ELSE s[i - offset]
    BY <1>1, <2>4
  <2>6. \A i \in 1..l : r[i] = W[i]
    BY <1>2, <1>3, <1>6, <2>1, <2>4, <2>5
  <2> HIDE DEF r
  <2> QED
    BY <1>5, <2>1, <2>3, <2>5, <2>6, SeqEqual DEF W
<1>7. CASE offset < n
  <2> DEFINE b == SubSeq(v, 1, offset)
             e == SubSeq(v, offset + m + 1, n)
             a == b \o s
             r == a \o e
             k == IF offset + m < n THEN n - offset - m ELSE 0
  <2>1. SetRange(v, offset, s) = r
    <3>1. v # Missing /\ ~(offset >= n) /\ CString(s) = s
      BY <1>1, <1>2, <1>7, CleanCString
    <3> QED
      BY <1>7, <3>1 DEF SetRange
  <2>2. b \in Seq(Bytes) /\ Len(b) = offset /\ \A i \in 1..offset : b[i] = v[i]
    BY <1>2, <1>7
  <2>3. e \in Seq(Bytes) /\ Len(e) = k /\ \A i \in 1..k : e[i] = v[i + offset + m]
    <3> DEFINE f == offset + m + 1
    <3>1. f \in Int /\ n \in Int /\ f > 0 /\ k = (IF f <= n THEN n - f + 1 ELSE 0)
      BY <1>2
    <3>2. \A i \in f..n : v[i] \in Bytes
      BY <1>2
    <3> HIDE DEF f, k
    <3>3. /\ SubSeq(v, f, n) \in Seq(Bytes) /\ Len(SubSeq(v, f, n)) = k
          /\ \A i \in 1..n - f + 1 : SubSeq(v, f, n)[i] = v[f + i - 1]
      BY <3>1, <3>2, SubSeqProperties
    <3>4. \A i \in 1..k : i \in 1..n - f + 1 /\ f + i - 1 = i + offset + m
      BY <1>2, <3>1 DEF f
    <3> QED
      BY <3>3, <3>4 DEF f
  <2>4. k \in Nat /\ l = offset + m + k
    <3>1. CASE offset + m < n
      BY <1>2, <3>1
    <3>2. CASE ~(offset + m < n)
      BY <1>2, <3>2
    <3> QED
      BY <3>1, <3>2
  <2> HIDE DEF b, e, k, W
  <2>5. /\ a \in Seq(Bytes) /\ Len(a) = offset + m
        /\ \A i \in 1..offset + m : a[i] = IF i <= offset THEN b[i] ELSE s[i - offset]
    BY <1>1, <2>2, ConcatProperties
  <2> HIDE DEF a
  <2>6. /\ r \in Seq(Bytes) /\ Len(r) = offset + m + k
        /\ \A i \in 1..offset + m + k : r[i] = IF i <= offset + m THEN a[i] ELSE e[i - (offset + m)]
    <3>1. /\ a \o e \in Seq(Bytes) /\ Len(a \o e) = Len(a) + Len(e)
          /\ \A i \in 1..Len(a) + Len(e) :
               (a \o e)[i] = IF i <= Len(a) THEN a[i] ELSE e[i - Len(a)]
      <4>1. a \in Seq(Bytes) /\ e \in Seq(Bytes)
        BY <2>3, <2>5
      <4> QED
        BY <4>1, ConcatProperties
    <3>2. Len(a) = offset + m /\ Len(e) = k
      BY <2>3, <2>5
    <3> QED
      BY <3>1, <3>2
  <2> HIDE DEF r
  <2>7. ASSUME NEW i \in 1..l
        PROVE  r[i] = W[i]
    <3>1. CASE i <= offset
      BY <1>2, <1>3, <1>7, <2>2, <2>4, <2>5, <2>6, <3>1
    <3>2. CASE offset < i /\ i <= offset + m
      <4>1. i \in offset + 1..offset + m /\ i \in 1..offset + m + k /\ ~(i <= offset)
        BY <1>2, <2>4, <3>2
      <4>2. W[i] = s[i - offset]
        BY <1>3, <4>1
      <4>3. i \in 1..offset + m
        BY <1>2, <4>1
      <4>4. r[i] = a[i] /\ a[i] = s[i - offset]
        BY <2>5, <2>6, <3>2, <4>1, <4>3
      <4> QED
        BY <4>2, <4>4
    <3>3. CASE offset + m < i
      <4>1. i - (offset + m) \in 1..k /\ i - (offset + m) + offset + m = i /\ i <= n
        BY <1>2, <1>7, <2>4, <3>3 DEF k
      <4>2. e[i - (offset + m)] = v[i]
        BY <2>3, <4>1
      <4> QED
        BY <1>2, <1>3, <2>4, <2>6, <3>3, <4>1, <4>2
    <3>4. i \in Nat /\ offset + m \in Nat /\ offset \in Nat
      BY <1>2, <2>4
    <3>5. i <= offset \/ (offset < i /\ i <= offset + m) \/ offset + m < i
      BY <3>4
    <3> QED
      BY <3>1, <3>2, <3>3, <3>5
  <2> QED
    BY <1>5, <2>1, <2>4, <2>6, <2>7, SeqEqual DEF W
<1> QED
  BY <1>2, <1>6, <1>7

\* A key that is not there gets a NUL too many.
LEMMA SetRangeMissing ==
  ASSUME NEW s \in Seq(Letters), NEW offset \in Nat
  PROVE  SetRange(Missing, offset, s) = Written(<<>>, offset + 1, s)
<1> DEFINE m == Len(s)
           z == offset + 1
           W == Written(<<>>, z, s)
           r == Nuls(z) \o s
<1>1. m \in Nat /\ z \in Nat /\ s \in Seq(Bytes) /\ Nul \in Bytes
  <2>1. Letters \subseteq Bytes
    BY DEF Bytes
  <2> QED
    BY <2>1 DEF Bytes
<1>2. Nuls(z) \in Seq(Bytes) /\ Len(Nuls(z)) = z /\ \A i \in 1..z : Nuls(z)[i] = Nul
  BY <1>1 DEF Nuls
<1>3. SetRange(Missing, offset, s) = r
  BY DEF SetRange
<1>4. W = [i \in 1..z + m |-> IF i \in z + 1..z + m THEN s[i - z]
                             ELSE IF i <= 0 THEN <<>>[i] ELSE Nul]
  <2>1. Len(<<>>) = 0 /\ ~(0 > z + m)
    BY <1>1
  <2> QED
    BY <2>1 DEF Written
<1> HIDE DEF z
<1>5. /\ r \in Seq(Bytes) /\ Len(r) = z + m
      /\ \A i \in 1..z + m : r[i] = IF i <= z THEN Nuls(z)[i] ELSE s[i - z]
  BY <1>1, <1>2
<1>6. DOMAIN r = 1..z + m /\ r = [i \in 1..z + m |-> r[i]]
  <2> HIDE DEF r
  <2>1. r \in [1..Len(r) -> Bytes]
    BY <1>5
  <2> QED
    BY <1>5, <2>1
<1>7. \A i \in 1..z + m : r[i] = IF i \in z + 1..z + m THEN s[i - z]
                                 ELSE IF i <= 0 THEN <<>>[i] ELSE Nul
  BY <1>1, <1>2, <1>5
<1> HIDE DEF r, W
<1> QED
  BY <1>3, <1>4, <1>6, <1>7 DEF W, z

-----------------------------------------------------------------------------
(* Ranges *)

\* Places that count from the end or go beyond it.
LEMMA TransformTyping ==
  ASSUME NEW i \in Int, NEW n \in Nat, n > 0
  PROVE  /\ TransformIndex(i, n) \in 0..n - 1
         /\ i >= 0 => TransformIndex(i, n) = IF i > n - 1 THEN n - 1 ELSE i
         /\ i < 0 => TransformIndex(i, n) = IF n + i < 0 THEN 0 ELSE n + i
BY DEF TransformIndex, FromEnd, AtMost

LEMMA RangeOf ==
  ASSUME NEW v \in Seq(Bytes), NEW lo \in Int, NEW hi \in Int,
         0 <= lo, lo < Len(v), 0 <= hi, hi < Len(v),
         NEW i, NEW j,
         TransformIndex(i, Len(v)) = lo, TransformIndex(j, Len(v)) = hi
  PROVE  GetRange(v, i, j) = Whole(IF hi < lo THEN <<>> ELSE SubSeq(v, lo + 1, hi + 1))
<1>1. Read(v) = v
  BY ByteAssumption DEF Read, Bytes
<1>2. ~(lo < 0) /\ ~(hi < 0)
  OBVIOUS
<1> QED
  BY <1>1, <1>2 DEF GetRange

\* The k-th of the places of an interval.
LEMMA NthPlace ==
  ASSUME NEW lo \in Int, NEW hi \in Int, lo <= hi + 1,
         NEW k \in 1..hi - lo + 1
  PROVE  (CHOOSE p \in lo..hi : Cardinality({q \in lo..hi : q <= p}) = k) = lo + k - 1
<1>1. ASSUME NEW p \in lo..hi
      PROVE  Cardinality({q \in lo..hi : q <= p}) = p - lo + 1
  <2>1. {q \in lo..hi : q <= p} = lo..p
    OBVIOUS
  <2>2. p \in Int /\ ~(lo > p)
    OBVIOUS
  <2> QED
    BY <2>1, <2>2, FS_Interval
<1> DEFINE Rank(p) == Cardinality({q \in lo..hi : q <= p})
<1>2. \A p \in lo..hi : Rank(p) = p - lo + 1
  BY <1>1
<1> HIDE DEF Rank
<1>3. lo + k - 1 \in lo..hi /\ Rank(lo + k - 1) = k
  BY <1>2
<1>4. \A p \in lo..hi : Rank(p) = k => p = lo + k - 1
  BY <1>2
<1>5. (CHOOSE p \in lo..hi : Rank(p) = k) = lo + k - 1
  BY <1>3, <1>4
<1> QED
  BY <1>5 DEF Rank

LEMMA RangedInterval ==
  ASSUME NEW v \in Seq(Bytes), NEW i \in Int, NEW j \in Int,
         NEW lo \in Int, NEW hi \in Int,
         Named(v, i, j) = lo..hi, 1 <= lo, hi <= Len(v), lo <= hi
  PROVE  Ranged(v, i, j) = SubSeq(v, lo, hi)
<1> DEFINE Nth(k) == CHOOSE p \in lo..hi : Cardinality({q \in lo..hi : q <= p}) = k
           n == hi - lo + 1
<1>1. Cardinality(lo..hi) = n
  BY FS_Interval
<1>2. \A k \in 1..n : Nth(k) = lo + k - 1
  <2>1. SUFFICES ASSUME NEW k \in 1..n PROVE Nth(k) = lo + k - 1
    BY Zenon
  <2>2. lo <= hi + 1 /\ k \in 1..hi - lo + 1
    OBVIOUS
  <2> QED
    BY <2>2, NthPlace
<1>3. Ranged(v, i, j) = [k \in 1..n |-> v[Nth(k)]]
  BY <1>1 DEF Ranged
<1> HIDE DEF Nth
<1>4. Ranged(v, i, j) = [k \in 1..n |-> v[lo + k - 1]]
  BY <1>2, <1>3
<1>5. \A k \in lo..hi : v[k] \in Bytes
  OBVIOUS
<1>6. /\ SubSeq(v, lo, hi) \in Seq(Bytes) /\ Len(SubSeq(v, lo, hi)) = n
      /\ \A k \in 1..n : SubSeq(v, lo, hi)[k] = v[lo + k - 1]
  BY <1>5, SubSeqProperties
<1> DEFINE r == SubSeq(v, lo, hi)
<1>7. r \in [1..n -> Bytes] /\ \A k \in 1..n : r[k] = v[lo + k - 1]
  <2>1. r \in Seq(Bytes) /\ Len(r) = n /\ \A k \in 1..n : r[k] = v[lo + k - 1]
    BY <1>6
  <2> HIDE DEF n, r
  <2> QED
    BY <2>1
<1> HIDE DEF n, r
<1>8. r = [k \in 1..n |-> r[k]]
  BY <1>7
<1>9. r = [k \in 1..n |-> v[lo + k - 1]]
  BY <1>7, <1>8
<1> QED
  BY <1>4, <1>9 DEF r

LEMMA RangedNone ==
  ASSUME NEW v, NEW i, NEW j, Named(v, i, j) = {}
  PROVE  Ranged(v, i, j) = <<>>
<1>1. Cardinality({}) = 0
  BY FS_EmptySet
<1> QED
  BY <1>1 DEF Ranged

\* GETRANGE reads the places that its range names, unless the range begins behind the
\* end or ends before the beginning.
LEMMA GetRangeReads ==
  ASSUME NEW v \in Seq(Bytes), NEW i \in Int, NEW j \in Int,
         i < Len(v), j >= -Len(v)
  PROVE  GetRange(v, i, j) = Whole(Ranged(v, i, j))
<1> DEFINE n == Len(v)
           Place(k) == 1 + (IF k < 0 THEN n + k ELSE k)
           lo == TransformIndex(i, n)
           hi == TransformIndex(j, n)
<1>1. n \in Nat /\ DOMAIN v = 1..n
  OBVIOUS
<1>2. Named(v, i, j) = {p \in 1..n : Place(i) <= p /\ p <= Place(j)}
  BY <1>1 DEF Named
<1>3. v # Missing /\ Read(v) = v
  BY ByteAssumption DEF Bytes, Read
<1>4. CASE n = 0
  <2>1. Named(v, i, j) = {}
    BY <1>2, <1>4
  <2>2. i < 0 /\ i \in Int /\ n + i < 0
    BY <1>4
  <2>3. lo < 0
    BY <1>4, <2>2 DEF TransformIndex, FromEnd, AtMost
  <2>4. GetRange(v, i, j) = Whole(<<>>)
    BY <1>3, <2>3 DEF GetRange
  <2> QED
    BY <2>1, <2>4, RangedNone
<1>5. CASE n > 0
  <2>1. /\ lo \in 0..n - 1 /\ hi \in 0..n - 1
        /\ i >= 0 => lo = i
        /\ i < 0 => lo = IF n + i < 0 THEN 0 ELSE n + i
        /\ j >= 0 => hi = IF j > n - 1 THEN n - 1 ELSE j
        /\ j < 0 => hi = n + j
    <3>1. /\ lo \in 0..n - 1
          /\ i >= 0 => lo = IF i > n - 1 THEN n - 1 ELSE i
          /\ i < 0 => lo = IF n + i < 0 THEN 0 ELSE n + i
      BY <1>1, <1>5, TransformTyping
    <3>2. /\ hi \in 0..n - 1
          /\ j >= 0 => hi = IF j > n - 1 THEN n - 1 ELSE j
          /\ j < 0 => hi = IF n + j < 0 THEN 0 ELSE n + j
      BY <1>1, <1>5, TransformTyping
    <3>3. i < n /\ ~(n + j < 0)
      BY <1>1
    <3> HIDE DEF lo, hi, n
    <3> QED
      BY <1>1, <3>1, <3>2, <3>3
  <2>2. GetRange(v, i, j) = Whole(IF hi < lo THEN <<>> ELSE SubSeq(v, lo + 1, hi + 1))
    <3>1. lo \in Int /\ hi \in Int /\ 0 <= lo /\ lo < n /\ 0 <= hi /\ hi < n
      BY <1>1, <2>1
    <3> QED
      BY <3>1, RangeOf
  <2> HIDE DEF lo, hi
  <2>3. \A p \in 1..n : (Place(i) <= p /\ p <= Place(j)) <=> (lo + 1 <= p /\ p <= hi + 1)
    <3> HIDE DEF n
    <3> QED
      BY <1>1, <2>1
  <2>4. Named(v, i, j) = lo + 1..hi + 1
    <3> HIDE DEF n, Place
    <3> QED
      BY <1>1, <1>2, <2>1, <2>3
  <2>5. CASE hi < lo
    <3>1. Named(v, i, j) = {}
      BY <2>1, <2>4, <2>5
    <3> QED
      BY <2>2, <2>5, <3>1, RangedNone
  <2>6. CASE ~(hi < lo)
    <3>1. /\ lo + 1 \in Int /\ hi + 1 \in Int /\ 1 <= lo + 1 /\ hi + 1 <= Len(v)
          /\ lo + 1 <= hi + 1
      <4>1. lo \in 0..n - 1 /\ hi \in 0..n - 1
        BY <2>1
      <4> HIDE DEF n
      <4>2. /\ lo + 1 \in Int /\ hi + 1 \in Int /\ 1 <= lo + 1 /\ hi + 1 <= n
            /\ lo + 1 <= hi + 1
        BY <1>1, <2>6, <4>1
      <4> QED
        BY <4>2 DEF n
    <3>2. Ranged(v, i, j) = SubSeq(v, lo + 1, hi + 1)
      BY <2>4, <3>1, RangedInterval
    <3> QED
      BY <2>2, <2>6, <3>2
  <2> QED
    BY <2>5, <2>6
<1> QED
  BY <1>1, <1>4, <1>5

\* What SETRANGE has written is what GETRANGE reads at its place.
LEMMA GetsWhatWasSet ==
  ASSUME NEW v \in Seq(Bytes), NEW s \in Seq(Letters), NEW offset \in Nat, Len(s) > 0
  PROVE  GetRange(SetRange(v, offset, s), offset, offset + Len(s) - 1) = Whole(s)
<1> DEFINE m == Len(s)
           l == IF Len(v) > offset + m THEN Len(v) ELSE offset + m
           W == Written(v, offset, s)
           last == offset + m - 1
<1>1. SetRange(v, offset, s) = W
  BY SetRangeWrites
<1>2. /\ DOMAIN W = 1..l
      /\ \A i \in offset + 1..offset + m : i \in 1..l /\ W[i] = s[i - offset]
  BY DEF Written
<1>3. l \in Nat /\ offset + m <= l /\ m \in Nat /\ m > 0
  OBVIOUS
<1>4. W \in Seq(Bytes) /\ Len(W) = l
  <2>1. Letters \subseteq Bytes /\ Nul \in Bytes
    BY DEF Bytes
  <2>2. W = [i \in 1..l |-> W[i]]
    BY DEF Written
  <2>3. \A i \in 1..l : W[i] \in Bytes
    <3>1. \A i \in 1..l : W[i] = IF i \in offset + 1..offset + m THEN s[i - offset]
                                 ELSE IF i <= Len(v) THEN v[i] ELSE Nul
      BY DEF Written
    <3>2. \A i \in offset + 1..offset + m : i - offset \in 1..m
      BY <1>3
    <3>3. (\A i \in 1..m : s[i] \in Bytes) /\ \A i \in 1..l : i <= Len(v) => v[i] \in Bytes
      BY <2>1
    <3> HIDE DEF W, l, m
    <3> QED
      BY <2>1, <3>1, <3>2, <3>3
  <2> HIDE DEF W, l
  <2>4. W \in [1..l -> Bytes]
    BY <2>2, <2>3
  <2> QED
    BY <1>3, <2>4
<1> HIDE DEF W
<1>5. /\ TransformIndex(offset, l) = offset /\ TransformIndex(last, l) = last
      /\ last \in Int /\ 0 <= last /\ last < l /\ ~(last < offset)
      /\ offset \in Int /\ 0 <= offset /\ offset < l
  <2> HIDE DEF l
  <2>1. offset >= 0 /\ ~(offset > l - 1) /\ last \in Nat /\ last >= 0 /\ ~(last > l - 1)
    BY <1>3
  <2> HIDE DEF last
  <2>2. TransformIndex(offset, l) = offset /\ TransformIndex(last, l) = last
    BY <2>1 DEF TransformIndex, FromEnd, AtMost
  <2> QED
    BY <1>3, <2>1, <2>2 DEF last
<1>6. GetRange(W, offset, last) = Whole(SubSeq(W, offset + 1, last + 1))
  <2> HIDE DEF l, last
  <2>1. GetRange(W, offset, last) = Whole(IF last < offset THEN <<>> ELSE SubSeq(W, offset + 1, last + 1))
    BY <1>4, <1>5, RangeOf
  <2> QED
    BY <1>5, <2>1
<1>7. SubSeq(W, offset + 1, last + 1) = s
  <2> DEFINE f == offset + 1
             g == last + 1
             r == SubSeq(W, f, g)
  <2>1. f \in Int /\ g \in Int /\ g = offset + m /\ g - f + 1 = m /\ f <= g
    BY <1>3
  <2>2. Letters \subseteq Bytes
    BY DEF Bytes
  <2>3. \A i \in f..g : W[i] = s[i - offset] /\ i - offset \in 1..m
    BY <1>2, <1>3
  <2>4. \A i \in f..g : W[i] \in Letters
    BY <2>3
  <2> HIDE DEF f, g
  <2>5. r \in Seq(Letters) /\ Len(r) = m /\ \A i \in 1..m : r[i] = W[f + i - 1]
    BY <2>1, <2>4, SubSeqProperties
  <2>6. \A i \in 1..m : r[i] = s[i]
    <3>1. SUFFICES ASSUME NEW i \in 1..m PROVE r[i] = s[i]
      BY Zenon
    <3> DEFINE p == f + i - 1
    <3>2. r[i] = W[p] /\ p \in f..g /\ p - offset = i
      <4>1. p \in f..g /\ p - offset = i
        BY <1>3, <2>1 DEF f
      <4>2. r[i] = W[p]
        BY <3>1, <2>5
      <4> QED
        BY <4>1, <4>2
    <3> HIDE DEF r, p
    <3>3. W[p] = s[p - offset]
      BY <2>3, <3>2
    <3> QED
      BY <3>2, <3>3
  <2> HIDE DEF r
  <2>7. r = s
    BY <2>5, <2>6, SeqEqual
  <2> QED
    BY <2>7 DEF r, f, g
<1> QED
  BY <1>1, <1>6, <1>7

\* A text that was appended is what is read from there to the end.
LEMMA Appended ==
  ASSUME NEW v \in Seq(Bytes) \cup {Missing}, NEW s \in Seq(Bytes)
  PROVE  /\ GetRange(AppendTo(v, s), StrLen(v), -1) = Whole(s) \/ s = <<>>
         /\ StrLen(AppendTo(v, s)) = StrLen(v) + Len(s)
<1> DEFINE u == Read(v)
           a == u \o s
           n == Len(u)
           m == Len(s)
<1>1. u \in Seq(Bytes) /\ n \in Nat /\ m \in Nat
  BY DEF Read
<1> HIDE DEF u
<1>2. /\ a \in Seq(Bytes) /\ Len(a) = n + m
      /\ \A i \in 1..n + m : a[i] = IF i <= n THEN u[i] ELSE s[i - n]
  BY <1>1, ConcatProperties
<1>3. a # Missing /\ Read(a) = a
  BY <1>2, ByteAssumption DEF Read, Bytes
<1>4. AppendTo(v, s) = a /\ StrLen(v) = n /\ StrLen(AppendTo(v, s)) = n + m
  BY <1>2, <1>3 DEF AppendTo, StrLen, u
<1> HIDE DEF a, n
<1>5. ASSUME m > 0
      PROVE  GetRange(a, n, -1) = Whole(s)
  <2> DEFINE l == n + m
             hi == l - 1
  <2>1. l \in Nat /\ l > 0 /\ n \in Int /\ 0 <= n /\ n < l /\ hi \in Int /\ 0 <= hi /\ hi < l
        /\ ~(hi < n) /\ ~(n > l - 1) /\ ~(l + -1 < 0) /\ l + -1 = hi /\ n >= 0 /\ ~(-1 >= 0)
    BY <1>1, <1>5
  <2>2. TransformIndex(n, l) = n /\ TransformIndex(-1, l) = hi
    <3> HIDE DEF l
    <3> QED
      BY <2>1, TransformTyping
  <2>3. GetRange(a, n, -1) = Whole(IF hi < n THEN <<>> ELSE SubSeq(a, n + 1, hi + 1))
    <3>1. Len(a) = l
      BY <1>2
    <3> HIDE DEF l, hi
    <3> QED
      BY <1>2, <2>1, <2>2, <3>1, RangeOf
  <2> DEFINE f == n + 1
             g == hi + 1
             r == SubSeq(a, f, g)
  <2>4. f \in Int /\ g \in Int /\ g = n + m /\ g - f + 1 = m /\ f <= g
    BY <1>1, <2>1
  <2>5. \A i \in f..g : a[i] = s[i - n] /\ a[i] \in Bytes
    <3>1. \A i \in f..g : i \in 1..n + m /\ ~(i <= n) /\ i - n \in 1..m
      BY <1>1, <2>4
    <3>2. \A i \in 1..m : s[i] \in Bytes
      OBVIOUS
    <3> HIDE DEF f, g, m
    <3> QED
      BY <1>2, <3>1, <3>2
  <2> HIDE DEF f, g
  <2>6. r \in Seq(Bytes) /\ Len(r) = m /\ \A i \in 1..m : r[i] = a[f + i - 1]
    BY <2>4, <2>5, SubSeqProperties
  <2>7. \A i \in 1..m : r[i] = s[i]
    <3>1. SUFFICES ASSUME NEW i \in 1..m PROVE r[i] = s[i]
      BY Zenon
    <3> DEFINE p == f + i - 1
    <3>2. r[i] = a[p] /\ p \in f..g /\ p - n = i
      <4>1. p \in f..g /\ p - n = i
        BY <1>1, <2>4 DEF f
      <4>2. r[i] = a[p]
        BY <3>1, <2>6
      <4> QED
        BY <4>1, <4>2
    <3> HIDE DEF r, p
    <3>3. a[p] = s[p - n]
      BY <2>5, <3>2
    <3> QED
      BY <3>2, <3>3
  <2> HIDE DEF r
  <2>8. r = s
    BY <2>6, <2>7, SeqEqual
  <2> QED
    BY <2>1, <2>3, <2>8 DEF r, f, g
<1>6. ~(m > 0) => s = <<>>
  BY <1>1
<1> QED
  BY <1>4, <1>5, <1>6

\* BytesAgree is a fact about the operators, whatever the state.
LEMMA BytesAgreeAlways == BytesAgree
<1>1. MaxBytes \in Nat
  BY ByteAssumption
<1>2. ASSUME NEW v \in Texts, NEW s \in Clean, NEW offset \in 0..MaxBytes + 1
      PROVE  /\ SetRange(v, offset, s) = Written(v, offset, s)
             /\ Len(s) > 0 => GetRange(SetRange(v, offset, s), offset, offset + Len(s) - 1) = Whole(s)
             /\ SetRange(Missing, offset, s) = Written(<<>>, offset + 1, s)
  <2>1. v \in Seq(Bytes) /\ s \in Seq(Letters) /\ offset \in Nat
    BY <1>1, TextTyping
  <2> QED
    BY <2>1, SetRangeWrites, SetRangeMissing, GetsWhatWasSet
<1>3. ASSUME NEW v \in Texts \cup {Missing}, NEW s \in Texts
      PROVE  /\ GetRange(AppendTo(v, s), StrLen(v), -1) = Whole(s) \/ s = <<>>
             /\ StrLen(AppendTo(v, s)) = StrLen(v) + Len(s)
  <2>1. v \in Seq(Bytes) \cup {Missing} /\ s \in Seq(Bytes)
    BY TextTyping
  <2> QED
    BY <2>1, Appended
<1>4. ASSUME NEW v \in Texts, NEW i \in -MaxBytes - 2..MaxBytes + 2,
             NEW j \in -MaxBytes - 2..MaxBytes + 2, i < Len(v), j >= -Len(v)
      PROVE  GetRange(v, i, j) = Whole(Ranged(v, i, j))
  <2>1. v \in Seq(Bytes) /\ i \in Int /\ j \in Int
    BY <1>1, TextTyping
  <2> QED
    BY <1>4, <2>1, GetRangeReads
<1> QED
  BY <1>2, <1>3, <1>4, MGetLikeGet DEF BytesAgree

\* Texts that are stored and read at offsets are found where they have been put,
\* for any set of bytes and any bound on the length of the texts, but for the cases
\* that BytesAgree names.
THEOREM StringsBytes == StringsSpec => []BytesAgree
<1>1. BytesAgree
  BY BytesAgreeAlways
<1> QED
  BY <1>1, PTL

-----------------------------------------------------------------------------
(* The expiry thread beside the commands *)

\* Every expiry record, and every one the thread has in its snapshot, holds a
\* time that was given for its key.
TimesGiven ==
  /\ \A k \in Keys, p \in Pads : expiry[k][p] # NoRecord => expiry[k][p] \in given[k]
  /\ \A r \in scan.ahead : r.at \in given[r.key]

ExpiryInv == StringInv /\ TypeOK /\ TimesGiven /\ NeverEarly /\ NoLeak

-----------------------------------------------------------------------------
(* The expiry thread *)

LEMMA ScanTyping ==
  ASSUME TypeOK, StringInv
  PROVE  /\ scan \in Scan /\ clock \in Nat /\ scan.now \in Nat /\ scan.now <= clock
         /\ scan.ahead \subseteq Record /\ LastDb \in Nat /\ Batch \in Nat \ {0}
         /\ NoValue \notin Keys
         /\ \A r \in scan.ahead : r.key \in Keys /\ r.pad \in Pads /\ r.at \in Nat
  BY StringAssumption, ExpiryAssumption DEF TypeOK, Scan, Record, StringInv, StringsTypeOK

\* Steps that move the iterator and change no record.
LEMMA ScanStep ==
  ASSUME ExpiryInv, UNCHANGED <<svars, faults, fate, given>>,
         scan' \in Scan, scan.at # "key", scan'.at # "key", scan'.key = scan.key,
         scan'.now <= clock, \A r \in scan'.ahead : r.at \in given[r.key]
  PROVE  ExpiryInv'
<1>1. StringInv'
  BY StringStutter DEF ExpiryInv
<1>2. UNCHANGED <<expiry, clock, faults, fate, given>>
  BY DEF svars, data
<1>3. StringsTypeOK'
  BY <1>1 DEF StringInv
<1>4. TypeOK'
  BY <1>2, <1>3 DEF ExpiryInv, TypeOK
<1>5. TimesGiven'
  BY <1>2 DEF ExpiryInv, TimesGiven
<1>6. NeverEarly'
  BY DEF NeverEarly
<1>7. NoLeak'
  BY <1>2 DEF ExpiryInv, NoLeak, HasRecord
<1> QED
  BY <1>1, <1>4, <1>5, <1>6, <1>7 DEF ExpiryInv

LEMMA RecordsTyping ==
  ASSUME ExpiryInv, NEW d, NEW from
  PROVE  \A r \in Records(d, from) : r \in Record /\ r.at \in given[r.key]
<1>1. SUFFICES ASSUME NEW r \in Records(d, from)
               PROVE  r \in Record /\ r.at \in given[r.key]
  OBVIOUS
<1>2. PICK kp \in Keys \X Pads :
        /\ expiry[kp[1]][kp[2]] # NoRecord
        /\ r = [key |-> kp[1], pad |-> kp[2], at |-> expiry[kp[1]][kp[2]]]
  BY <1>1 DEF Records
<1>3. kp[1] \in Keys /\ kp[2] \in Pads
  BY <1>2
<1>4. expiry[kp[1]][kp[2]] \in Nat /\ expiry[kp[1]][kp[2]] \in given[kp[1]]
  BY <1>2, <1>3 DEF ExpiryInv, StringInv, StringsTypeOK, TimesGiven
<1> QED
  BY <1>2, <1>3, <1>4 DEF Record

LEMMA SeekStep ==
  ASSUME ExpiryInv, Seek
  PROVE  ExpiryInv'
<1>1. PICK p \in Pads :
        /\ scan.at = "seek"
        /\ scan' = [scan EXCEPT !.at = "clock", !.from = p, !.ahead = Records(scan.db, p)]
        /\ UNCHANGED <<svars, faults, fate, given>>
  BY DEF Seek
<1>2. \A r \in Records(scan.db, p) : r \in Record /\ r.at \in given[r.key]
  BY RecordsTyping
<1>3. scan \in Scan /\ scan.now <= clock /\ p \in Nat
  BY StringAssumption DEF ExpiryInv, TypeOK
<1>4. scan' \in Scan /\ scan'.at = "clock" /\ scan'.key = scan.key
      /\ scan'.now = scan.now /\ scan'.ahead = Records(scan.db, p)
  BY <1>1, <1>2, <1>3 DEF Scan, ScanStage
<1> QED
  BY <1>1, <1>2, <1>3, <1>4, ScanStep

LEMMA ReadClockStep ==
  ASSUME ExpiryInv, ReadClock
  PROVE  ExpiryInv'
<1>1. /\ scan.at = "clock"
      /\ scan' = [scan EXCEPT !.at = "visit", !.now = clock, !.loop = 0]
      /\ UNCHANGED <<svars, faults, fate, given>>
  BY DEF ReadClock
<1>2. scan \in Scan /\ clock \in Nat /\ 0 \in 0 .. Batch - 1
  BY ScanTyping DEF ExpiryInv
<1>3. scan' \in Scan /\ scan'.at = "visit" /\ scan'.key = scan.key
      /\ scan'.now = clock /\ scan'.ahead = scan.ahead
  BY <1>1, <1>2 DEF Scan, ScanStage
<1> QED
  BY <1>1, <1>2, <1>3, ScanStep DEF ExpiryInv, TimesGiven

LEMMA CountedTyping ==
  ASSUME ExpiryInv, NEW s \in Scan, s.now <= clock
  PROVE  /\ Counted(s) \in Scan /\ Counted(s).at = "visit" /\ Counted(s).key = s.key
         /\ Counted(s).now <= clock /\ Counted(s).ahead = s.ahead
<1>1. Batch \in Nat \ {0} /\ clock \in Nat
  BY ScanTyping DEF ExpiryInv
<1>2. s.loop \in 0 .. Batch - 1 /\ s.now \in Nat
  BY DEF Scan
<1>3. (IF s.loop + 1 = Batch THEN 0 ELSE s.loop + 1) \in 0 .. Batch - 1
  BY <1>1, <1>2
<1>4. (IF s.loop + 1 = Batch THEN clock ELSE s.now) \in Nat
      /\ (IF s.loop + 1 = Batch THEN clock ELSE s.now) <= clock
  BY <1>1, <1>2
<1> QED
  BY <1>3, <1>4 DEF Counted, Scan, ScanStage

LEMMA SkipStep ==
  ASSUME ExpiryInv, Skip
  PROVE  ExpiryInv'
<1>1. PICK r \in scan.ahead :
        /\ scan.at = "visit"
        /\ scan' = Counted([scan EXCEPT !.ahead = @ \ {r}])
        /\ UNCHANGED <<svars, faults, fate, given>>
  BY DEF Skip
<1> DEFINE s == [scan EXCEPT !.ahead = @ \ {r}]
<1>2. scan \in Scan /\ scan.now <= clock
  BY ScanTyping DEF ExpiryInv
<1>3. s \in Scan /\ s.now <= clock /\ s.key = scan.key /\ s.ahead \subseteq scan.ahead
  BY <1>2 DEF Scan
<1>4. scan' = Counted(s)
  BY <1>1
<1> HIDE DEF s
<1>5. /\ scan' \in Scan /\ scan'.at = "visit" /\ scan'.key = scan.key
      /\ scan'.now <= clock /\ scan'.ahead \subseteq scan.ahead
  BY <1>3, <1>4, CountedTyping
<1> QED
  BY <1>1, <1>5, ScanStep DEF ExpiryInv, TimesGiven

LEMMA NextDbStep ==
  ASSUME ExpiryInv, NextDb
  PROVE  ExpiryInv'
<1>1. /\ scan.at = "visit"
      /\ scan' = [scan EXCEPT !.at = "seek", !.db = IF @ < LastDb THEN @ + 1 ELSE 0]
      /\ UNCHANGED <<svars, faults, fate, given>>
  BY DEF NextDb
<1>2. scan \in Scan /\ scan.now <= clock /\ LastDb \in Nat
  BY ScanTyping DEF ExpiryInv
<1>3. (IF scan.db < LastDb THEN scan.db + 1 ELSE 0) \in 0..LastDb
  BY <1>2 DEF Scan
<1>4. scan' \in Scan /\ scan'.at = "seek" /\ scan'.key = scan.key
      /\ scan'.now = scan.now /\ scan'.ahead = scan.ahead
  BY <1>1, <1>2, <1>3 DEF Scan, ScanStage
<1> QED
  BY <1>1, <1>2, <1>4, ScanStep DEF ExpiryInv, TimesGiven

\* The first removal: that of the record.
LEMMA RecordRemoved ==
  ASSUME ExpiryInv, NEW r \in scan.ahead, scan.at = "visit", Due(r),
         expiry' = [expiry EXCEPT ![r.key][r.pad] = NoRecord],
         scan' = [scan EXCEPT !.at = "key", !.key = r.key, !.ahead = @ \ {r}],
         UNCHANGED <<store, clock, threads, ops, mods, abandoned, faults, fate, given>>
  PROVE  ExpiryInv'
<1>1. UNCHANGED <<store, clock, lock, pc, cmd, got, flush, ops, mods, abandoned, faults, fate, given>>
  BY DEF threads
<1>2. /\ scan \in Scan /\ scan.now <= clock /\ scan.now \in Nat /\ clock \in Nat
      /\ r.key \in Keys /\ r.at \in Nat /\ NoValue \notin Keys
  BY ScanTyping DEF ExpiryInv
<1>3. /\ scan' \in Scan /\ scan'.at = "key" /\ scan'.key = r.key /\ scan'.now = scan.now
      /\ scan'.ahead \subseteq scan.ahead
  BY <1>2 DEF Scan, ScanStage
<1>4. /\ expiry' \in [Keys -> [Pads -> Nat \cup {NoRecord}]]
      /\ \A k \in Keys, q \in Pads : expiry'[k][q] = expiry[k][q] \/ expiry'[k][q] = NoRecord
      /\ \A k \in Keys : k # r.key => expiry'[k] = expiry[k]
      /\ \A k \in Keys, q \in Pads :
           expiry'[k][q] # NoRecord => \E s \in Seconds : expiry'[k][q] <= clock' + s
  BY <1>1, RecordGone DEF ExpiryInv
<1>5. StringsTypeOK'
  BY <1>1, <1>4 DEF ExpiryInv, StringInv, StringsTypeOK
<1>6. NoLostUpdate'
  BY <1>1 DEF ExpiryInv, StringInv, NoLostUpdate
<1>7. StringInv'
  BY <1>1, <1>5, <1>6, StaysPut DEF ExpiryInv
<1>8. TypeOK'
  BY <1>1, <1>2, <1>3, <1>5 DEF ExpiryInv, TypeOK
<1>9. TimesGiven'
  BY <1>1, <1>3, <1>4 DEF ExpiryInv, TimesGiven
<1>10. NeverEarly'
  <2>1. r.at \in given[r.key] /\ scan.now >= r.at
    BY DEF ExpiryInv, TimesGiven, Due
  <2>2. r.at <= clock
    BY <1>2, <2>1
  <2> QED
    BY <1>1, <1>3, <2>1, <2>2 DEF NeverEarly
<1>11. NoLeak'
  <2>1. SUFFICES ASSUME NEW k \in Keys, fate[k] = "due", k # r.key
                 PROVE  HasRecord(k)'
    BY <1>1, <1>3 DEF NoLeak
  <2>2. HasRecord(k)
    BY <2>1 DEF ExpiryInv, NoLeak
  <2> QED
    BY <1>4, <2>1, <2>2 DEF HasRecord
<1> QED
  BY <1>7, <1>8, <1>9, <1>10, <1>11 DEF ExpiryInv

\* The second one: that of the key.
LEMMA KeyRemoved ==
  ASSUME ExpiryInv, scan.at = "key",
         store' = [store EXCEPT ![scan.key] = NoValue],
         mods' = [mods EXCEPT ![scan.key] = {}],
         fate' = [fate EXCEPT ![scan.key] = "none"],
         scan' = Counted([scan EXCEPT !.key = NoValue]),
         UNCHANGED <<expiry, clock, threads, ops, abandoned, faults, given>>
  PROVE  ExpiryInv'
<1>1. UNCHANGED <<expiry, clock, lock, pc, cmd, got, flush, ops, abandoned, faults, given>>
  BY DEF threads
<1> DEFINE s == [scan EXCEPT !.key = NoValue]
<1>2. /\ scan \in Scan /\ scan.now <= clock /\ scan.key \in Keys
      /\ fate \in [Keys -> {"none", "due", "stray"}]
  BY DEF ExpiryInv, TypeOK, Scan
<1>3. s \in Scan /\ s.now <= clock /\ s.key = NoValue /\ s.ahead = scan.ahead
  BY <1>2 DEF Scan
<1>4. scan' = Counted(s)
  OBVIOUS
<1> HIDE DEF s
<1>5. /\ scan' \in Scan /\ scan'.at = "visit" /\ scan'.key = NoValue
      /\ scan'.now <= clock /\ scan'.ahead = scan.ahead
  BY <1>3, <1>4, CountedTyping
<1>6. /\ store' \in [Keys -> Value \cup {NoValue}] /\ mods' \in [Keys -> SUBSET Nat]
      /\ NoLostUpdate'
      /\ \A x \in Keys : mods'[x] # mods[x] => mods'[x] = {}
  BY <1>2, Removed DEF ExpiryInv
<1>7. StringsTypeOK'
  BY <1>1, <1>6 DEF ExpiryInv, StringInv, StringsTypeOK
<1>8. StringInv'
  BY <1>1, <1>6, <1>7, StaysPut DEF ExpiryInv
<1>9. fate' \in [Keys -> {"none", "due", "stray"}]
  BY <1>2
<1>10. TypeOK'
  BY <1>1, <1>5, <1>7, <1>9 DEF ExpiryInv, TypeOK
<1>11. TimesGiven'
  BY <1>1, <1>5 DEF ExpiryInv, TimesGiven
<1>12. NeverEarly'
  BY <1>5 DEF NeverEarly
<1>13. NoLeak'
  <2>1. SUFFICES ASSUME NEW k \in Keys, fate'[k] = "due" PROVE HasRecord(k)'
    BY DEF NoLeak
  <2>2. k # scan.key /\ fate[k] = "due"
    BY <1>2, <2>1
  <2>3. HasRecord(k)
    BY <2>2 DEF ExpiryInv, NoLeak
  <2> QED
    BY <1>1, <2>3 DEF HasRecord
<1> QED
  BY <1>8, <1>10, <1>11, <1>12, <1>13 DEF ExpiryInv

LEMMA TTLStep ==
  ASSUME ExpiryInv, TTLThread
  PROVE  ExpiryInv'
<1>1. CASE RecordThenKey
  BY <1>1, RecordRemoved, KeyRemoved DEF RecordThenKey
<1> QED
  BY <1>1, SeekStep, ReadClockStep, SkipStep, NextDbStep DEF TTLThread

-----------------------------------------------------------------------------
(* Kills and commands *)

LEMMA KilledStep ==
  ASSUME ExpiryInv, Killed
  PROVE  ExpiryInv'
<1>1. /\ faults < MaxFaults /\ faults' = faults + 1
      /\ lock' = [s \in Stripes |-> NoThread]
      /\ pc' = [t \in Threads |-> "idle"] /\ cmd' = [t \in Threads |-> NoCmd]
      /\ got' = [t \in Threads |-> NoValue] /\ flush' = [t \in Threads |-> NoFlush]
      /\ abandoned' = {} /\ scan' = Starting
      /\ fate' = [k \in Keys |->
                    IF scan.at = "key" /\ scan.key = k /\ fate[k] = "due" THEN "stray" ELSE fate[k]]
      /\ UNCHANGED <<store, expiry, clock, ops, mods, given>>
  BY DEF Killed, data
<1>2. /\ LastDb \in Nat /\ Batch \in Nat \ {0} /\ NoValue \notin Keys /\ clock \in Nat
  BY ScanTyping DEF ExpiryInv
<1>3. StringsTypeOK'
  <2>1. NoFlush \in [db : 0..LastDb, ahead : SUBSET Item]
    BY <1>2 DEF NoFlush
  <2> QED
    BY <1>1, <2>1 DEF ExpiryInv, StringInv, StringsTypeOK, Stage
<1>4. StringInv'
  <2>1. \A t \in Threads : StageOK(t)' /\ HolderOK(t)' /\ ~Inside(t)'
    BY <1>1 DEF StageOK, HolderOK, Inside
  <2>2. MutexesReleased'
    BY <1>1, <2>1 DEF MutexesReleased
  <2>3. NoLostUpdate'
    BY <1>1 DEF ExpiryInv, StringInv, NoLostUpdate
  <2> QED
    BY <1>3, <2>1, <2>2, <2>3 DEF StringInv
<1>5. /\ scan' \in Scan /\ scan'.at = "seek" /\ scan'.key = NoValue
      /\ scan'.now = 0 /\ scan'.ahead = {}
  BY <1>1, <1>2 DEF Starting, Scan, ScanStage
<1>6. fate' \in [Keys -> {"none", "due", "stray"}] /\ faults' \in 0..MaxFaults
  BY <1>1, ExpiryAssumption DEF ExpiryInv, TypeOK
<1>7. TypeOK'
  BY <1>1, <1>2, <1>3, <1>5, <1>6 DEF ExpiryInv, TypeOK
<1>8. TimesGiven'
  BY <1>1, <1>5 DEF ExpiryInv, TimesGiven
<1>9. NeverEarly'
  BY <1>5 DEF NeverEarly
<1>10. NoLeak'
  <2>1. SUFFICES ASSUME NEW k \in Keys, fate'[k] = "due" PROVE HasRecord(k)'
    BY DEF NoLeak
  <2>2. fate[k] = "due" /\ ~(scan.at = "key" /\ scan.key = k)
    BY <1>1, <2>1
  <2>3. HasRecord(k)
    BY <2>2 DEF ExpiryInv, NoLeak
  <2> QED
    BY <1>1, <2>3 DEF HasRecord
<1> QED
  BY <1>4, <1>7, <1>8, <1>9, <1>10 DEF ExpiryInv

\* What is enough for a step of a command, or of the clock.
LEMMA CommandsKeep ==
  ASSUME ExpiryInv, StringInv', UNCHANGED <<scan, faults>>, clock <= clock',
         fate' \in [Keys -> {"none", "due", "stray"}],
         given' \in [Keys -> SUBSET Nat],
         \A k \in Keys : given[k] \subseteq given'[k],
         \A k \in Keys, p \in Pads :
           expiry'[k][p] \in {expiry[k][p], NoRecord} \cup given'[k],
         \A k \in Keys : fate'[k] = "due" =>
           \/ fate[k] = "due" /\ expiry'[k] = expiry[k]
           \/ HasRecord(k)'
  PROVE  ExpiryInv'
<1>1. StringsTypeOK' /\ clock' \in Nat /\ clock \in Nat
  BY StringAssumption DEF StringInv, StringsTypeOK, ExpiryInv
<1>2. scan \in Scan /\ scan.now <= clock /\ scan.now \in Nat
      /\ \A r \in scan.ahead : r.key \in Keys
  BY ScanTyping DEF ExpiryInv
<1>3. TypeOK'
  BY <1>1, <1>2 DEF ExpiryInv, TypeOK
<1>4. TimesGiven'
  <2>1. ASSUME NEW k \in Keys, NEW p \in Pads, expiry'[k][p] # NoRecord
        PROVE  expiry'[k][p] \in given'[k]
    BY <2>1 DEF ExpiryInv, TimesGiven
  <2>2. ASSUME NEW r \in scan.ahead PROVE r.at \in given'[r.key]
    BY <1>2 DEF ExpiryInv, TimesGiven
  <2> QED
    BY <2>1, <2>2 DEF TimesGiven
<1>5. NeverEarly'
  <2>1. SUFFICES ASSUME scan.at = "key"
                 PROVE  \E d \in given'[scan.key] : d <= clock'
    BY DEF NeverEarly
  <2>2. scan.key \in Keys /\ given \in [Keys -> SUBSET Nat]
    BY <2>1 DEF ExpiryInv, TypeOK, Scan
  <2>3. PICK d \in given[scan.key] : d <= clock
    BY <2>1 DEF ExpiryInv, NeverEarly
  <2>4. d \in Nat /\ d \in given'[scan.key]
    BY <2>2, <2>3
  <2> QED
    BY <1>1, <2>3, <2>4
<1>6. NoLeak'
  BY DEF ExpiryInv, NoLeak, HasRecord
<1> QED
  BY <1>3, <1>4, <1>5, <1>6 DEF ExpiryInv

LEMMA HistoryTyping ==
  ASSUME ExpiryInv
  PROVE  /\ fate \in [Keys -> {"none", "due", "stray"}] /\ given \in [Keys -> SUBSET Nat]
         /\ clock \in Nat /\ expiry \in [Keys -> [Pads -> Nat \cup {NoRecord}]]
  BY StringAssumption DEF ExpiryInv, TypeOK, StringInv, StringsTypeOK

LEMMA QuietStep ==
  ASSUME ExpiryInv, NEW t \in Threads, Quiet(t)
  PROVE  ExpiryInv'
<1>1. UNCHANGED <<scan, faults, fate, given>>
  BY DEF Quiet
<1>2. StringsNext
  BY DEF Quiet, StringsNext, Work
<1>3. StringInv'
  BY <1>2, StringInductive DEF ExpiryInv
<1>4. expiry' = expiry /\ clock' = clock
  <2>1. CASE Command(t)
    <3>1. CASE FlushStart(t)
      BY <3>1 DEF FlushStart, data
    <3>2. CASE ~FlushStart(t)
      <4>1. PICK c, stage : Begin(t, c, stage)
        BY <2>1, <3>2, CommandStep DEF ExpiryInv
      <4> QED
        BY <4>1 DEF Begin, data
    <3> QED
      BY <3>1, <3>2
  <2>2. CASE ~Command(t)
    BY <2>2 DEF Quiet, Refused, Enter, MergeIntoMissing, MergeMissing, Merge, LookNX,
                LookDel, FlushDone, data
  <2> QED
    BY <2>1, <2>2
<1>5. clock <= clock'
  BY <1>4, HistoryTyping
<1> QED
  BY <1>1, <1>3, <1>4, <1>5, HistoryTyping, CommandsKeep

LEMMA WriteKeyStep ==
  ASSUME ExpiryInv, NEW t \in Threads, WriteKey(t)
  PROVE  ExpiryInv'
<1>1. /\ Write(t) /\ UNCHANGED <<scan, faults, given, expiry, clock>>
      /\ fate' = IF cmd[t].op \in Modifying THEN fate ELSE [fate EXCEPT ![Key(t)] = "none"]
  BY DEF WriteKey, Write
<1>2. StringInv'
  BY <1>1, WriteStep DEF ExpiryInv
<1>3. /\ fate' \in [Keys -> {"none", "due", "stray"}]
      /\ \A k \in Keys : fate'[k] = "due" => fate[k] = "due"
  BY <1>1, HistoryTyping
<1>4. clock <= clock'
  BY <1>1, HistoryTyping
<1> QED
  BY <1>1, <1>2, <1>3, <1>4, HistoryTyping, CommandsKeep

LEMMA RemoveKeyStep ==
  ASSUME ExpiryInv, NEW t \in Threads, RemoveKey(t)
  PROVE  ExpiryInv'
<1>1. /\ RemoveDel(t) /\ UNCHANGED <<scan, faults, given, expiry, clock>>
      /\ fate' = [fate EXCEPT ![Key(t)] = "none"]
  BY DEF RemoveKey, RemoveDel
<1>2. StringInv'
  BY <1>1, RemoveDelStep DEF ExpiryInv
<1>3. /\ fate' \in [Keys -> {"none", "due", "stray"}]
      /\ \A k \in Keys : fate'[k] = "due" => fate[k] = "due"
  BY <1>1, HistoryTyping
<1>4. clock <= clock'
  BY <1>1, HistoryTyping
<1> QED
  BY <1>1, <1>2, <1>3, <1>4, HistoryTyping, CommandsKeep

LEMMA WriteRecordStep ==
  ASSUME ExpiryInv, NEW t \in Threads, WriteRecord(t)
  PROVE  ExpiryInv'
<1> DEFINE d == Deadline(cmd[t].secs)
           x == Key(t)
<1>1. /\ SetExpire(t) /\ pc[t] = "expire" /\ UNCHANGED <<scan, faults, clock, store>>
      /\ fate' = [fate EXCEPT ![x] = IF store[x] = NoValue THEN "none" ELSE "due"]
      /\ given' = [given EXCEPT ![x] = @ \cup {d}]
  BY DEF WriteRecord, SetExpire
<1>2. PICK p \in Pads : expiry' = [expiry EXCEPT ![x][p] = d]
  BY <1>1 DEF SetExpire
<1>3. StringInv'
  BY <1>1, SetExpireStep DEF ExpiryInv
<1>4. x \in Keys /\ d \in Nat /\ NoRecord \notin Nat
  <2>1. x \in Keys
    BY <1>1, KeyTyping DEF ExpiryInv
  <2>2. cmd[t].secs \in Nat
    BY <1>1, StringAssumption DEF ExpiryInv, StringInv, StageOK
  <2>3. d \in Nat
    BY <2>2, HistoryTyping DEF Deadline
  <2> QED
    BY <2>1, <2>3, StringAssumption
<1> HIDE DEF d, x
<1>5. /\ fate' \in [Keys -> {"none", "due", "stray"}]
      /\ \A k \in Keys : k # x => fate'[k] = fate[k]
  BY <1>1, HistoryTyping
<1>6. /\ given' \in [Keys -> SUBSET Nat] /\ given'[x] = given[x] \cup {d}
      /\ \A k \in Keys : given[k] \subseteq given'[k]
  BY <1>1, <1>4, HistoryTyping
<1>7. /\ expiry'[x][p] = d
      /\ \A k \in Keys : k # x => expiry'[k] = expiry[k]
      /\ \A k \in Keys, q \in Pads :
           expiry'[k][q] = expiry[k][q] \/ (k = x /\ expiry'[k][q] = d)
  BY <1>2, <1>4, HistoryTyping
<1>8. \A k \in Keys, q \in Pads : expiry'[k][q] \in {expiry[k][q], NoRecord} \cup given'[k]
  BY <1>6, <1>7
<1>9. \A k \in Keys : k = x => HasRecord(k)'
  BY <1>4, <1>7 DEF HasRecord
<1>10. \A k \in Keys : fate'[k] = "due" =>
         (fate[k] = "due" /\ expiry'[k] = expiry[k]) \/ HasRecord(k)'
  BY <1>5, <1>7, <1>9
<1>11. clock <= clock'
  BY <1>1, HistoryTyping
<1> QED
  BY <1>1, <1>3, <1>5, <1>6, <1>8, <1>10, <1>11, CommandsKeep

LEMMA FlushOneKeyStep ==
  ASSUME ExpiryInv, NEW t \in Threads, FlushOneKey(t)
  PROVE  ExpiryInv'
<1>1. /\ FlushKey(t) /\ UNCHANGED <<scan, faults, given, expiry, clock>>
      /\ fate' = [k \in Keys |-> IF store'[k] = NoValue THEN "none" ELSE fate[k]]
  BY DEF FlushOneKey, FlushKey
<1>2. StringInv'
  BY <1>1, FlushKeyStep DEF ExpiryInv
<1>3. /\ fate' \in [Keys -> {"none", "due", "stray"}]
      /\ \A k \in Keys : fate'[k] = "due" => fate[k] = "due"
  BY <1>1, HistoryTyping
<1>4. clock <= clock'
  BY <1>1, HistoryTyping
<1> QED
  BY <1>1, <1>2, <1>3, <1>4, HistoryTyping, CommandsKeep

LEMMA FlushOneRecordStep ==
  ASSUME ExpiryInv, NEW t \in Threads, FlushOneRecord(t)
  PROVE  ExpiryInv'
<1>1. /\ FlushExpiry(t) /\ UNCHANGED <<scan, faults, given, clock>>
      /\ fate' = [k \in Keys |-> IF fate[k] = "due" /\ expiry'[k] # expiry[k] THEN "stray" ELSE fate[k]]
  BY DEF FlushOneRecord, FlushExpiry
<1>2. StringInv'
  BY <1>1, FlushExpiryStep DEF ExpiryInv
<1>3. /\ fate' \in [Keys -> {"none", "due", "stray"}]
      /\ \A k \in Keys : fate'[k] = "due" => fate[k] = "due" /\ expiry'[k] = expiry[k]
  BY <1>1, HistoryTyping
<1>4. clock <= clock'
  BY <1>1, HistoryTyping
<1>5. PICK i : expiry' = [expiry EXCEPT ![i.key][i.pad] = NoRecord]
  BY <1>1 DEF FlushExpiry
<1>6. \A k \in Keys, q \in Pads : expiry'[k][q] \in {expiry[k][q], NoRecord} \cup given'[k]
  BY <1>5, HistoryTyping
<1> QED
  BY <1>1, <1>2, <1>3, <1>4, <1>6, HistoryTyping, CommandsKeep

LEMMA TickAllStep ==
  ASSUME ExpiryInv, TickAll
  PROVE  ExpiryInv'
<1>1. /\ Tick /\ clock' = clock + 1 /\ UNCHANGED <<scan, faults, fate, given, expiry>>
  BY DEF TickAll, Tick, data
<1>2. StringInv'
  BY <1>1, TickStep DEF ExpiryInv
<1>3. clock <= clock'
  BY <1>1, HistoryTyping
<1> QED
  BY <1>1, <1>2, <1>3, HistoryTyping, CommandsKeep

-----------------------------------------------------------------------------
(* Theorems *)

LEMMA ExpiryInductive ==
  ASSUME ExpiryInv, Next
  PROVE  ExpiryInv'
<1>1. ASSUME NEW t \in Threads, Worker(t)
      PROVE  ExpiryInv'
  BY <1>1, QuietStep, WriteKeyStep, RemoveKeyStep, WriteRecordStep, FlushOneKeyStep,
     FlushOneRecordStep DEF Worker
<1> QED
  BY <1>1, TickAllStep, KilledStep, TTLStep DEF Next

LEMMA ExpiryInitial ==
  ASSUME Init
  PROVE  ExpiryInv
<1>1. StringInv
  BY StringInitial DEF Init
<1>2. /\ scan = Starting /\ faults = 0 /\ fate = [k \in Keys |-> "none"]
      /\ given = [k \in Keys |-> {}] /\ expiry = [k \in Keys |-> [p \in Pads |-> NoRecord]]
      /\ clock = 0
  BY DEF Init, StringsInit
<1>3. scan \in Scan /\ scan.now = 0 /\ scan.at = "seek" /\ scan.ahead = {} /\ scan.key = NoValue
  BY <1>2, StringAssumption, ExpiryAssumption DEF Starting, Scan, ScanStage
<1>4. TypeOK
  BY <1>1, <1>2, <1>3, ExpiryAssumption DEF TypeOK, StringInv
<1>5. TimesGiven
  BY <1>2, <1>3 DEF TimesGiven
<1>6. NeverEarly /\ NoLeak
  BY <1>2, <1>3 DEF NeverEarly, NoLeak
<1> QED
  BY <1>1, <1>4, <1>5, <1>6 DEF ExpiryInv

\* The inductive invariant of the expiry thread beside the string commands: the
\* times it goes by are times that were given, however old its snapshot is.
THEOREM ExpiryInvariant == Spec => []ExpiryInv
<1>1. Init => ExpiryInv
  BY ExpiryInitial
<1>2. ExpiryInv /\ [Next]_vars => ExpiryInv'
  <2>1. SUFFICES ASSUME ExpiryInv, UNCHANGED vars PROVE ExpiryInv'
    BY ExpiryInductive
  <2>2. UNCHANGED svars /\ UNCHANGED <<scan, faults, fate, given>>
    BY <2>1 DEF vars
  <2>3. StringInv'
    BY <2>1, <2>2, StringStutter DEF ExpiryInv
  <2>4. UNCHANGED <<expiry, clock>>
    BY <2>2 DEF svars, data
  <2>5. clock <= clock'
    BY <2>1, <2>4, HistoryTyping
  <2> QED
    BY <2>1, <2>2, <2>3, <2>4, <2>5, HistoryTyping, CommandsKeep
<1> QED
  BY <1>1, <1>2, PTL DEF Spec

\* The state of TTLThread::run and of the commands beside it keeps its form.
THEOREM ExpiryTyping == Spec => []TypeOK
<1>1. ExpiryInv => TypeOK
  BY DEF ExpiryInv
<1> QED
  BY <1>1, ExpiryInvariant, PTL

\* TTLThread::run removes no key before a time that was set for it, for any
\* number of records between two looks at the clock.
THEOREM ExpiryNotEarly == Spec => []NeverEarly
<1>1. ExpiryInv => NeverEarly
  BY DEF ExpiryInv
<1> QED
  BY <1>1, ExpiryInvariant, PTL

\* A value that was acknowledged to expire keeps an expiry record until the
\* thread is about to remove it, whatever SETEX, EXPIRE, SET, DEL and FLUSHDB do
\* beside it, but for the two cases that make the key stray.
THEOREM ExpiryNoLeak == Spec => []NoLeak
<1>1. ExpiryInv => NoLeak
  BY DEF ExpiryInv
<1> QED
  BY <1>1, ExpiryInvariant, PTL

=============================================================================
