-------------------------------- MODULE Strings --------------------------------
(***************************************************************************)
(* The string commands (src/src/cmdhandler.cpp) and the expiry records     *)
(* they write (src/src/ttlmanager.cpp, setExpire).                         *)
(*                                                                         *)
(* APPEND, SETRANGE, PFADD, INCR and its kin, GETSET, SETNX, SETEX and     *)
(* PFMERGE work under the striped StringMutex of their first key: read,    *)
(* compute, write.  SET, MSET, MSETNX, DEL, EXPIRE and FLUSHDB take no     *)
(* mutex.                                                                  *)
(*                                                                         *)
(* A value is known by the commands that have contributed to it (marks)    *)
(* and by whether it reads as a number.                                    *)
(***************************************************************************)
EXTENDS Integers, Sequences, FiniteSets

CONSTANTS
  Keys,
  Threads,       \* worker threads
  NoThread,      \* a mutex is free
  NoValue,       \* no record of a key
  NoRecord,      \* no expiry record
  NoCmd,         \* no command
  Stripe,        \* which of the mutexes a key is hashed to
  Pads,          \* what the uninitialised padding of an ExpireKey may hold
  KeyDb,         \* the database of a key
  RecordDb,      \* the database of the expiry record of a key, by its padding
  LastDb,        \* databases are numbered 0 .. LastDb
  Seconds,       \* expiry times clients send
  Commands,      \* commands clients send
  Kinds,         \* whether the values they send read as numbers
  MaxOps,        \* bound: commands
  MaxClock       \* bound: seconds that pass

Stripes == {Stripe[k] : k \in Keys}

Modifying  == {"append", "pfadd", "incr", "pfmerge"}
Replacing  == {"getset", "setnx", "setex"}
Locked     == Modifying \cup Replacing
Unlocked   == {"set", "mset", "msetnx", "del", "expire"}
Several    == {"mset", "msetnx", "del"}

ASSUME StringAssumption ==
  /\ DOMAIN Stripe = Keys
  /\ NoThread \notin Threads
  /\ NoValue \notin [number : BOOLEAN, marks : SUBSET Nat]
  /\ NoRecord \notin Nat
  /\ Pads \subseteq Nat /\ Pads # {}
  /\ LastDb \in Nat
  /\ KeyDb \in [Keys -> 0..LastDb]
  /\ RecordDb \in [Keys -> [Pads -> 0..LastDb]]
  /\ Seconds \subseteq Nat \ {0}
  /\ Commands \subseteq Locked \cup Unlocked \cup {"flushdb"}
  /\ Kinds \subseteq BOOLEAN
  /\ MaxOps \in Nat
  /\ MaxClock \in Nat

VARIABLES
  store,         \* the record of each key
  expiry,        \* its expiry records, by padding: when it is to be deleted
  clock,         \* time(NULL)
  lock,          \* holder of each of the StringMutex's mutexes
  pc,            \* what each thread does next
  cmd,           \* its command: the keys it still has to write, and to read
  got,           \* the value it has read
  flush,         \* the database a FLUSHDB of the thread is in, the records ahead
  ops,           \* commands so far (bound), each one's mark
  mods,          \* locked commands whose effect each key's value must show
  abandoned      \* mutexes a PFMERGE has left locked

data    == <<store, expiry>>
threads == <<lock, pc, cmd, got, flush>>
svars   == <<data, clock, threads, ops, mods, abandoned>>

Value   == [number : BOOLEAN, marks : SUBSET Nat]
Stage   == {"idle", "wait", "look", "write", "remove", "expire", "flush"}
Request == [op : Locked \cup Unlocked, keys : Seq(Keys), look : Seq(Keys),
            number : BOOLEAN, secs : Nat, id : Nat]
Item    == [record : BOOLEAN, key : Keys, pad : Nat]
NoFlush == [db |-> 0, ahead |-> {}]

Key(t) == Head(cmd[t].keys)

HasRecord(k) == \E p \in Pads : expiry[k][p] # NoRecord

-----------------------------------------------------------------------------
(* Commands *)

Begin(t, c, stage) ==
  /\ pc[t] = "idle"
  /\ c.op \in Commands
  /\ ops < MaxOps
  /\ ops' = ops + 1
  /\ cmd' = [cmd EXCEPT ![t] = c]
  /\ pc' = [pc EXCEPT ![t] = stage]
  /\ UNCHANGED <<data, clock, lock, got, flush, mods, abandoned>>

\* The key lists of the commands that take several keys.
KeyLists(op) == [1..1 -> Keys] \cup (IF op \in Several THEN [1..2 -> Keys] ELSE {})

\* Whether the client's value, or the result, reads as a number.
Numbers(op) ==
  CASE op = "incr" -> {TRUE}
    [] op \in {"pfadd", "pfmerge"} -> {FALSE}
    [] OTHER -> Kinds

\* The commands that go for the mutex first.  PFMERGE reads the keys behind the
\* first one.
LockedCommand(t) ==
  \E op \in Locked \ {"pfmerge", "setex"}, k \in Keys : \E n \in Numbers(op) :
    Begin(t, [op |-> op, keys |-> <<k>>, look |-> <<>>, number |-> n,
              secs |-> 0, id |-> ops], "wait")

SetExCommand(t) ==
  \E k \in Keys, n \in Kinds, s \in Seconds :
    Begin(t, [op |-> "setex", keys |-> <<k>>, look |-> <<>>, number |-> n,
              secs |-> s, id |-> ops], "wait")

PFMergeCommand(t) ==
  \E ks \in [1..2 -> Keys] :
    Begin(t, [op |-> "pfmerge", keys |-> <<ks[1]>>, look |-> Tail(ks), number |-> FALSE,
              secs |-> 0, id |-> ops], "wait")

\* SET without and with EX, RAWSET, MSET.
SetCommand(t) ==
  \E op \in {"set", "mset"} : \E ks \in KeyLists(op), n \in Kinds :
    \E s \in {0} \cup (IF op = "set" THEN Seconds ELSE {}) :
      Begin(t, [op |-> op, keys |-> ks, look |-> <<>>, number |-> n,
                secs |-> s, id |-> ops], "write")

MSetNXCommand(t) ==
  \E ks \in KeyLists("msetnx"), n \in Kinds :
    Begin(t, [op |-> "msetnx", keys |-> ks, look |-> ks, number |-> n,
              secs |-> 0, id |-> ops], "look")

DelCommand(t) ==
  \E ks \in KeyLists("del") :
    Begin(t, [op |-> "del", keys |-> ks, look |-> <<>>, number |-> FALSE,
              secs |-> 0, id |-> ops], "look")

ExpireCommand(t) ==
  \E k \in Keys, s \in Seconds :
    Begin(t, [op |-> "expire", keys |-> <<k>>, look |-> <<>>, number |-> FALSE,
              secs |-> s, id |-> ops], "expire")

-----------------------------------------------------------------------------
(* The mutex and the reply *)

Mutex(t) == Stripe[Key(t)]

NoLocking(s) == TRUE
Free(s)      == lock[s] = NoThread

\* string_mutex.unlock, for the commands that have locked.
ReleasedUnlessSetEx(t) ==
  IF cmd[t].op \in Locked \ {"setex"} THEN [lock EXCEPT ![Mutex(t)] = NoThread] ELSE lock

Released(t) ==
  IF cmd[t].op \in Locked THEN [lock EXCEPT ![Mutex(t)] = NoThread] ELSE lock

\* The reply.
Over(t) ==
  /\ pc' = [pc EXCEPT ![t] = "idle"]
  /\ cmd' = [cmd EXCEPT ![t] = NoCmd]
  /\ got' = [got EXCEPT ![t] = NoValue]

\* INCR of a text, SETNX of a key that is there.
Refuses(op, v) ==
  \/ op = "incr" /\ v # NoValue /\ ~v.number
  \/ op = "setnx" /\ v # NoValue

\* A refused command locks the mutex, reads the value and unlocks again.
RefusedLocked(t) ==
  /\ pc[t] = "wait"
  /\ Free(Mutex(t))
  /\ Refuses(cmd[t].op, store[Key(t)])
  /\ lock' = [lock EXCEPT ![Mutex(t)] = t]
  /\ Over(t)
  /\ UNCHANGED <<data, clock, flush, ops, mods, abandoned>>

Refused(t) ==
  /\ pc[t] = "wait"
  /\ Free(Mutex(t))
  /\ Refuses(cmd[t].op, store[Key(t)])
  /\ Over(t)
  /\ UNCHANGED <<data, clock, lock, flush, ops, mods, abandoned>>

\* string_mutex.lock and the read of the value.
Enter(t) ==
  /\ pc[t] = "wait"
  /\ Free(Mutex(t))
  /\ LET v == store[Key(t)]
     IN /\ ~Refuses(cmd[t].op, v)
        /\ cmd[t].op = "pfmerge" => v # NoValue
        /\ got' = [got EXCEPT ![t] = IF cmd[t].op = "setex" THEN NoValue ELSE v]
  /\ lock' = [lock EXCEPT ![Mutex(t)] = t]
  /\ pc' = [pc EXCEPT ![t] = IF cmd[t].op = "pfmerge" THEN "look" ELSE "write"]
  /\ UNCHANGED <<data, clock, cmd, flush, ops, mods, abandoned>>

\* PFMERGE returns without unlocking when its first key is missing, or a later one.
MergeIntoMissing(t) ==
  /\ pc[t] = "wait"
  /\ Free(Mutex(t))
  /\ cmd[t].op = "pfmerge"
  /\ store[Key(t)] = NoValue
  /\ lock' = [lock EXCEPT ![Mutex(t)] = t]
  /\ abandoned' = abandoned \cup {Mutex(t)}
  /\ Over(t)
  /\ UNCHANGED <<data, clock, flush, ops, mods>>

MergeMissing(t) ==
  /\ pc[t] = "look"
  /\ cmd[t].op = "pfmerge"
  /\ store[Head(cmd[t].look)] = NoValue
  /\ abandoned' = abandoned \cup {Mutex(t)}
  /\ Over(t)
  /\ UNCHANGED <<data, clock, lock, flush, ops, mods>>

Merge(t) ==
  /\ pc[t] = "look"
  /\ cmd[t].op = "pfmerge"
  /\ LET v == store[Head(cmd[t].look)]
     IN /\ v # NoValue
        /\ got' = [got EXCEPT ![t].marks = @ \cup v.marks]
  /\ cmd' = [cmd EXCEPT ![t].look = Tail(@)]
  /\ pc' = [pc EXCEPT ![t] = IF Len(cmd[t].look) = 1 THEN "write" ELSE "look"]
  /\ UNCHANGED <<data, clock, lock, flush, ops, mods, abandoned>>

-----------------------------------------------------------------------------
(* Reads and writes *)

\* MSETNX looks at all keys before it writes the first.
LookNX(t) ==
  /\ pc[t] = "look"
  /\ cmd[t].op = "msetnx"
  /\ IF store[Head(cmd[t].look)] # NoValue
     THEN Over(t)
     ELSE /\ cmd' = [cmd EXCEPT ![t].look = Tail(@)]
          /\ pc' = [pc EXCEPT ![t] = IF Len(cmd[t].look) = 1 THEN "write" ELSE "look"]
          /\ UNCHANGED got
  /\ UNCHANGED <<data, clock, lock, flush, ops, mods, abandoned>>

\* The next key of MSET, MSETNX, DEL, or the reply.
NextKey(t, stage) ==
  IF Len(cmd[t].keys) = 1
  THEN Over(t)
  ELSE /\ cmd' = [cmd EXCEPT ![t].keys = Tail(@)]
       /\ pc' = [pc EXCEPT ![t] = stage]
       /\ UNCHANGED got

\* DEL looks at a key and removes it only if it has seen it.
LookDel(t) ==
  /\ pc[t] = "look"
  /\ cmd[t].op = "del"
  /\ IF store[Key(t)] = NoValue
     THEN NextKey(t, "look")
     ELSE pc' = [pc EXCEPT ![t] = "remove"] /\ UNCHANGED <<cmd, got>>
  /\ UNCHANGED <<data, clock, lock, flush, ops, mods, abandoned>>

RemoveDel(t) ==
  /\ pc[t] = "remove"
  /\ store' = [store EXCEPT ![Key(t)] = NoValue]
  /\ mods' = [mods EXCEPT ![Key(t)] = {}]
  /\ NextKey(t, "look")
  /\ UNCHANGED <<expiry, clock, lock, flush, ops, abandoned>>

\* What a command writes: its own value, or what it has read with its change.
Result(c, v) ==
  [number |-> c.number,
   marks  |-> {c.id} \cup (IF c.op \in Modifying /\ v # NoValue THEN v.marks ELSE {})]

\* The commands whose effect the value must show afterwards.
Shown(c, old) ==
  CASE c.op \in Modifying \cup {"setnx"} -> old \cup {c.id}
    [] c.op \in {"getset", "setex"}      -> {c.id}
    [] OTHER                             -> {}

Write(t) ==
  /\ pc[t] = "write"
  /\ store' = [store EXCEPT ![Key(t)] = Result(cmd[t], got[t])]
  /\ mods' = [mods EXCEPT ![Key(t)] = Shown(cmd[t], @)]
  /\ IF cmd[t].secs > 0
     THEN pc' = [pc EXCEPT ![t] = "expire"] /\ UNCHANGED <<lock, cmd, got>>
     ELSE lock' = Released(t) /\ NextKey(t, "write")
  /\ UNCHANGED <<expiry, clock, flush, ops, abandoned>>

\* setExpire.
Deadline(s) == clock + s

SetExpire(t) ==
  /\ pc[t] = "expire"
  /\ \E p \in Pads : expiry' = [expiry EXCEPT ![Key(t)][p] = Deadline(cmd[t].secs)]
  /\ lock' = Released(t)
  /\ Over(t)
  /\ UNCHANGED <<store, clock, flush, ops, mods, abandoned>>

-----------------------------------------------------------------------------
(* FLUSHDB walks over a snapshot of one database after the other: keys come  *)
(* before expiry records (T_KV < T_Ttl), those in the order of their padding *)

Snapshot(d) ==
  {[record |-> FALSE, key |-> k, pad |-> 0] : k \in {x \in Keys : store[x] # NoValue /\ KeyDb[x] = d}}
    \cup {[record |-> TRUE, key |-> k, pad |-> p] : k \in Keys, p \in Pads}

Present(i, d) ==
  i.record => expiry[i.key][i.pad] # NoRecord /\ RecordDb[i.key][i.pad] = d

Ahead(d) == [db |-> d, ahead |-> {i \in Snapshot(d) : Present(i, d)}]

Before(i, j) == (i.record => j.record) /\ (i.record /\ j.record => i.pad <= j.pad)

FlushStart(t) ==
  /\ pc[t] = "idle"
  /\ "flushdb" \in Commands
  /\ ops < MaxOps
  /\ ops' = ops + 1
  /\ pc' = [pc EXCEPT ![t] = "flush"]
  /\ flush' = [flush EXCEPT ![t] = Ahead(0)]
  /\ UNCHANGED <<data, clock, lock, cmd, got, mods, abandoned>>

FlushKey(t) ==
  /\ pc[t] = "flush"
  /\ \E i \in flush[t].ahead :
       /\ ~i.record
       /\ store' = [store EXCEPT ![i.key] = NoValue]
       /\ mods' = [mods EXCEPT ![i.key] = {}]
       /\ flush' = [flush EXCEPT ![t].ahead = @ \ {i}]
  /\ UNCHANGED <<expiry, clock, lock, pc, cmd, got, ops, abandoned>>

FlushExpiry(t) ==
  /\ pc[t] = "flush"
  /\ \E i \in flush[t].ahead :
       /\ i.record
       /\ \A j \in flush[t].ahead : Before(i, j)
       /\ expiry' = [expiry EXCEPT ![i.key][i.pad] = NoRecord]
       /\ flush' = [flush EXCEPT ![t].ahead = @ \ {i}]
  /\ UNCHANGED <<store, clock, lock, pc, cmd, got, ops, mods, abandoned>>

FlushDone(t) ==
  /\ pc[t] = "flush"
  /\ flush[t].ahead = {}
  /\ IF flush[t].db < LastDb
     THEN flush' = [flush EXCEPT ![t] = Ahead(flush[t].db + 1)] /\ UNCHANGED pc
     ELSE flush' = [flush EXCEPT ![t] = NoFlush] /\ pc' = [pc EXCEPT ![t] = "idle"]
  /\ UNCHANGED <<data, clock, lock, cmd, got, ops, mods, abandoned>>

Tick ==
  /\ clock < MaxClock
  /\ clock' = clock + 1
  /\ UNCHANGED <<data, threads, ops, mods, abandoned>>

-----------------------------------------------------------------------------
StringsInit ==
  /\ store = [k \in Keys |-> NoValue]
  /\ expiry = [k \in Keys |-> [p \in Pads |-> NoRecord]]
  /\ clock = 0
  /\ lock = [s \in Stripes |-> NoThread]
  /\ pc = [t \in Threads |-> "idle"]
  /\ cmd = [t \in Threads |-> NoCmd]
  /\ got = [t \in Threads |-> NoValue]
  /\ flush = [t \in Threads |-> NoFlush]
  /\ ops = 0
  /\ mods = [k \in Keys |-> {}]
  /\ abandoned = {}

Command(t) ==
  \/ LockedCommand(t) \/ SetExCommand(t) \/ PFMergeCommand(t)
  \/ SetCommand(t) \/ MSetNXCommand(t) \/ DelCommand(t) \/ ExpireCommand(t)
  \/ FlushStart(t)

Work(t) ==
  \/ Refused(t) \/ Enter(t)
  \/ MergeIntoMissing(t) \/ MergeMissing(t) \/ Merge(t)
  \/ LookNX(t) \/ LookDel(t) \/ RemoveDel(t)
  \/ Write(t) \/ SetExpire(t)
  \/ FlushKey(t) \/ FlushExpiry(t) \/ FlushDone(t)

StringsNext == Tick \/ \E t \in Threads : Command(t) \/ Work(t)

StringsSpec == StringsInit /\ [][StringsNext]_svars

-----------------------------------------------------------------------------
(* Properties *)

StringsTypeOK ==
  /\ store \in [Keys -> Value \cup {NoValue}]
  /\ expiry \in [Keys -> [Pads -> Nat \cup {NoRecord}]]
  /\ clock \in 0..MaxClock
  /\ lock \in [Stripes -> Threads \cup {NoThread}]
  /\ pc \in [Threads -> Stage]
  /\ cmd \in [Threads -> Request \cup {NoCmd}]
  /\ got \in [Threads -> Value \cup {NoValue}]
  /\ flush \in [Threads -> [db : 0..LastDb, ahead : SUBSET Item]]
  /\ ops \in 0..MaxOps
  /\ mods \in [Keys -> SUBSET Nat]
  /\ abandoned \subseteq Stripes
  /\ \A k \in Keys, p \in Pads :
       expiry[k][p] # NoRecord => \E s \in Seconds : expiry[k][p] <= clock + s

\* Read-modify-write commands of a key are atomic towards each other: whatever
\* APPEND, SETRANGE, PFADD, INCR, PFMERGE or SETNX has done to a key since it was
\* last replaced or removed is in its value, so no increment is lost and no two
\* SETNX win.
NoLostUpdate ==
  \A k \in Keys : IF store[k] = NoValue THEN mods[k] = {} ELSE mods[k] \subseteq store[k].marks

\* A thread in the middle of a command under the mutex of a key.
Inside(t) ==
  /\ pc[t] \in {"look", "write", "expire"}
  /\ cmd[t].op \in Locked

\* A mutex is locked exactly while one command works under it, on every return
\* of every handler; those PFMERGE has left locked excepted.
MutexesReleased ==
  \A s \in Stripes \ abandoned :
    IF lock[s] = NoThread THEN \A t \in Threads : Inside(t) => Mutex(t) # s
    ELSE Inside(lock[s]) /\ Mutex(lock[s]) = s

\* Every command ends, unless its mutex has been left locked by a PFMERGE.
CommandsEnd ==
  \A t \in Threads :
    pc[t] # "idle" ~> pc[t] = "idle" \/ (cmd[t] # NoCmd /\ Mutex(t) \in abandoned)

=============================================================================
