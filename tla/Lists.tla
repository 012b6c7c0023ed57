--------------------------------- MODULE Lists ---------------------------------
(***************************************************************************)
(* Redis lists on a key-value store (src/src/t_list.cpp) and the commands  *)
(* that use them (src/src/listcmdhandler.cpp).                             *)
(*                                                                         *)
(* A list is one meta record (left_pos, right_pos), both exclusive, and    *)
(* one record per element.  A command takes the striped ListMutex of the   *)
(* list's name, reads the meta record, writes or removes element records   *)
(* and then writes the meta record: the process may be killed in between,  *)
(* and FLUSHDB deletes records without asking for the mutex.  A command    *)
(* that is refused takes the mutex, writes nothing and lets it go.         *)
(*                                                                         *)
(* seq is what each list should hold, changed where a command writes its   *)
(* last record.                                                            *)
(***************************************************************************)
EXTENDS Integers, Sequences, FiniteSets, SequencesExt

CONSTANTS
  Names,         \* names of lists
  Values,        \* what clients push
  Empty,         \* the empty string, read for a record that is not there
  NoMeta,        \* no meta record
  Threads,       \* worker threads
  NoThread,      \* a mutex is free
  NoName,        \* no second list
  NoCmd,         \* no command
  Stripe,        \* which of the mutexes a name is hashed to
  Indexes,       \* list indexes clients send
  Databases,     \* how many databases there are
  Database(_),   \* the one a record's key is hashed to, the meta record's like any other's
  MaxArgs,       \* bound: values in one LPUSH or RPUSH
  MaxOps,        \* bound: commands
  MaxFaults      \* bound: kills of the process

Stripes == {Stripe[n] : n \in Names}

ASSUME ListAssumption ==
  /\ DOMAIN Stripe = Names
  /\ Indexes \subseteq Int
  /\ Databases \in Nat
  /\ NoThread \notin Threads
  /\ NoName \notin Names
  /\ NoMeta \notin [left : Int, right : Int]
  /\ MaxArgs \in Nat \ {0}
  /\ MaxOps \in Nat
  /\ MaxFaults \in Nat

VARIABLES
  meta,          \* the meta record of each list
  elem,          \* the element records of each list
  lock,          \* holder of each of the ListMutex's mutexes
  pc,            \* what each thread does next
  cmd,           \* its command
  local,         \* the meta record it has read
  rest,          \* element records it still has to remove
  got,           \* the value it has popped
  flushing,      \* records a FLUSHDB of the thread still has to delete
  walk,          \* the database it takes next
  ops,           \* commands so far (bound)
  faults,        \* kills so far (bound)
  seq,           \* what each list should hold
  broken,        \* lists a kill or a FLUSHDB in the middle of a command may have damaged
  strays,        \* lists that may have element records outside of their bounds
  inverted       \* lists an LTRIM has left with right_pos <= left_pos

data    == <<meta, elem>>
threads == <<lock, pc, cmd, local, rest, got, flushing, walk>>
ideal   == <<seq, broken, strays, inverted>>
vars    == <<data, threads, ops, faults, ideal>>

Sides == {"l", "r"}
Meta  == [left : Int, right : Int]
Item  == Values \cup {Empty}

Push  == [op : {"push"}, name : Names, side : Sides, vals : Seq(Item), ifExists : BOOLEAN]
Pop   == [op : {"pop"}, name : Names, side : Sides, dest : Names \cup {NoName}]
Set   == [op : {"set"}, name : Names, index : Int, val : Values]
Trim  == [op : {"trim"}, name : Names, start : Int, stop : Int]
Clear == [op : {"clear"}, name : Names]
Stage == {"idle", "wait", "element", "remove", "meta", "flush"}

\* The meta record of a list that is pushed to for the first time.
Fresh == [left |-> 0, right |-> 1]

Size(m)   == m.right - m.left - 1
Inside(m) == m.left + 1 .. m.right - 1

Put(f, i, v) == [j \in DOMAIN f \cup {i} |-> IF j = i THEN v ELSE f[j]]
Drop(f, i)   == [j \in DOMAIN f \ {i} |-> f[j]]

\* LeveldbCluster::value leaves the string empty when there is no record.
Stored(n, i) == IF i \in DOMAIN elem[n] THEN elem[n][i] ELSE Empty

\* Where a push at this side of the list puts its element, and a pop finds one.
End(m, side)    == IF side = "l" THEN m.left + 1 ELSE m.right - 1
NewEnd(m, side) == IF side = "l" THEN m.left ELSE m.right

Grown(m, side) ==
  IF side = "l" THEN [m EXCEPT !.left = @ - 1] ELSE [m EXCEPT !.right = @ + 1]
Shrunk(m, side) ==
  IF side = "l" THEN [m EXCEPT !.left = @ + 1] ELSE [m EXCEPT !.right = @ - 1]

\* lindex, lset: the id of the element a client's index names.
FromLeft(m, i) == i + m.left + 1
AtIndex(m, i)  == (IF i < 0 THEN i + Size(m) ELSE i) + m.left + 1

\* tlist_transformIndex for one of the two indexes; negative for an empty list.
Clamp(i, size) ==
  LET j == IF i >= 0 THEN i ELSE IF size + i < 0 THEN 0 ELSE size + i
  IN IF j > size - 1 THEN size - 1 ELSE j

\* ltrim: the meta record it writes.
Kept(m, start, stop) ==
  LET a == m.left + 1 + Clamp(start, Size(m))
      b == m.left + 1 + Clamp(stop, Size(m))
  IN [left |-> (IF a > b THEN m.right - 1 ELSE a) - 1, right |-> b + 1]

\* The early returns of the commands.
Refused(c, m) ==
  CASE c.op = "push"  -> c.ifExists /\ m = NoMeta
    [] c.op = "pop"   -> m = NoMeta \/ Size(m) <= 0
    [] c.op = "set"   -> m = NoMeta \/ AtIndex(m, c.index) \notin Inside(m)
    [] c.op = "trim"  -> m = NoMeta \/ Size(m) <= 0
    [] c.op = "clear" -> m = NoMeta

\* The element records LTRIM and LCLEAR remove.
WithBounds(c, m) ==
  CASE c.op = "trim"  -> Inside(m) \ Inside(Kept(m, c.start, c.stop))
    [] c.op = "clear" -> m.left .. m.right
    [] OTHER          -> {}

BelowStart(c, m) ==
  CASE c.op = "trim"  -> {i \in Inside(m) : i <= Kept(m, c.start, c.stop).left}
    [] c.op = "clear" -> Inside(m)
    [] OTHER          -> {}

ToRemove(c, m) ==
  CASE c.op = "trim"  -> Inside(m) \ Inside(Kept(m, c.start, c.stop))
    [] c.op = "clear" -> Inside(m)
    [] OTHER          -> {}

-----------------------------------------------------------------------------
\* list_mutex.lock and the read of the meta record.  A refused command writes
\* nothing, so it is no step.
Enter(t, c) ==
  /\ lock[Stripe[c.name]] = NoThread
  /\ ~Refused(c, meta[c.name])
  /\ LET m == IF meta[c.name] = NoMeta THEN Fresh ELSE meta[c.name]
     IN /\ local' = [local EXCEPT ![t] = m]
        /\ rest' = [rest EXCEPT ![t] = ToRemove(c, m)]
  /\ lock' = [lock EXCEPT ![Stripe[c.name]] = t]
  /\ cmd' = [cmd EXCEPT ![t] = c]
  /\ pc' = [pc EXCEPT ![t] = IF c.op \in {"trim", "clear"} THEN "remove" ELSE "element"]
  /\ UNCHANGED <<data, got, flushing, walk, faults, ideal>>

Request(t, c) ==
  /\ pc[t] = "idle"
  /\ ops < MaxOps
  /\ ops' = ops + 1
  /\ Enter(t, c)

\* The next value of LPUSH or RPUSH, the second list of RPOPLPUSH.
Resume(t) ==
  /\ pc[t] = "wait"
  /\ Enter(t, cmd[t])
  /\ UNCHANGED ops

PushCommand(t) ==
  \E n \in Names, s \in Sides, k \in 1..MaxArgs : \E vs \in [1..k -> Values] :
    Request(t, [op |-> "push", name |-> n, side |-> s, vals |-> vs, ifExists |-> FALSE])

PushxCommand(t) ==
  \E n \in Names, s \in Sides, v \in Values :
    Request(t, [op |-> "push", name |-> n, side |-> s, vals |-> <<v>>, ifExists |-> TRUE])

PopCommand(t) ==
  \E n \in Names, s \in Sides :
    Request(t, [op |-> "pop", name |-> n, side |-> s, dest |-> NoName])

RPopLPushCommand(t) ==
  \E n, d \in Names : Request(t, [op |-> "pop", name |-> n, side |-> "r", dest |-> d])

SetCommand(t) ==
  \E n \in Names, i \in Indexes, v \in Values :
    Request(t, [op |-> "set", name |-> n, index |-> i, val |-> v])

TrimCommand(t) ==
  \E n \in Names, i, j \in Indexes :
    Request(t, [op |-> "trim", name |-> n, start |-> i, stop |-> j])

ClearCommand(t) == \E n \in Names : Request(t, [op |-> "clear", name |-> n])

-----------------------------------------------------------------------------
Mutex(t) == Stripe[cmd[t].name]

\* list_mutex.unlock and the reply, or the next list or value of the command.
KeepMutex(t, more) ==
  /\ pc' = [pc EXCEPT ![t] = IF more = NoCmd THEN "idle" ELSE "wait"]
  /\ cmd' = [cmd EXCEPT ![t] = more]
  /\ lock' = IF more = NoCmd THEN [lock EXCEPT ![Mutex(t)] = NoThread] ELSE lock

Leave(t, more) ==
  /\ pc' = [pc EXCEPT ![t] = IF more = NoCmd THEN "idle" ELSE "wait"]
  /\ cmd' = [cmd EXCEPT ![t] = more]
  /\ lock' = [lock EXCEPT ![Mutex(t)] = NoThread]

\* The record of an element is written or removed.
PushElement(t) ==
  /\ pc[t] = "element"
  /\ cmd[t].op = "push"
  /\ elem' = [elem EXCEPT ![cmd[t].name] =
                Put(@, NewEnd(local[t], cmd[t].side), Head(cmd[t].vals))]
  /\ pc' = [pc EXCEPT ![t] = "meta"]
  /\ UNCHANGED <<meta, lock, cmd, local, rest, got, flushing, walk, ops, faults, ideal>>

PopElement(t) ==
  /\ pc[t] = "element"
  /\ cmd[t].op = "pop"
  /\ LET i == End(local[t], cmd[t].side)
     IN /\ got' = [got EXCEPT ![t] = Stored(cmd[t].name, i)]
        /\ elem' = [elem EXCEPT ![cmd[t].name] = Drop(@, i)]
  /\ pc' = [pc EXCEPT ![t] = "meta"]
  /\ UNCHANGED <<meta, lock, cmd, local, rest, flushing, walk, ops, faults, ideal>>

SetElement(t) ==
  /\ pc[t] = "element"
  /\ cmd[t].op = "set"
  /\ LET c == cmd[t]
         i == AtIndex(local[t], c.index)
     IN /\ elem' = [elem EXCEPT ![c.name] = Put(@, i, c.val)]
        /\ seq' = IF c.name \in broken \cup inverted THEN seq
                  ELSE [seq EXCEPT ![c.name][i - local[t].left] = c.val]
  /\ Leave(t, NoCmd)
  /\ UNCHANGED <<meta, local, rest, got, flushing, walk, ops, faults, broken, strays, inverted>>

\* LTRIM and LCLEAR remove one record after the other, by ascending id.
RemoveElement(t) ==
  /\ pc[t] = "remove"
  /\ \E i \in rest[t] :
       /\ \A j \in rest[t] : i <= j
       /\ elem' = [elem EXCEPT ![cmd[t].name] = Drop(@, i)]
       /\ rest' = [rest EXCEPT ![t] = @ \ {i}]
  /\ UNCHANGED <<meta, lock, pc, cmd, local, got, flushing, walk, ops, faults, ideal>>

\* What the commands do to a sequence.
Pushed(s, side, v) == IF side = "l" THEN <<v>> \o s ELSE Append(s, v)
Popped(s, side)    == IF side = "l" THEN Tail(s) ELSE Front(s)
Trimmed(s, start, stop) ==
  IF s = <<>> THEN s ELSE SubSeq(s, Clamp(start, Len(s)) + 1, Clamp(stop, Len(s)) + 1)

\* The meta record is written, which ends the command or its part.
PushMeta(t) ==
  /\ pc[t] = "meta"
  /\ cmd[t].op = "push"
  /\ LET c == cmd[t]
     IN /\ meta' = [meta EXCEPT ![c.name] = Grown(local[t], c.side)]
        /\ seq' = [seq EXCEPT ![c.name] = Pushed(@, c.side, Head(c.vals))]
        /\ Leave(t, IF Len(c.vals) = 1 THEN NoCmd ELSE [c EXCEPT !.vals = Tail(@)])
  /\ UNCHANGED <<elem, local, rest, got, flushing, walk, ops, faults, broken, strays, inverted>>

PopMeta(t) ==
  /\ pc[t] = "meta"
  /\ cmd[t].op = "pop"
  /\ LET c == cmd[t]
     IN /\ meta' = [meta EXCEPT ![c.name] = Shrunk(local[t], c.side)]
        /\ seq' = IF seq[c.name] = <<>> THEN seq
                  ELSE [seq EXCEPT ![c.name] = Popped(@, c.side)]
        /\ Leave(t, IF c.dest = NoName THEN NoCmd
                    ELSE [op |-> "push", name |-> c.dest, side |-> "l",
                          vals |-> <<got[t]>>, ifExists |-> FALSE])
  /\ got' = [got EXCEPT ![t] = Empty]
  /\ UNCHANGED <<elem, local, rest, flushing, walk, ops, faults, broken, strays, inverted>>

TrimMeta(t) ==
  /\ pc[t] = "remove"
  /\ rest[t] = {}
  /\ cmd[t].op = "trim"
  /\ LET c == cmd[t]
         k == Kept(local[t], c.start, c.stop)
     IN /\ meta' = [meta EXCEPT ![c.name] = k]
        /\ seq' = [seq EXCEPT ![c.name] = Trimmed(@, c.start, c.stop)]
        /\ IF Size(k) < 0
           THEN inverted' = inverted \cup {c.name} /\ strays' = strays \cup {c.name}
           ELSE UNCHANGED <<inverted, strays>>
  /\ Leave(t, NoCmd)
  /\ UNCHANGED <<elem, local, rest, got, flushing, walk, ops, faults, broken>>

\* Whether some FLUSHDB still has records of list n to delete.
FlushPending(n) == \E u \in Threads : \E r \in flushing[u] : r.name = n

ClearMeta(t) ==
  /\ pc[t] = "remove"
  /\ rest[t] = {}
  /\ cmd[t].op = "clear"
  /\ LET n == cmd[t].name
     IN /\ meta' = [meta EXCEPT ![n] = NoMeta]
        /\ seq' = [seq EXCEPT ![n] = <<>>]
        /\ broken' = IF FlushPending(n) THEN broken ELSE broken \ {n}
        /\ inverted' = inverted \ {n}
  /\ Leave(t, NoCmd)
  /\ UNCHANGED <<elem, local, rest, got, flushing, walk, ops, faults, strays>>

-----------------------------------------------------------------------------
\* FLUSHDB takes one database after the other: Leveldb::clear walks over a snapshot of
\* it and deletes record by record (which one first depends on the comparator of
\* leveldb; any order here).
Snapshot ==
  {[meta |-> FALSE, name |-> n, id |-> i] : n \in Names, i \in UNION {DOMAIN elem[x] : x \in Names}}
    \cup {[meta |-> TRUE, name |-> n, id |-> 0] : n \in Names}

Present(r) == IF r.meta THEN meta[r.name] # NoMeta ELSE r.id \in DOMAIN elem[r.name]

FlushStart(t) ==
  /\ pc[t] = "idle"
  /\ ops < MaxOps
  /\ ops' = ops + 1
  /\ pc' = [pc EXCEPT ![t] = "flush"]
  /\ walk' = [walk EXCEPT ![t] = 1]
  /\ UNCHANGED <<data, lock, cmd, local, rest, got, flushing, faults, ideal>>

FlushDatabase(t) ==
  /\ pc[t] = "flush" /\ flushing[t] = {} /\ walk[t] <= Databases
  /\ flushing' = [flushing EXCEPT ![t] = {r \in Snapshot : Present(r) /\ Database(r) = walk[t]}]
  /\ walk' = [walk EXCEPT ![t] = @ + 1]
  /\ UNCHANGED <<data, lock, pc, cmd, local, rest, got, ops, faults, ideal>>

FlushRecord(t) ==
  /\ pc[t] = "flush"
  /\ \E r \in flushing[t] :
       /\ flushing' = [flushing EXCEPT ![t] = @ \ {r}]
       /\ broken' = broken \cup {r.name}
       /\ strays' = strays \cup {r.name}
       /\ IF r.meta
          THEN meta' = [meta EXCEPT ![r.name] = NoMeta] /\ UNCHANGED elem
          ELSE elem' = [elem EXCEPT ![r.name] = Drop(@, r.id)] /\ UNCHANGED meta
  /\ UNCHANGED <<lock, pc, cmd, local, rest, got, walk, ops, faults, seq, inverted>>

Busy(n) ==
  \E u \in Threads : pc[u] \in {"element", "remove", "meta"} /\ cmd[u].name = n

\* Lists that are gone altogether, with no command in the middle, are intact.
FlushDone(t) ==
  /\ pc[t] = "flush" /\ flushing[t] = {} /\ walk[t] > Databases
  /\ pc' = [pc EXCEPT ![t] = "idle"]
  /\ walk' = [walk EXCEPT ![t] = 0]
  /\ LET gone == {n \in Names : /\ meta[n] = NoMeta /\ DOMAIN elem[n] = {}
                                /\ ~Busy(n) /\ ~FlushPending(n)}
     IN /\ seq' = [n \in Names |-> IF n \in gone THEN <<>> ELSE seq[n]]
        /\ broken' = broken \ gone
        /\ strays' = strays \ gone
        /\ inverted' = inverted \ gone
  /\ UNCHANGED <<data, lock, cmd, local, rest, got, flushing, ops, faults>>

\* The process is killed and started again: the records are what is left.
Killed ==
  /\ faults < MaxFaults
  /\ faults' = faults + 1
  /\ broken' = broken \cup
       {n \in Names : Busy(n) /\ meta[n] # NoMeta /\ ~(Inside(meta[n]) \subseteq DOMAIN elem[n])}
  /\ strays' = strays \cup {n \in Names : Busy(n)}
  /\ lock' = [s \in Stripes |-> NoThread]
  /\ pc' = [t \in Threads |-> "idle"]
  /\ cmd' = [t \in Threads |-> NoCmd]
  /\ local' = [t \in Threads |-> Fresh]
  /\ rest' = [t \in Threads |-> {}]
  /\ got' = [t \in Threads |-> Empty]
  /\ flushing' = [t \in Threads |-> {}]
  /\ walk' = [t \in Threads |-> 0]
  /\ UNCHANGED <<data, ops, seq, inverted>>

-----------------------------------------------------------------------------
Init ==
  /\ meta = [n \in Names |-> NoMeta]
  /\ elem = [n \in Names |-> <<>>]
  /\ lock = [s \in Stripes |-> NoThread]
  /\ pc = [t \in Threads |-> "idle"]
  /\ cmd = [t \in Threads |-> NoCmd]
  /\ local = [t \in Threads |-> Fresh]
  /\ rest = [t \in Threads |-> {}]
  /\ got = [t \in Threads |-> Empty]
  /\ flushing = [t \in Threads |-> {}]
  /\ walk = [t \in Threads |-> 0]
  /\ ops = 0
  /\ faults = 0
  /\ seq = [n \in Names |-> <<>>]
  /\ broken = {}
  /\ strays = {}
  /\ inverted = {}

Command(t) ==
  \/ PushCommand(t) \/ PushxCommand(t) \/ PopCommand(t) \/ RPopLPushCommand(t)
  \/ SetCommand(t) \/ TrimCommand(t) \/ ClearCommand(t) \/ FlushStart(t)

Work(t) ==
  \/ Resume(t)
  \/ PushElement(t) \/ PushMeta(t)
  \/ PopElement(t) \/ PopMeta(t)
  \/ SetElement(t)
  \/ RemoveElement(t) \/ TrimMeta(t) \/ ClearMeta(t)
  \/ FlushDatabase(t) \/ FlushRecord(t) \/ FlushDone(t)

Next == Killed \/ \E t \in Threads : Command(t) \/ Work(t)

Spec == Init /\ [][Next]_vars

\* The threads are scheduled; clients and kills may stop.
FairSpec == Spec /\ \A t \in Threads : WF_vars(Work(t))

-----------------------------------------------------------------------------
(* Reads, under the mutex: lindex, lrange and what lpop would return *)

LIndex(n, i) ==
  IF meta[n] = NoMeta \/ AtIndex(meta[n], i) \notin Inside(meta[n]) THEN NoMeta
  ELSE Stored(n, AtIndex(meta[n], i))

LRange(n, start, stop) ==
  IF meta[n] = NoMeta \/ Size(meta[n]) <= 0 THEN <<>>
  ELSE LET a == Clamp(start, Size(meta[n]))
           b == Clamp(stop, Size(meta[n]))
       IN [k \in 1 .. (IF a <= b THEN b - a + 1 ELSE 0) |-> Stored(n, meta[n].left + a + k)]

LPopValue(n) ==
  IF meta[n] = NoMeta \/ Size(meta[n]) <= 0 THEN NoMeta
  ELSE Stored(n, End(meta[n], "l"))

-----------------------------------------------------------------------------
(* Properties *)

TypeOK ==
  /\ meta \in [Names -> Meta \cup {NoMeta}]
  /\ DOMAIN elem = Names
  /\ \A n \in Names : /\ DOMAIN elem[n] \subseteq Int
                      /\ \A i \in DOMAIN elem[n] : elem[n][i] \in Item
  /\ lock \in [Stripes -> Threads \cup {NoThread}]
  /\ pc \in [Threads -> Stage]
  /\ cmd \in [Threads -> Push \cup Pop \cup Set \cup Trim \cup Clear \cup {NoCmd}]
  /\ local \in [Threads -> Meta]
  /\ rest \in [Threads -> SUBSET Int]
  /\ \A t \in Threads : rest[t] \subseteq Inside(local[t])
  /\ got \in [Threads -> Item]
  /\ DOMAIN flushing = Threads
  /\ \A t \in Threads : \A r \in flushing[t] : r.name \in Names
  /\ walk \in [Threads -> 0 .. Databases + 1]
  /\ ops \in 0..MaxOps
  /\ faults \in 0..MaxFaults
  /\ seq \in [Names -> Seq(Item)]
  /\ broken \subseteq Names
  /\ strays \subseteq Names
  /\ inverted \subseteq Names

\* Between two commands the meta and the element records hold exactly the
\* pushed elements in order, through pushes and pops at both ends, LSET, LTRIM,
\* RPOPLPUSH and kills in the middle of a push; kills in the middle of a
\* removal, FLUSHDB under a running command and inverting LTRIMs excepted.
Contents ==
  \A n \in Names \ (broken \cup inverted) : ~Busy(n) =>
    IF meta[n] = NoMeta THEN seq[n] = <<>>
    ELSE /\ Len(seq[n]) = Size(meta[n])
         /\ Inside(meta[n]) \subseteq DOMAIN elem[n]
         /\ \A i \in DOMAIN seq[n] : Stored(n, meta[n].left + i) = seq[n][i]

\* LINDEX and LRANGE agree with the sequence for every index a client may send.
ReadsAgree ==
  \A n \in Names \ (broken \cup inverted) : ~Busy(n) =>
    \A i, j \in Indexes :
      LET s == seq[n]
          k == IF i < 0 THEN i + Len(s) ELSE i
      IN /\ LIndex(n, i) = IF k \in 0 .. Len(s) - 1 THEN s[k + 1] ELSE NoMeta
         /\ LRange(n, i, j) = IF s = <<>> THEN <<>> ELSE Trimmed(s, i, j)

\* Whatever pops, LTRIM and LCLEAR take out of a list is really deleted: no
\* element record is left outside the bounds, where nothing could reach it.
NoOrphans ==
  \A n \in Names \ strays : ~Busy(n) =>
    DOMAIN elem[n] = IF meta[n] = NoMeta THEN {} ELSE Inside(meta[n])

\* Every command comes to its end: RPOPLPUSH takes the two mutexes one after
\* the other, also when they are one.
CommandsEnd == \A t \in Threads : pc[t] # "idle" ~> pc[t] = "idle"

\* "pop and return the list's first key" (src/src/t_list.cpp:108).
LPopReturnsFirst ==
  \A n \in Names \ broken : ~Busy(n) /\ seq[n] # <<>> => LPopValue(n) = Head(seq[n])

=============================================================================
