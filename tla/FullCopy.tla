------------------------------- MODULE FullCopy -------------------------------
(***************************************************************************)
(* SYNCFROM (src/src/cmdhandler.cpp, dbcopy.cpp): a slave asks its master  *)
(* for a copy of all databases.  The slave's handler waits for one byte in *)
(* a blocking recv, on a thread of an event loop; the master's handler     *)
(* connects back to the slave's port as any client would and sends a       *)
(* RAWSET per record, whose replies it never reads.  Meanwhile clients     *)
(* write to the master, and the slave's sync thread is cancelled and       *)
(* started anew.                                                           *)
(*                                                                         *)
(* The cancelled thread may have been in the middle of a write.  Nothing   *)
(* releases what it held: leveldb's queue of writers to that database, or  *)
(* the mutex of the slave's own binlog.                                    *)
(*                                                                         *)
(* A value is the number of the write it comes from, 0 a missing key.  One *)
(* SYNCFROM runs, and the slave has no clients that write.                 *)
(***************************************************************************)
EXTENDS Integers, Sequences, FiniteSets, SequencesExt

CONSTANTS
  Keys,
  Databases,     \* databaseCount() of the master
  DatabaseOf,    \* of each key, on the slave as on the master
  MaxPipeline,   \* m_maxPipeline
  WireSize,      \* RAWSETs the socket buffers hold
  ReplySize,     \* unread replies they hold
  SingleLoop,    \* thread_num is 1
  MaxStream,     \* records of a reply to __SYNC
  SlaveLogs,     \* the slave has a binlog of its own
  Stocks,        \* what the master may have had before its binlog was enabled
  Written,       \* keys that clients of the master write
  MaxWrites, MaxKills  \* bounds

ASSUME FullCopyAssumption ==
  /\ Databases \in Nat
  /\ DatabaseOf \in [Keys -> 1..Databases] /\ Written \subseteq Keys
  /\ MaxPipeline \in Nat \ {0} /\ WireSize \in Nat \ {0} /\ ReplySize \in Nat
  /\ SingleLoop \in BOOLEAN /\ SlaveLogs \in BOOLEAN
  /\ MaxStream \in Nat \ {0} /\ Stocks \subseteq [Keys -> {0, 1}]
  /\ MaxWrites \in Nat /\ MaxKills \in Nat

Syncs  == {1, 2}   \* the sync thread, and the one started behind it
Binlog == 0        \* m_binlogMutex of the slave, among what a cancelled thread has left locked
EventLoop == 0     \* the loop with the connection of the copy, among the slave's threads

VARIABLES
  master, log,    \* the master's records, and its binlog
  replica,        \* the slave's records
  from,           \* onSyncFromCommand: "none", "connected", "asked", "waiting", "done"
  reply,          \* "none", "ok", "failed"
  answer,         \* the byte from the master: "none", "1", "0", or "lost"
  copy,           \* onCopyCommand: "none", "dial", "walk", "send", "end", or "gone" with its host
  db, rest,       \* DBCopy::start: the database, what its iterator still has
  batch, records, \* sendbuff, records
  wire,           \* RAWSETs in the sockets' buffers
  conn,           \* the connection is served by the "own" loop of SYNCFROM, or an "other"
  inbuf, replies, \* requests received, replies the master has not read
  sync, stream, upto, \* sync threads: the stream received, and its last position
  saved, emptied, \* MASTER_INFO, and whether a cancelled thread has left it empty
  isRunning, cancelled,
  held,           \* databases, and Binlog, that a cancelled thread has left locked
  halted,         \* threads that wait for m_binlogMutex, their record written
  during,         \* keys last written while the copy was under way (history)
  cut,            \* the copy has not been sent in full (history)
  dropped,        \* keys in the rest of a stream that a cancelled thread had (history)
  overlap,        \* two sync threads have run at a time (history)
  kills

source  == <<master, log, during>>
asking  == <<from, reply>>
sending == <<copy, db, rest, batch, records>>
taking  == <<wire, conn, inbuf, replies>>
threads == <<sync, stream, upto, saved, emptied, isRunning, cancelled, dropped, overlap>>
blocked == <<held, halted>>
vars    == <<source, replica, asking, answer, sending, taking, threads, blocked, cut, kills>>

Record(k, v) == [key |-> k, value |-> v]
NoKeys == [k \in Keys |-> 0]

-----------------------------------------------------------------------------
(* Clients of the master *)

\* The last copied record has not been applied yet.
UnderWay ==
  \/ from \in {"asked", "waiting"}
  \/ copy \in {"dial", "walk", "send"}
  \/ wire # <<>> \/ inbuf # <<>>

Write(k) ==
  /\ Len(log) < MaxWrites
  /\ \E v \in {0, Len(log) + 2} :
       /\ master' = [master EXCEPT ![k] = v]
       /\ log' = Append(log, Record(k, v))
  /\ during' = IF UnderWay THEN during \cup {k} ELSE during \ {k}
  /\ UNCHANGED <<replica, asking, answer, sending, taking, threads, blocked, cut, kills>>

-----------------------------------------------------------------------------
(* onSyncFromCommand *)

Connect ==
  /\ from = "none"
  /\ \/ from' = "connected" /\ reply' = reply
     \/ from' = "done" /\ reply' = "failed"
  /\ UNCHANGED <<source, replica, answer, sending, taking, threads, blocked, cut, kills>>

\* The master's handler may run as soon as the request has been sent.
SendCopy ==
  /\ from = "connected"
  /\ \/ from' = "asked" /\ copy' = "dial" /\ reply' = reply
     \/ from' = "done" /\ copy' = copy /\ reply' = "failed"
  /\ UNCHANGED <<source, replica, answer, db, rest, batch, records, taking, threads, blocked, cut, kills>>

\* Thread::terminate does not wait for the thread.
Terminate ==
  /\ from = "asked"
  /\ from' = "waiting"
  /\ isRunning' = FALSE
  /\ cancelled' = IF isRunning THEN {1} ELSE {}
  /\ UNCHANGED <<source, replica, reply, answer, sending, taking, sync, stream, upto, saved, emptied, dropped,
                 overlap, blocked, cut, kills>>

\* recv waits without a timeout, its result is not looked at; without a byte, ch is what the stack held.
Replies(byte) ==
  CASE byte = "1" -> {"ok"}
    [] byte = "0" -> {"failed"}
    [] byte = "lost" -> {"ok", "failed"}

Restart ==
  /\ from = "waiting" /\ answer # "none"
  /\ from' = "done"
  /\ reply' \in Replies(answer)
  /\ IF isRunning THEN UNCHANGED <<sync, overlap>>
     ELSE /\ sync' = [sync EXCEPT ![2] = "created"]
          /\ overlap' = (overlap \/ sync[1] # "off")
  /\ UNCHANGED <<source, replica, answer, sending, taking, stream, upto, saved, emptied, isRunning,
                 cancelled, dropped, blocked, cut, kills>>

-----------------------------------------------------------------------------
(* onCopyCommand and DBCopy::start *)

Answer(byte) ==
  /\ copy' = "end"
  /\ answer' = byte

\* Plausible mistake: no reply when the slave cannot be reached.
LeaveSilently ==
  /\ copy' = "end"
  /\ answer' = answer

FailCopy == Answer("0")

Dial ==
  /\ copy = "dial"
  /\ \/ /\ copy' = "walk" /\ answer' = answer /\ cut' = cut
        /\ conn' \in (IF SingleLoop THEN {"own"} ELSE {"own", "other"})
     \/ FailCopy /\ conn' = conn /\ cut' = TRUE
  /\ UNCHANGED <<source, replica, asking, db, rest, batch, records, wire, inbuf, replies, threads, blocked, kills>>

\* Plausible mistake: the last database is forgotten.
DatabasesButOne == db + 1 < Databases
MoreDatabases   == db < Databases

\* Each database is walked through a snapshot of its own.
NextDatabase ==
  /\ copy = "walk" /\ rest = {} /\ batch = <<>>
  /\ IF MoreDatabases
     THEN /\ db' = db + 1
          /\ rest' = {Record(k, master[k]) : k \in {k \in Keys : DatabaseOf[k] = db + 1 /\ master[k] # 0}}
          /\ records' = 0
          /\ UNCHANGED <<copy, answer>>
     ELSE Answer("1") /\ UNCHANGED <<db, rest, records>>
  /\ UNCHANGED <<source, replica, asking, batch, taking, threads, blocked, cut, kills>>

FlushDue == batch # <<>> /\ records % MaxPipeline = 0

MakeCommand ==
  /\ copy = "walk" /\ ~FlushDue
  /\ \E r \in rest : batch' = Append(batch, r) /\ rest' = rest \ {r}
  /\ records' = records + 1
  /\ UNCHANGED <<source, replica, asking, answer, copy, db, taking, threads, blocked, cut, kills>>

\* Full pipelines, and what is left at the end of a database.
Flush ==
  /\ copy = "walk" /\ (FlushDue \/ (rest = {} /\ batch # <<>>))
  /\ copy' = "send"
  /\ UNCHANGED <<source, replica, asking, answer, db, rest, batch, records, taking, threads, blocked, cut, kills>>

\* A blocking send goes on as the buffers empty.
Send ==
  /\ copy = "send" /\ Len(wire) < WireSize
  /\ wire' = Append(wire, Head(batch))
  /\ batch' = Tail(batch)
  /\ copy' = IF Len(batch) = 1 THEN "walk" ELSE copy
  /\ UNCHANGED <<source, replica, asking, answer, db, rest, records, conn, inbuf, replies, threads, blocked,
                 cut, kills>>

\* What was on its way to the slave may be lost.
WireCut == \E n \in 0..Len(wire) : wire' = SubSeq(wire, 1, n)

\* The locals of DBCopy::start go with it.
WalkEnds == db' = 0 /\ rest' = {} /\ batch' = <<>> /\ records' = 0

SendFails ==
  /\ copy = "send" /\ conn # "none" /\ kills < MaxKills
  /\ kills' = kills + 1
  /\ FailCopy
  /\ conn' = "none" /\ cut' = TRUE
  /\ WireCut /\ WalkEnds
  /\ UNCHANGED <<source, replica, asking, inbuf, replies, threads, blocked>>

MasterDies ==
  /\ copy \notin {"none", "gone"} /\ kills < MaxKills
  /\ kills' = kills + 1
  /\ copy' = "end"
  /\ answer' = IF answer = "none" THEN "lost" ELSE answer
  /\ conn' = "none"
  /\ cut' = (cut \/ copy # "end" \/ wire # <<>>)
  /\ WireCut /\ WalkEnds
  /\ UNCHANGED <<source, replica, asking, inbuf, replies, threads, blocked>>

\* The host or its network goes, and nobody tells the slave.
HostLost ==
  /\ copy \notin {"none", "gone"} /\ kills < MaxKills
  /\ kills' = kills + 1
  /\ copy' = "gone"
  /\ answer' \in {answer, "none"}
  /\ cut' = (cut \/ copy # "end" \/ wire # <<>>)
  /\ WireCut /\ WalkEnds
  /\ UNCHANGED <<source, replica, asking, conn, inbuf, replies, threads, blocked>>

-----------------------------------------------------------------------------
(* The connection from the master, on an event loop of the slave *)

LoopFree == conn = "own" => from \in {"none", "done"}

\* The loop waits to write its replies and does not read on.
RepliesStuck == conn # "none" /\ replies > ReplySize

Receive ==
  /\ wire # <<>> /\ inbuf = <<>>
  /\ LoopFree /\ ~RepliesStuck
  /\ \E n \in 1..Len(wire) :
       /\ inbuf' = SubSeq(wire, 1, n)
       /\ wire' = SubSeq(wire, n + 1, Len(wire))
  /\ UNCHANGED <<source, replica, asking, answer, sending, conn, replies, threads, blocked, cut, kills>>

\* A write waits for ever behind one that was cancelled in the same database.
Free(k) == DatabaseOf[k] \notin held

\* The record is in the database when its thread comes to the binlog's mutex.
RawSet ==
  /\ inbuf # <<>> /\ EventLoop \notin halted /\ Free(Head(inbuf).key)
  /\ replica' = [replica EXCEPT ![Head(inbuf).key] = Head(inbuf).value]
  /\ IF Binlog \in held
     THEN halted' = halted \cup {EventLoop} /\ UNCHANGED <<inbuf, replies>>
     ELSE inbuf' = Tail(inbuf) /\ replies' = replies + 1 /\ halted' = halted
  /\ UNCHANGED <<source, asking, answer, sending, wire, conn, threads, held, cut, kills>>

-----------------------------------------------------------------------------
(* Sync::run, with the thread's start and its cancellation *)

Run(i) ==
  /\ sync[i] = "created"
  /\ \/ ~emptied /\ sync' = [sync EXCEPT ![i] = "ask"] /\ isRunning' = TRUE
     \/ sync' = [sync EXCEPT ![i] = "off"] /\ isRunning' = FALSE
  /\ UNCHANGED <<source, replica, asking, answer, sending, taking, stream, upto, saved, emptied, cancelled,
                 dropped, overlap, blocked, cut, kills>>

Ask(i) ==
  /\ sync[i] = "ask" /\ i \notin cancelled
  /\ saved < Len(log)
  /\ \E n \in 1..MaxStream :
       /\ saved + n <= Len(log)
       /\ upto' = [upto EXCEPT ![i] = saved + n]
       /\ stream' = [stream EXCEPT ![i] = SubSeq(log, saved + 1, saved + n)]
  /\ sync' = [sync EXCEPT ![i] = "got"]
  /\ UNCHANGED <<source, replica, asking, answer, sending, taking, saved, emptied, isRunning, cancelled,
                 dropped, overlap, blocked, cut, kills>>

SaveInfo(i) ==
  /\ sync[i] = "got"
  /\ saved' = upto[i] /\ emptied' = FALSE
  /\ upto' = [upto EXCEPT ![i] = 0]
  /\ sync' = [sync EXCEPT ![i] = "apply"]
  /\ UNCHANGED <<source, replica, asking, answer, sending, taking, stream, isRunning, cancelled, dropped, overlap,
                 blocked, cut, kills>>

Apply(i) ==
  /\ sync[i] = "apply" /\ stream[i] # <<>> /\ i \notin halted /\ Free(Head(stream[i]).key)
  /\ replica' = [replica EXCEPT ![Head(stream[i]).key] = Head(stream[i]).value]
  /\ IF Binlog \in held
     THEN halted' = halted \cup {i} /\ stream' = stream
     ELSE stream' = [stream EXCEPT ![i] = Tail(@)] /\ halted' = halted
  /\ UNCHANGED <<source, asking, answer, sending, taking, sync, upto, saved, emptied, isRunning, cancelled,
                 dropped, overlap, held, cut, kills>>

Sleep(i) ==
  /\ sync[i] = "apply" /\ stream[i] = <<>>
  /\ sync' = [sync EXCEPT ![i] = "ask"]
  /\ UNCHANGED <<source, replica, asking, answer, sending, taking, stream, upto, saved, emptied, isRunning,
                 cancelled, dropped, overlap, blocked, cut, kills>>

\* Cancelled in a send, a receive or a sleep.
LeavesNothing(i) ==
  /\ sync[i] \in {"ask", "got"} \/ (sync[i] = "apply" /\ stream[i] = <<>>)
  /\ UNCHANGED <<replica, saved, emptied, dropped, held>>

Rest(i) == {r.key : r \in ToSet(stream[i])}

\* Cancelled while MASTER_INFO is written: it is empty, or names records not yet applied.
LeavesInfo(i) ==
  /\ sync[i] = "got"
  /\ saved' = upto[i] /\ emptied' \in BOOLEAN
  /\ dropped' = dropped \cup Rest(i)
  /\ UNCHANGED <<replica, held>>

\* Cancelled in leveldb's write, or behind it in the binlog's file.
LeavesLocked(i) ==
  /\ sync[i] = "apply" /\ stream[i] # <<>>
  /\ LET r == Head(stream[i]) IN
       \/ held' = held \cup {DatabaseOf[r.key]} /\ replica' = replica
       \/ /\ SlaveLogs
          /\ held' = held \cup {Binlog}
          /\ replica' = [replica EXCEPT ![r.key] = r.value]
  /\ dropped' = dropped \cup Rest(i)
  /\ UNCHANGED <<saved, emptied>>

Cancelled(i) ==
  /\ i \in cancelled /\ sync[i] # "off"
  /\ LeavesNothing(i) \/ LeavesInfo(i) \/ LeavesLocked(i)
  /\ sync' = [sync EXCEPT ![i] = "off"]
  /\ stream' = [stream EXCEPT ![i] = <<>>]
  /\ upto' = [upto EXCEPT ![i] = 0]
  /\ UNCHANGED <<source, asking, answer, sending, taking, isRunning, cancelled, overlap, halted, cut, kills>>

-----------------------------------------------------------------------------
Init ==
  /\ master \in Stocks
  /\ log = <<>>
  /\ replica = NoKeys
  /\ from = "none" /\ reply = "none" /\ answer = "none"
  /\ copy = "none" /\ db = 0 /\ rest = {} /\ batch = <<>> /\ records = 0
  /\ wire = <<>> /\ conn = "none" /\ inbuf = <<>> /\ replies = 0
  /\ sync = [i \in Syncs |-> IF i = 1 THEN "created" ELSE "off"]
  /\ stream = [i \in Syncs |-> <<>>] /\ upto = [i \in Syncs |-> 0] /\ saved = 0
  /\ emptied = FALSE /\ isRunning = FALSE /\ cancelled = {} /\ held = {} /\ halted = {}
  /\ during = {} /\ dropped = {} /\ cut = FALSE /\ overlap = FALSE /\ kills = 0

SyncFrom == Connect \/ SendCopy \/ Terminate \/ Restart
Copy     == Dial \/ NextDatabase \/ MakeCommand \/ Flush \/ Send
Loop     == Receive \/ RawSet
Sync(i)  == Run(i) \/ Ask(i) \/ SaveInfo(i) \/ Apply(i) \/ Sleep(i) \/ Cancelled(i)

Next ==
  \/ \E k \in Written : Write(k)
  \/ SyncFrom \/ Copy \/ Loop
  \/ \E i \in Syncs : Sync(i)
  \/ SendFails \/ MasterDies \/ HostLost

Spec == Init /\ [][Next]_vars

\* Threads are scheduled; clients need not write and nothing need fail.
FairSpec ==
  /\ Spec
  /\ WF_vars(SyncFrom) /\ WF_vars(Copy) /\ WF_vars(Loop)
  /\ \A i \in Syncs : WF_vars(Sync(i))

-----------------------------------------------------------------------------
(* Properties *)

\* Everything sent has been applied, and a sync thread has reached the end of the log.
Quiet ==
  /\ from = "done" /\ ~UnderWay
  /\ \E i \in Syncs : sync[i] = "ask" /\ i \notin cancelled
  /\ \A i \in Syncs : sync[i] \in {"off", "ask"}
  /\ saved = Len(log)

\* A copy in full is worth its name: when all is quiet again, the slave has every key
\* the master has, with the same value.  Excepted are keys that were written while the
\* copy was under way, when a copied record may overtake a newer one, and keys in the
\* rest of the stream that the cancelled sync thread had begun to apply.
CopyIsComplete ==
  reply = "ok" /\ ~cut /\ ~overlap /\ Quiet =>
    \A k \in Keys \ (during \cup dropped) : master[k] # 0 => replica[k] = master[k]

\* Two ways in which master and slave wait for each other: the connection of the copy
\* belongs to the very loop that SYNCFROM blocks, or replies that nobody reads have filled
\* the buffers.
WaitingForEachOther ==
  copy = "send" /\ Len(wire) = WireSize /\ (conn = "own" \/ RepliesStuck)

\* The third: RAWSETs wait behind a write that the cancelled sync thread was in.
BehindCancelled ==
  /\ copy = "send" /\ Len(wire) = WireSize /\ inbuf # <<>>
  /\ EventLoop \in halted \/ ~Free(Head(inbuf).key)

\* Otherwise, and but for a master whose host has gone without a word, SYNCFROM comes to
\* its end, and the blocked loop serves its clients again.
SyncFromEnds ==
  from = "waiting" ~> from = "done" \/ WaitingForEachOther \/ BehindCancelled \/ copy = "gone"

=============================================================================
