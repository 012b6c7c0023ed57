------------------------------ MODULE Replication ------------------------------
(***************************************************************************)
(* One slave that pulls the binlog of a master (BinlogStore) over TCP.     *)
(*                                                                         *)
(* The slave's Sync thread (src/src/sync.cpp) sends its cursor, the last   *)
(* file and record it has been given, in a __SYNC request; a worker thread *)
(* of the master (onSyncCommand, src/src/cmdhandler.cpp) walks the listed  *)
(* files from there and answers with the records and the cursor behind     *)
(* them; the slave writes the new cursor to MASTER_INFO and then applies   *)
(* the records one by one.  Either process may be killed, and the          *)
(* connection may break, at any point.                                     *)
(*                                                                         *)
(* A cursor [f, p] names record p, counted from 0, of file f; p is -1      *)
(* before the first record and f is 0 for the blank name of a new slave.   *)
(***************************************************************************)
EXTENDS BinlogStore

CONSTANTS
  StreamItems,   \* BinlogSyncStream::MaxStreamSize, counted in records
  MaxPullFaults, \* bound: lost connections, failed opens, crashes of the slave
  NoMsg          \* nothing in flight

ASSUME ReplicationAssumption ==
  /\ StreamItems \in Nat \ {0}
  /\ MaxPullFaults \in Nat
  /\ NoMsg \notin [f : Int, p : Int]
  /\ \A b \in BOOLEAN : NoMsg # [ok |-> b]

VARIABLES
  conn,          \* the connection is up
  req,           \* __SYNC request on its way
  rep,           \* reply on its way
  scan,          \* local state of onSyncCommand
  spc,           \* what the Sync thread does next
  cursor,        \* m_masterSyncInfo
  info,          \* MASTER_INFO on the slave's disk
  batch,         \* the records received last
  done,          \* how many of them have been applied
  sdb,           \* contents of the slave's databases
  pullFaults,    \* faults so far (bound)
  applied,       \* history: positions applied, in that order
  skipped,       \* history: records the master's walk has passed over
  dropped        \* history: records received and lost in a crash of the slave

slaveVars  == <<spc, cursor, info, batch, done, sdb>>
netVars    == <<conn, req, rep>>
accounts   == <<applied, skipped, dropped>>
pullVars   == <<netVars, scan, slaveVars, pullFaults, accounts>>
vars       == <<storeVars, pullVars>>

Cursor   == [f : Nat, p : Nat \cup {-1}]
Start    == [f |-> 0, p |-> -1]
Tagged   == [f : Nat, p : Nat, rec : Record]
InfoFile == {[state |-> "none"], [state |-> "empty"]} \cup [state : {"saved"}, c : Cursor]
IdleScan == [st |-> "idle"]
Thread   == {"down", "send", "recv", "save", "apply", "reconnect", "stopped"}

Here(r) == [f |-> r.f, p |-> r.p]

AtOrBefore(a, b) == a.f < b.f \/ (a.f = b.f /\ a.p <= b.p)

-----------------------------------------------------------------------------
(* The master: onSyncCommand *)

\* The name lookup; a blank name starts at the first file.  With no file in the
\* list the answer is what was asked.
SyncRequest ==
  /\ up /\ conn
  /\ req # NoMsg
  /\ scan = IdleScan
  /\ req' = NoMsg
  /\ LET f0    == IF req.f = 0 THEN fileList[1] ELSE req.f
         first == IF req.f = 0 THEN -1 ELSE req.p
     IN IF fileList = <<>>
        THEN /\ rep' = [ok |-> TRUE, last |-> req, out |-> <<>>, gap |-> {}]
             /\ UNCHANGED scan
        ELSE IF \E i \in DOMAIN fileList : fileList[i] = f0
        THEN /\ scan' = [st    |-> "walk",
                         first |-> first,
                         idx   |-> CHOOSE i \in DOMAIN fileList : fileList[i] = f0,
                         last  |-> [f |-> f0, p |-> req.p],
                         out   |-> <<>>,
                         gap   |-> {}]
             /\ UNCHANGED rep
        ELSE /\ rep' = [ok |-> FALSE]
             /\ UNCHANGED scan
  /\ UNCHANGED <<storeVars, conn, slaveVars, pullFaults, accounts>>

\* Index of the record after which the loop over a file with n records stops,
\* when `room' more records fit in the stream.
StopAt(n, first, room) ==
  IF n - 1 < first + room THEN n - 1 ELSE first + room

\* How many records the walk finds in file f: sync() has flushed the open one.
SizeUnsynced(f) == Len(OnDisk(f))
SizeRead(f)     == Len(files[f])

\* The first n records of file f can be read, and no more.
Readable(f, n) ==
  /\ n \in 0..SizeRead(f)
  /\ \A i \in 1..n : files[f][i] # Torn
  /\ n < SizeRead(f) => files[f][n + 1] = Torn

\* The records of file f after index `first' up to index `to'.
SliceAgain(f, first, to) ==
  LET from == IF first < 0 THEN 0 ELSE first
  IN [i \in 1 .. (IF to >= from THEN to - from + 1 ELSE 0) |->
        [f |-> f, p |-> from + i - 1, rec |-> files[f][from + i]]]

SliceLate(f, first, to) ==
  [i \in 1 .. (IF to > first + 1 THEN to - first - 1 ELSE 0) |->
     [f |-> f, p |-> first + i + 1, rec |-> files[f][first + i + 2]]]

Slice(f, first, to) ==
  [i \in 1 .. (IF to > first THEN to - first ELSE 0) |->
     [f |-> f, p |-> first + i, rec |-> files[f][first + i + 1]]]

\* Records of a file the walk leaves that were appended after it was read.
PassedOver(last) ==
  IF last.f \in 1..Len(files)
  THEN {[f |-> last.f, p |-> q] : q \in last.p + 1 .. Len(files[last.f]) - 1}
  ELSE {}

\* Lock, fflush and unlock, when the file is the open one.
SyncFile(f) ==
  /\ f = cur => LockFree
  /\ flushed' = IF f = cur THEN SizeRead(f) ELSE flushed
  /\ UNCHANGED <<up, db, threadVars, files, cur, fileList, index, writes, faults, history,
                 netVars, slaveVars, pullFaults, accounts>>

\* What the walk has after file f of which it has read up to index p.
Walked(st, f, p, items) ==
  [st    |-> st,
   first |-> -1,
   idx   |-> scan.idx + 1,
   last  |-> [f |-> f, p |-> p],
   out   |-> scan.out \o items,
   gap   |-> IF f = scan.last.f THEN scan.gap ELSE scan.gap \cup PassedOver(scan.last)]

\* fflush for the open file, stat and mmap, then the loop over the records
\* that were in the file at that moment.
WalkFile ==
  /\ up
  /\ scan.st = "walk"
  /\ scan.idx <= Len(fileList)
  /\ LET f    == fileList[scan.idx]
         room == StreamItems - Len(scan.out)
     IN \E n \in 0..SizeRead(f) :
          LET full == n - 1 >= scan.first + room
              stop == StopAt(n, scan.first, room)
          IN /\ Readable(f, n)
             /\ full \/ n = SizeRead(f)
             /\ SyncFile(f)
             /\ scan' = Walked(IF full THEN "reply" ELSE "walk", f, stop, Slice(f, scan.first, stop))

\* The loop comes to a record a kill has cut off.  Its item_size counts bytes
\* that were appended later, and from there on items are read that nobody
\* wrote.  Any number of them is one Torn record here, any index behind the
\* readable records that of the fragment.
WalkGarbage ==
  /\ up
  /\ scan.st = "walk"
  /\ scan.idx <= Len(fileList)
  /\ LET f    == fileList[scan.idx]
         room == StreamItems - Len(scan.out)
     IN \E n \in 0..SizeRead(f) - 1, st \in {"walk", "reply"} :
          /\ Readable(f, n)
          /\ n - 1 < scan.first + room
          /\ SyncFile(f)
          /\ \E junk \in {<<>>, <<[f |-> f, p |-> n, rec |-> Torn]>>} :
               /\ scan.first < n => junk # <<>>
               /\ scan' = Walked(st, f, n, Slice(f, scan.first, n - 1) \o junk)

\* An item of size 0 keeps nextItem where it is, and the worker for ever.  (A
\* size that leads out of the mapping ends the process: Killed.)
WalkLoops ==
  /\ up
  /\ scan.st = "walk"
  /\ scan.idx <= Len(fileList)
  /\ Damaged(fileList[scan.idx])
  /\ SyncFile(fileList[scan.idx])
  /\ scan' = [scan EXCEPT !.st = "loop"]

\* BinlogParser::open fails: the loop over the files is left.
WalkFails ==
  /\ scan.st = "walk"
  /\ scan.idx <= Len(fileList)
  /\ pullFaults < MaxPullFaults
  /\ pullFaults' = pullFaults + 1
  /\ scan' = [scan EXCEPT !.st = "reply"]
  /\ UNCHANGED <<storeVars, netVars, slaveVars, accounts>>

\* The stream is full or the list is at its end: setFinishedState.
SyncReply ==
  /\ scan # IdleScan
  /\ scan.st = "reply" \/ (scan.st = "walk" /\ scan.idx > Len(fileList))
  /\ rep' = [ok |-> TRUE, last |-> scan.last, out |-> scan.out, gap |-> scan.gap]
  /\ scan' = IdleScan
  /\ UNCHANGED <<storeVars, conn, req, slaveVars, pullFaults, accounts>>

-----------------------------------------------------------------------------
(* The network *)

\* What was in flight is gone, and the walk's reply has nowhere to go.
LoseConnection ==
  /\ conn' = FALSE
  /\ req' = NoMsg
  /\ rep' = NoMsg
  /\ scan' = IdleScan

Disconnect ==
  /\ conn
  /\ pullFaults < MaxPullFaults
  /\ pullFaults' = pullFaults + 1
  /\ LoseConnection
  /\ UNCHANGED <<storeVars, slaveVars, accounts>>

-----------------------------------------------------------------------------
(* The slave: Sync::run *)

\* Reads MASTER_INFO and connects; either may end the thread at once.
SlaveStart ==
  /\ spc = "down"
  /\ IF info.state = "empty"
     THEN spc' = "stopped" /\ UNCHANGED <<conn, cursor>>
     ELSE /\ cursor' = IF info.state = "none" THEN Start ELSE info.c
          /\ conn' = up
          /\ spc' = IF up THEN "send" ELSE "stopped"
  /\ UNCHANGED <<storeVars, scan, req, rep, info, batch, done, sdb, pullFaults, accounts>>

SlaveSend ==
  /\ spc = "send"
  /\ conn
  /\ req' = cursor
  /\ spc' = "recv"
  /\ UNCHANGED <<storeVars, scan, conn, rep, cursor, info, batch, done, sdb, pullFaults, accounts>>

\* A failed send or recv.
SlaveNotices ==
  /\ spc \in {"send", "recv"}
  /\ ~conn
  /\ spc' = "reconnect"
  /\ UNCHANGED <<storeVars, scan, netVars, cursor, info, batch, done, sdb, pullFaults, accounts>>

\* repairConnect tries until the master accepts.
SlaveReconnect ==
  /\ spc = "reconnect"
  /\ up
  /\ conn' = TRUE
  /\ spc' = "send"
  /\ UNCHANGED <<storeVars, scan, req, rep, cursor, info, batch, done, sdb, pullFaults, accounts>>

\* The whole stream has arrived.  The new cursor is taken over and
\* TextConfigFile::write empties MASTER_INFO ...
SlaveRecv ==
  /\ spc = "recv"
  /\ conn
  /\ rep # NoMsg
  /\ rep' = NoMsg
  /\ IF rep.ok
     THEN /\ cursor' = rep.last
          /\ batch' = rep.out
          /\ done' = 0
          /\ info' = [state |-> "empty"]
          /\ skipped' = skipped \cup rep.gap
          /\ spc' = "save"
     ELSE /\ spc' = "stopped"
          /\ UNCHANGED <<cursor, batch, done, info, skipped>>
  /\ UNCHANGED <<storeVars, scan, conn, req, sdb, pullFaults, applied, dropped>>

\* ... and writes the cursor into it, before the records are applied.
SlaveSave ==
  /\ spc = "save"
  /\ info' = [state |-> "saved", c |-> cursor]
  /\ spc' = "apply"
  /\ UNCHANGED <<storeVars, scan, netVars, cursor, batch, done, sdb, pullFaults, accounts>>

\* _onSetCommand / _onDelCommand; what nobody wrote may decode as anything.
Stored(rec) == [sdb EXCEPT ![rec.key] = rec.val]

EffectOfSets(rec) == IF rec # Torn /\ rec.val # Absent THEN {Stored(rec)} ELSE {sdb}

Effect(rec) == IF rec # Torn THEN {Stored(rec)} ELSE [Keys -> Values \cup {Absent}]

SlaveApply ==
  /\ spc = "apply"
  /\ done < Len(batch)
  /\ LET r == batch[done + 1]
     IN /\ sdb' \in Effect(r.rec)
        /\ applied' = IF r.rec # Torn THEN Append(applied, Here(r)) ELSE applied
  /\ done' = done + 1
  /\ UNCHANGED <<storeVars, scan, netVars, spc, cursor, info, batch, pullFaults, skipped, dropped>>

\* The batch is done: sleep for m_syncInterval, then ask again.
SlaveSleep ==
  /\ spc = "apply"
  /\ done = Len(batch)
  /\ spc' = "send"
  /\ batch' = <<>>
  /\ done' = 0
  /\ UNCHANGED <<storeVars, scan, netVars, cursor, info, sdb, pullFaults, accounts>>

\* The slave's process dies; a guard starts it again (SlaveStart).
SlaveCrash ==
  /\ spc # "down"
  /\ pullFaults < MaxPullFaults
  /\ pullFaults' = pullFaults + 1
  /\ LoseConnection
  /\ spc' = "down"
  /\ dropped' = dropped \cup {Here(batch[i]) : i \in done + 1 .. Len(batch)}
  /\ batch' = <<>>
  /\ done' = 0
  /\ UNCHANGED <<storeVars, cursor, info, sdb, applied, skipped>>

-----------------------------------------------------------------------------
Init ==
  /\ StoreInit
  /\ conn = FALSE
  /\ req = NoMsg
  /\ rep = NoMsg
  /\ scan = IdleScan
  /\ spc = "down"
  /\ cursor = Start
  /\ info = [state |-> "none"]
  /\ batch = <<>>
  /\ done = 0
  /\ sdb = [k \in Keys |-> Absent]
  /\ pullFaults = 0
  /\ applied = <<>>
  /\ skipped = {}
  /\ dropped = {}

MasterStep == StoreStep /\ UNCHANGED pullVars

MasterCrash == Crash /\ LoseConnection /\ UNCHANGED <<slaveVars, pullFaults, accounts>>

Serve == SyncRequest \/ WalkFile \/ WalkGarbage \/ WalkLoops \/ WalkFails \/ SyncReply

Pull ==
  \/ SlaveStart \/ SlaveSend \/ SlaveNotices \/ SlaveReconnect
  \/ SlaveRecv \/ SlaveSave \/ SlaveApply \/ SlaveSleep

Next == MasterStep \/ MasterCrash \/ Serve \/ Disconnect \/ Pull \/ SlaveCrash

Spec == Init /\ [][Next]_vars

\* Threads of a running process are scheduled, the guard process restarts a
\* dead server, and the Sync thread retries for ever.  Requests and faults may
\* stop coming.
Fairness ==
  /\ \A t \in Threads : WF_vars(ThreadStep(t) /\ UNCHANGED pullVars)
  /\ WF_vars(Restart /\ UNCHANGED pullVars)
  /\ WF_vars(SyncRequest \/ WalkFile \/ WalkGarbage \/ SyncReply)
  /\ WF_vars(Pull)

FairSpec == Spec /\ Fairness

-----------------------------------------------------------------------------
(* Properties *)

Scan == [st : {"walk", "reply", "loop"}, first : Nat \cup {-1}, idx : Nat, last : Cursor,
         out : Seq(Tagged), gap : SUBSET Position]

Reply == {[ok |-> FALSE]} \cup
         [ok : {TRUE}, last : Cursor, out : Seq(Tagged), gap : SUBSET Position]

TypeOK ==
  /\ StoreTypeOK
  /\ conn \in BOOLEAN
  /\ req \in Cursor \cup {NoMsg}
  /\ rep \in Reply \cup {NoMsg}
  /\ scan \in Scan \cup {IdleScan}
  /\ spc \in Thread
  /\ cursor \in Cursor
  /\ info \in InfoFile
  /\ batch \in Seq(Tagged)
  /\ done \in 0..Len(batch)
  /\ sdb \in [Keys -> Values \cup {Absent}]
  /\ pullFaults \in 0..MaxPullFaults
  /\ applied \in Seq(Position)
  /\ skipped \in SUBSET Position
  /\ dropped \in SUBSET Position

\* The positions of the records that can be read, in the files of S.
Recorded(S) == {a \in Positions(S) : files[a.f][a.p + 1] # Torn}

\* A record the cursor of a running slave has passed is applied or waits in the
\* batch, or one of three things has happened to it: it went down with a crashed
\* slave between MASTER_INFO and the database; it was appended to a file after
\* the walk of onSyncCommand had read it and before the walk went on to the next
\* file; or a kill cut its file out of BINLOG_INDEX.  A cursor whose own file
\* was cut out says nothing: the next __SYNC stops the slave.
EveryRecordAccounted ==
  \A a \in Recorded(DOMAIN files) :
    AtOrBefore(a, cursor) /\ cursor.f \notin forgotten /\ spc \notin {"down", "stopped"} =>
      \/ \E i \in DOMAIN applied : applied[i] = a
      \/ \E i \in done + 1 .. Len(batch) : Here(batch[i]) = a
      \/ a \in skipped \cup dropped
      \/ a.f \in forgotten

\* A cursor the slave has on disk or in flight never runs ahead of what the
\* master would still have after a crash: onSyncCommand flushes the open file
\* before it reads it.
CursorOnDisk ==
  \A c \in {cursor} \cup (IF info.state = "saved" THEN {info.c} ELSE {}) :
    c.f # 0 => c.f \in DOMAIN files /\ c.p < Len(OnDisk(c.f))

\* When everything in the log has been applied the slave's databases equal the
\* master's, but for the keys LogReproducesDb excepts.
ReplicaEqualsMaster ==
  (\A a \in Positions(Known) : \E i \in DOMAIN applied : applied[i] = a)
  /\ (\A f \in DOMAIN files : ~Damaged(f))
    => \A k \in Keys \ (raced \cup unlogged) :
         (\A t \in Threads : pc[t] = "append" => op[t].key # k) => sdb[k] = db[k]

\* The listed records the slave has neither applied nor lost.
Outstanding ==
  {a \in Recorded(Range(fileList)) :
     (\A i \in DOMAIN applied : applied[i] # a) /\ a \notin skipped \cup dropped}

\* Once requests and faults are over, the slave gets everything: repeated
\* polling, reconnecting and restarting never leave it behind for good.  Only
\* after a fault can the Sync thread have ended (no master at the first
\* connect, an emptied MASTER_INFO, a file name the master has lost), and only
\* while a file with a record cut off by a kill is listed may a walk, and with
\* it the slave that waits for its reply, not come to an end.
CatchesUp ==
  <>[](\/ Outstanding = {}
       \/ spc = "stopped" /\ faults + pullFaults > 0
       \/ \E f \in Range(fileList) : Damaged(f))

\* What the slave applies is shipped in the order of a log that grows behind
\* all it holds and loses records only with a file that a kill cuts out of
\* BINLOG_INDEX: in the master's order and none twice, whatever connections
\* break, requests are repeated or processes die.
Shipping ==
  INSTANCE LogShipping WITH
    log <- {a \in Recorded(DOMAIN files \ forgotten) : a.p < Len(OnDisk(a.f))},
    lost <- {a \in Recorded(DOMAIN files \cap forgotten) : a.p < Len(OnDisk(a.f))},
    delivered <- applied

ImplementsLogShipping == Shipping!Spec

\* The binlog serves "master-slave synchronisation" (doc/OneValue.pdf): every
\* record the slave's cursor has passed has reached the slave.
NothingPassedOver ==
  \A a \in Recorded(Range(fileList)) :
    AtOrBefore(a, cursor) =>
      \/ \E i \in DOMAIN applied : applied[i] = a
      \/ \E i \in done + 1 .. Len(batch) : Here(batch[i]) = a

=============================================================================
