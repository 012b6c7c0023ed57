------------------------------ MODULE BinlogStore ------------------------------
(***************************************************************************)
(* The write path of LeveldbCluster (src/src/leveldb.cpp) and its binlog   *)
(* (src/src/binlog.cpp): worker threads, the TTL thread and the slave's    *)
(* sync thread all write through setValue and remove, which change the     *)
(* database first and append to the shared binlog afterwards, under        *)
(* m_binlogMutex.  The binlog is a list of append-only files; the last one *)
(* is open behind a stdio buffer, and the names are kept in memory and in  *)
(* BINLOG_INDEX.  The process may be killed between any two steps and is   *)
(* started again by the guard process.                                     *)
(*                                                                         *)
(* The databases are one function db: which leveldb a key lives in is a    *)
(* fixed function of the key, Databases the key sets of each.  A file is   *)
(* named by the number of names made before it, plus one; the random part  *)
(* of its name is left out.                                                *)
(***************************************************************************)
EXTENDS Integers, Sequences, SequencesExt, Functions

CONSTANTS
  Keys,          \* database keys
  Databases,     \* the keys of each leveldb, a set of sets
  Values,        \* values a key may hold
  Absent,        \* no value
  Torn,          \* a record that cannot be decoded any more
  NoRecord,      \* nothing to log
  Threads,       \* the threads that write
  NoThread,      \* m_binlogMutex is free
  MaxFileItems,  \* maxBinlogSize, counted in records
  MaxWrites,     \* bound: write requests and FLUSHDBs
  MaxFaults      \* bound: kills and files that cannot be opened or written

ASSUME StoreAssumption ==
  /\ UNION Databases = Keys
  /\ Absent \notin Values
  /\ Torn \notin [key : Keys, val : Values \cup {Absent}]
  /\ NoRecord \notin [key : Keys, val : Values \cup {Absent}]
  /\ NoThread \notin Threads
  /\ MaxFileItems \in Nat \ {0}
  /\ MaxWrites \in Nat
  /\ MaxFaults \in Nat

VARIABLES
  up,            \* the process runs
  db,            \* contents of the databases
  pc,            \* what each thread does next
  op,            \* the record each thread still has to log
  flushing,      \* databases a FLUSHDB of the thread has not come to yet
  clearing,      \* keys it still has to delete in the one it is at
  binlogMutex,   \* holder of m_binlogMutex
  files,         \* every binlog file ever named: its records
  cur,           \* m_curBinlog: the open file, 0 for none
  flushed,       \* records of the open file that have left the stdio buffer
  fileList,      \* m_binlogFileList
  index,         \* BINLOG_INDEX on disk
  writes,        \* requests so far (bound)
  faults,        \* faults so far (bound)
  raced,         \* history: keys written by two threads at the same time
  unlogged,      \* history: keys whose last write may be missing in the binlog
  unsaved,       \* history: the last rewriting of BINLOG_INDEX has failed
  forgotten      \* history: files a kill has cut out of BINLOG_INDEX

threadVars == <<pc, op, flushing, clearing, binlogMutex>>
logVars    == <<files, cur, flushed, fileList, index>>
history    == <<raced, unlogged, unsaved, forgotten>>
storeVars  == <<up, db, threadVars, logVars, writes, faults, history>>

NoFile   == 0
Item     == [key : Keys, val : Values \cup {Absent}]
Record   == Item \cup {Torn}
Position == [f : Nat, p : Nat]
Stages   == {"idle", "clear", "append", "rotate", "publish", "truncate", "save"}

\* The stages a thread passes through with m_binlogMutex held.
LockedStages == {"rotate", "publish", "truncate", "save"}

\* The records of file f that the operating system has.
OnDisk(f) == IF f = cur THEN SubSeq(files[f], 1, flushed) ELSE files[f]

\* The files the program knows of: the list in memory, and for the process that
\* comes after a kill the one on disk.
Known == Range(IF up THEN fileList ELSE index)

\* Positions of all records of the files in S, counted from 0 as the code does.
Positions(S) == UNION {{[f |-> g, p |-> i - 1] : i \in 1..Len(files[g])} : g \in S}

Before(a, b) == a.f < b.f \/ (a.f = b.f /\ a.p < b.p)

\* A file once torn stays undecodable from there on: later records are
\* appended behind the fragment and are read from the wrong offset.
Damaged(f) == \E i \in 1..Len(files[f]) : files[f][i] = Torn

-----------------------------------------------------------------------------
\* The record of a write; a removal is logged like any other.
SetsOnly(k, v) == IF v = Absent THEN NoRecord ELSE [key |-> k, val |-> v]
LogItem(k, v)  == [key |-> k, val |-> v]

\* Leveldb::setValue / remove inside LeveldbCluster::setValue / remove: the
\* database changes here, the log record follows in AppendRecord.
WriteDb(t, k, v) ==
  /\ up
  /\ pc[t] = "idle"
  /\ writes < MaxWrites
  /\ writes' = writes + 1
  /\ db' = [db EXCEPT ![k] = v]
  /\ op' = [op EXCEPT ![t] = LogItem(k, v)]
  /\ pc' = [pc EXCEPT ![t] = "append"]
  /\ raced' = IF \E u \in Threads \ {t} : pc[u] = "append" /\ op[u].key = k
              THEN raced \cup {k} ELSE raced
  /\ UNCHANGED <<up, flushing, clearing, binlogMutex, logVars, faults, unlogged, unsaved, forgotten>>

SetValue(t, k, v) == v \in Values /\ WriteDb(t, k, v)

RemoveKey(t, k) == WriteDb(t, k, Absent)

\* LeveldbCluster::clear (FLUSHDB): one database after the other, each by what
\* an iterator snapshot shows when its turn has come, key by key, directly in
\* the database and without a log record.
Clear(t) ==
  /\ up
  /\ pc[t] = "idle"
  /\ writes < MaxWrites
  /\ writes' = writes + 1
  /\ pc' = [pc EXCEPT ![t] = "clear"]
  /\ flushing' = [flushing EXCEPT ![t] = Databases]
  /\ UNCHANGED <<up, db, op, clearing, binlogMutex, logVars, faults, history>>

ClearDatabase(t, d) ==
  /\ pc[t] = "clear"
  /\ clearing[t] = {}
  /\ d \in flushing[t]
  /\ flushing' = [flushing EXCEPT ![t] = @ \ {d}]
  /\ clearing' = [clearing EXCEPT ![t] = {k \in d : db[k] # Absent}]
  /\ UNCHANGED <<up, db, pc, op, binlogMutex, logVars, writes, faults, history>>

ClearKey(t, k) ==
  /\ pc[t] = "clear"
  /\ k \in clearing[t]
  /\ db' = [db EXCEPT ![k] = Absent]
  /\ clearing' = [clearing EXCEPT ![t] = @ \ {k}]
  /\ unlogged' = unlogged \cup {k}
  /\ UNCHANGED <<up, pc, op, flushing, binlogMutex, logVars, writes, faults, raced, unsaved, forgotten>>

ClearDone(t) ==
  /\ pc[t] = "clear"
  /\ clearing[t] = {}
  /\ flushing[t] = {}
  /\ pc' = [pc EXCEPT ![t] = "idle"]
  /\ UNCHANGED <<up, db, op, flushing, clearing, binlogMutex, logVars, writes, faults, history>>

\* lockCurrentBinlogFile goes through.
LockFree  == binlogMutex = NoThread

\* What lands in file f when item is appended to it.
AsStored(f, item) == IF Damaged(f) THEN Torn ELSE item

Full(f) == Len(files[f]) + 1 >= MaxFileItems

\* lockCurrentBinlogFile; append{Set,Del}Record; the size test of
\* ajustCurrentBinlogFile, which keeps the lock when the file is full.
AppendRecord(t) ==
  /\ pc[t] = "append"
  /\ LockFree
  /\ cur # NoFile
  /\ files' = [files EXCEPT ![cur] = Append(@, AsStored(cur, op[t]))]
  /\ op' = [op EXCEPT ![t] = NoRecord]
  /\ unlogged' = IF Damaged(cur) THEN unlogged \cup {op[t].key} ELSE unlogged
  /\ IF Full(cur)
     THEN /\ pc' = [pc EXCEPT ![t] = "rotate"]
          /\ binlogMutex' = t
     ELSE /\ pc' = [pc EXCEPT ![t] = "idle"]
          /\ UNCHANGED binlogMutex
  /\ UNCHANGED <<up, db, flushing, clearing, cur, flushed, fileList, index, writes, faults,
                 raced, unsaved, forgotten>>

\* ajustCurrentBinlogFile: the full file is closed (flushed) and the next opened.
Rotate(t) ==
  /\ pc[t] = "rotate"
  /\ files' = Append(files, <<>>)
  /\ cur' = Len(files) + 1
  /\ flushed' = 0
  /\ pc' = [pc EXCEPT ![t] = "publish"]
  /\ UNCHANGED <<up, db, op, flushing, clearing, binlogMutex, fileList, index, writes, faults, history>>

\* The same with a failing fopen: no file is open afterwards.
RotateFails(t) ==
  /\ pc[t] = "rotate"
  /\ faults < MaxFaults
  /\ faults' = faults + 1
  /\ cur' = NoFile
  /\ flushed' = 0
  /\ pc' = [pc EXCEPT ![t] = "idle"]
  /\ binlogMutex' = NoThread
  /\ UNCHANGED <<up, db, op, flushing, clearing, files, fileList, index, writes, history>>

\* BinlogFileList::appendFileName.
PublishName(t) ==
  /\ pc[t] = "publish"
  /\ fileList' = Append(fileList, cur)
  /\ pc' = [pc EXCEPT ![t] = "truncate"]
  /\ UNCHANGED <<up, db, op, flushing, clearing, binlogMutex, files, cur, flushed, index,
                 writes, faults, history>>

\* BinlogFileList::saveToFile: fopen("w") empties BINLOG_INDEX ...
TruncateIndex(t) ==
  /\ pc[t] = "truncate"
  /\ index' = <<>>
  /\ pc' = [pc EXCEPT ![t] = "save"]
  /\ UNCHANGED <<up, db, op, flushing, clearing, binlogMutex, files, cur, flushed, fileList,
                 writes, faults, history>>

\* ... stdio writes out a full buffer of names ...
WriteNames(t) ==
  /\ pc[t] = "save"
  /\ index = <<>>
  /\ \E n \in 1 .. Len(fileList) - 1 : index' = SubSeq(fileList, 1, n)
  /\ UNCHANGED <<up, db, threadVars, files, cur, flushed, fileList, writes, faults, history>>

\* ... which may end within a name: what is left of it is the name of a file of
\* its own, which a start that reads it makes ...
CutName(t) ==
  /\ pc[t] = "save"
  /\ index = <<>>
  /\ \E n \in 1 .. Len(fileList) - 1 : index' = Append(SubSeq(fileList, 1, n), Len(files) + 1)
  /\ files' = Append(files, <<>>)
  /\ UNCHANGED <<up, db, threadVars, cur, flushed, fileList, writes, faults, history>>

\* ... and fclose writes the rest; then unlockCurrentBinlogFile.
ButLast(list) == Front(list)
Saved(list)   == list

SaveIndex(t) ==
  /\ pc[t] = "save"
  /\ index' = Saved(fileList)
  /\ pc' = [pc EXCEPT ![t] = "idle"]
  /\ binlogMutex' = NoThread
  /\ unsaved' = FALSE
  /\ UNCHANGED <<up, db, op, flushing, clearing, files, cur, flushed, fileList, writes, faults,
                 raced, unlogged, forgotten>>

\* fopen or fclose fails, which nobody looks at.
IndexFails(t) ==
  /\ pc[t] \in {"truncate", "save"}
  /\ faults < MaxFaults
  /\ faults' = faults + 1
  /\ pc' = [pc EXCEPT ![t] = "idle"]
  /\ binlogMutex' = NoThread
  /\ unsaved' = TRUE
  /\ UNCHANGED <<up, db, op, flushing, clearing, logVars, writes, raced, unlogged, forgotten>>

\* stdio writes out a full buffer whenever it likes.
StdioFlush ==
  /\ up
  /\ cur # NoFile
  /\ \E n \in flushed + 1 .. Len(files[cur]) : flushed' = n
  /\ UNCHANGED <<up, db, threadVars, files, cur, fileList, index, writes, faults, history>>

-----------------------------------------------------------------------------
\* The files no start will find when the process dies now: BINLOG_INDEX is being
\* rewritten, or has not been since its last rewriting failed.
Forgotten ==
  IF unsaved \/ \E t \in Threads : pc[t] \in {"truncate", "save"}
  THEN Range(fileList) \ Range(index)
  ELSE {}

\* The keys whose logged value is lost when the process dies now.
LostKeys ==
  {op[t].key : t \in {u \in Threads : pc[u] = "append"}}
    \cup (UNION {{files[f][i].key : i \in {j \in DOMAIN files[f] : files[f][j] # Torn}} : f \in Forgotten})
    \cup (IF cur = NoFile THEN {}
          ELSE {files[cur][i].key : i \in {j \in flushed + 1 .. Len(files[cur]) :
                                             files[cur][j] # Torn}})

\* What is left of the files: the stdio buffer is gone, and its first record
\* may have been written in part.
Survivors(torn) ==
  IF cur = NoFile THEN files
  ELSE [files EXCEPT ![cur] = OnDisk(cur) \o (IF torn THEN <<Torn>> ELSE <<>>)]

\* The process dies: threads, locks and memory are gone.  leveldb has written
\* its own log at every Put, so db survives.
ProcessDies ==
  /\ up
  /\ up' = FALSE
  /\ \E torn \in BOOLEAN :
       /\ torn => cur # NoFile /\ flushed < Len(files[cur])
       /\ files' = Survivors(torn)
  /\ unlogged' = unlogged \cup LostKeys
  /\ forgotten' = forgotten \cup Forgotten
  /\ unsaved' = FALSE
  /\ pc' = [t \in Threads |-> "idle"]
  /\ op' = [t \in Threads |-> NoRecord]
  /\ flushing' = [t \in Threads |-> {}]
  /\ clearing' = [t \in Threads |-> {}]
  /\ binlogMutex' = NoThread
  /\ cur' = NoFile
  /\ flushed' = 0
  /\ fileList' = <<>>
  /\ UNCHANGED <<db, index, writes, raced>>

Killed == faults < MaxFaults /\ faults' = faults + 1 /\ ProcessDies

\* fwrite to the FILE* that a failed rotation or start left NULL.
AppendToClosed(t) ==
  /\ pc[t] = "append"
  /\ LockFree
  /\ cur = NoFile
  /\ ProcessDies
  /\ UNCHANGED faults

\* Which of the listed files initBinlog opens again.
FirstListed == Head(index)
Reopened    == Last(index)

\* What fopen("a+") makes of a file that holds s.
OpenedForWriting(s) == <<>>
Opened(s)           == s

\* LeveldbCluster::start and initBinlog, run by the guard's next child: no
\* request is served before it is complete, so it is one step.
Restart ==
  /\ ~up
  /\ up' = TRUE
  /\ IF index = <<>>
     THEN /\ files' = Append(files, <<>>)
          /\ cur' = Len(files) + 1
          /\ fileList' = <<cur'>>
          /\ index' = fileList'
          /\ flushed' = 0
     ELSE /\ fileList' = index
          /\ cur' = Reopened
          /\ files' = [files EXCEPT ![cur'] = Opened(@)]
          /\ flushed' = Len(files'[cur'])
          /\ UNCHANGED index
  /\ UNCHANGED <<db, threadVars, writes, faults, history>>

\* The same when the file cannot be opened: start takes no notice.
StartUnlogged ==
  /\ ~up
  /\ faults < MaxFaults
  /\ faults' = faults + 1
  /\ up' = TRUE
  /\ fileList' = index
  /\ UNCHANGED <<db, threadVars, files, cur, flushed, index, writes, history>>

\* The same when a first file is made but BINLOG_INDEX cannot be written.
StartUnsaved ==
  /\ ~up
  /\ index = <<>>
  /\ faults < MaxFaults
  /\ faults' = faults + 1
  /\ up' = TRUE
  /\ files' = Append(files, <<>>)
  /\ cur' = Len(files) + 1
  /\ flushed' = 0
  /\ fileList' = <<cur'>>
  /\ unsaved' = TRUE
  /\ UNCHANGED <<db, threadVars, index, writes, raced, unlogged, forgotten>>

-----------------------------------------------------------------------------
StoreInit ==
  /\ up = TRUE
  /\ db = [k \in Keys |-> Absent]
  /\ pc = [t \in Threads |-> "idle"]
  /\ op = [t \in Threads |-> NoRecord]
  /\ flushing = [t \in Threads |-> {}]
  /\ clearing = [t \in Threads |-> {}]
  /\ binlogMutex = NoThread
  /\ files = << <<>> >>
  /\ cur = 1
  /\ flushed = 0
  /\ fileList = <<1>>
  /\ index = <<1>>
  /\ writes = 0
  /\ faults = 0
  /\ raced = {}
  /\ unlogged = {}
  /\ unsaved = FALSE
  /\ forgotten = {}

\* A request in progress goes on.
ThreadStep(t) ==
  \/ \E d \in Databases : ClearDatabase(t, d)
  \/ \E k \in Keys : ClearKey(t, k)
  \/ ClearDone(t)
  \/ AppendRecord(t)
  \/ Rotate(t)
  \/ PublishName(t)
  \/ TruncateIndex(t)
  \/ SaveIndex(t)

Request(t) ==
  \/ \E k \in Keys, v \in Values : SetValue(t, k, v)
  \/ \E k \in Keys : RemoveKey(t, k)
  \/ Clear(t)

\* What the disk and stdio may do to a thread that rotates.
FileStep(t) == RotateFails(t) \/ WriteNames(t) \/ CutName(t) \/ IndexFails(t)

\* The steps that leave the process alive.
StoreStep ==
  \/ \E t \in Threads : Request(t) \/ ThreadStep(t) \/ FileStep(t)
  \/ StdioFlush
  \/ Restart \/ StartUnlogged \/ StartUnsaved

Crash == Killed \/ \E t \in Threads : AppendToClosed(t)

StoreNext == StoreStep \/ Crash

StoreSpec == StoreInit /\ [][StoreNext]_storeVars

-----------------------------------------------------------------------------
(* Properties *)

StoreTypeOK ==
  /\ up \in BOOLEAN
  /\ db \in [Keys -> Values \cup {Absent}]
  /\ pc \in [Threads -> Stages]
  /\ op \in [Threads -> Item \cup {NoRecord}]
  /\ \A t \in Threads : pc[t] = "append" => op[t] \in Item
  /\ flushing \in [Threads -> SUBSET Databases]
  /\ clearing \in [Threads -> SUBSET Keys]
  /\ binlogMutex \in Threads \cup {NoThread}
  /\ files \in Seq(Seq(Record))
  /\ cur \in 0..Len(files)
  /\ flushed \in Nat
  /\ fileList \in Seq(Nat)
  /\ index \in Seq(Nat)
  /\ writes \in 0..MaxWrites
  /\ faults \in 0..MaxFaults
  /\ raced \in SUBSET Keys
  /\ unlogged \in SUBSET Keys
  /\ unsaved \in BOOLEAN
  /\ forgotten \in SUBSET Nat

\* The value of k after replaying, in order, the files the program knows.
LoggedValue(k) ==
  LET Mine == {a \in Positions(Known) :
                 LET r == files[a.f][a.p + 1] IN r # Torn /\ r.key = k}
      Newest == CHOOSE a \in Mine : \A b \in Mine : ~Before(a, b)
  IN IF Mine = {} THEN Absent ELSE files[Newest.f][Newest.p + 1].val

\* Replaying the binlog gives the databases (setValue and remove log what they
\* wrote, whatever the rotation, restart or flush in between), except for keys
\* two threads wrote at the same time, keys of FLUSHDB, keys whose record a
\* kill has taken from the buffer or that was appended behind a torn one, and
\* keys with a record in a file that a kill has cut out of BINLOG_INDEX.
LogReproducesDb ==
  \A k \in Keys \ (raced \cup unlogged) :
    (\A t \in Threads : pc[t] = "append" => op[t].key # k) => db[k] = LoggedValue(k)

\* A file that holds records is in the list the program and its slaves go by,
\* after a kill in the one the next start reads: ajustCurrentBinlogFile lists
\* and saves a name before a record follows.  There is one exception, and it
\* has a cause: saveToFile empties BINLOG_INDEX before it writes it and reports
\* no failure, so a kill within it, or at any time after it has failed, loses
\* the names that are not on disk then, for good.
RecordsAreListed ==
  \A f \in DOMAIN files : files[f] # <<>> => f \in Known \cup forgotten

\* Once the operating system has a record, no rotation, crash or restart takes
\* it away, moves it or puts anything else in its place.
DurableRecordsStay ==
  [][\A f \in DOMAIN files :
        /\ f \in DOMAIN files'
        /\ Len(OnDisk(f)) <= Len(OnDisk(f)')
        /\ \A i \in DOMAIN OnDisk(f) : OnDisk(f)[i] = OnDisk(f)'[i]]_storeVars

=============================================================================
