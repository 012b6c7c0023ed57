--------------------------- MODULE ReplicationProofs ---------------------------
(***************************************************************************)
(* Proofs about Replication for any threads, keys, values, file and stream *)
(* sizes and any number of requests and faults: types, the cursor, what    *)
(* becomes of every record, and that the slave implements LogShipping.     *)
(***************************************************************************)
EXTENDS Replication, BinlogStoreProofs

-----------------------------------------------------------------------------
(* The cursors the master gives out *)

\* A cursor that has been given out: its record is durable, no record before it is torn, and
\* its file is listed unless a kill has cut it out of BINLOG_INDEX.
Given(c) ==
  /\ c \in Cursor
  /\ c.f = 0 => c.p = -1
  /\ c.f # 0 => /\ c.f \in DOMAIN files /\ c.p < Kept(c.f)
                /\ c.f \in forgotten \/ Listed(c.f)
                /\ \A i \in 1..c.p : files[c.f][i] # Torn

-----------------------------------------------------------------------------
(* The slave and the connection *)

PullTypeOK ==
  /\ conn \in BOOLEAN
  /\ req \in Cursor \cup {NoMsg}
  /\ rep \in Reply \cup {NoMsg}
  /\ scan \in Scan \cup {IdleScan}
  /\ spc \in Thread
  /\ cursor \in Cursor
  /\ info \in InfoFile
  /\ batch \in Seq(Tagged)
  /\ done \in 0..Len(batch)
  /\ sdb \in [Keys -> Values \cup {Absent}]
  /\ pullFaults \in 0..MaxPullFaults
  /\ applied \in Seq(Position)
  /\ skipped \in SUBSET Position
  /\ dropped \in SUBSET Position

\* One request at most is under way, and only while the slave waits for it.
NetInv ==
  /\ up \/ ~conn
  /\ ~conn \/ spc # "recv" => req = NoMsg /\ rep = NoMsg /\ scan = IdleScan
  /\ req # NoMsg => req = cursor /\ rep = NoMsg /\ scan = IdleScan
  /\ scan # IdleScan => rep = NoMsg

\* The stages in which the slave goes by its cursor.
Pulling == {"send", "recv", "reconnect", "save", "apply"}

SlaveInv ==
  /\ spc \notin {"save", "apply"} => batch = <<>> /\ done = 0
  /\ spc \in {"send", "recv", "reconnect", "apply"} =>
       \/ info.state = "none" /\ cursor = Start
       \/ info.state = "saved" /\ info.c = cursor
  /\ spc = "apply" => info.state = "saved"
  /\ spc = "save" => info.state = "empty"
  /\ info.state = "none" => applied = <<>>

SavedCursor    == IF info.state = "saved" THEN {info.c} ELSE {}
Followed == SavedCursor \cup (IF spc \in Pulling THEN {cursor} ELSE {})
Underway == (IF scan # IdleScan THEN {scan} ELSE {}) \cup (IF rep # NoMsg /\ rep.ok THEN {rep} ELSE {})
GivenOut == {cursor} \cup SavedCursor \cup {s.last : s \in Underway}

GivenInv == \A c \in GivenOut : Given(c)

\* The walk stands behind the file its cursor names, or at it before the first round.
ScanInv ==
  scan # IdleScan =>
    /\ Len(scan.out) <= StreamItems
    /\ scan.idx \in 1..Len(fileList) + 1
    /\ \/ /\ scan.idx <= Len(fileList) /\ fileList[scan.idx] = scan.last.f
          /\ scan.first = scan.last.p
          /\ scan.out = <<>>
       \/ /\ scan.idx > 1 /\ fileList[scan.idx - 1] = scan.last.f
          /\ scan.first = -1

\* The records in s that somebody wrote, at their places in the log.
Readables(s) == {i \in DOMAIN s : s[i].rec # Torn}
Places(s)    == {Here(s[i]) : i \in Readables(s)}
InOrder(s)   == \A i, j \in Readables(s) : i < j => Before(Here(s[i]), Here(s[j]))

Fixed(a) == Durable(a) /\ RecordAt(a) # Torn

\* What is on its way to the slave: durable records in the order of the log, between
\* its cursor and the one that comes with them; and none of these is missing.
Stream(s) ==
  /\ AtOrBefore(cursor, s.last)
  /\ cursor.f \in forgotten => s.last.f \in forgotten
  /\ \A a \in Places(s.out) : Fixed(a) /\ Before(cursor, a) /\ AtOrBefore(a, s.last)
  /\ InOrder(s.out)

Covered(s) ==
  s.last.f \notin forgotten =>
    \A a \in Position :
      Logged(a) /\ Before(cursor, a) /\ AtOrBefore(a, s.last) => a \in Places(s.out) \cup s.gap

StreamInv == \A s \in Underway : Stream(s) /\ Covered(s)

BatchInv ==
  /\ \A a \in Places(batch) : Fixed(a) /\ AtOrBefore(a, cursor)
  /\ InOrder(batch)
  /\ \A i \in DOMAIN applied, j \in Readables(batch) :
       j > done => Before(applied[i], Here(batch[j]))

\* Nothing has been applied behind a cursor the slave follows, and what the log has
\* up to it is accounted for, unless a kill has cut out the file of the cursor itself.
Account(a) ==
  \/ \E i \in DOMAIN applied : applied[i] = a
  \/ \E i \in Readables(batch) : i > done /\ Here(batch[i]) = a
  \/ a \in skipped \cup dropped

Accounted(c) ==
  /\ \A i \in DOMAIN applied : AtOrBefore(applied[i], c)
  /\ c.f \notin forgotten => \A a \in Position : Logged(a) /\ AtOrBefore(a, c) => Account(a)

AccountInv == \A c \in Followed : Accounted(c)

PullInv ==
  /\ PullTypeOK /\ NetInv /\ SlaveInv /\ GivenInv
  /\ ScanInv /\ StreamInv /\ BatchInv /\ AccountInv

ReplicationInv == StoreInv /\ TailInv /\ PullInv


-----------------------------------------------------------------------------
(* The master's side of a step *)

LEMMA OrderChains ==
  ASSUME NEW a, NEW b, NEW c,
         a.f \in Int, a.p \in Int, b.f \in Int, b.p \in Int, c.f \in Int, c.p \in Int
  PROVE  /\ AtOrBefore(a, b) /\ AtOrBefore(b, c) => AtOrBefore(a, c)
         /\ AtOrBefore(a, b) /\ Before(b, c) => Before(a, c)
         /\ Before(a, b) /\ AtOrBefore(b, c) => Before(a, c)
         /\ AtOrBefore(a, b) \/ Before(b, a)
         /\ ~(AtOrBefore(a, b) /\ Before(b, a))
<1>1. PICK af \in Int, ap \in Int : af = a.f /\ ap = a.p
  OBVIOUS
<1>2. PICK bf \in Int, bp \in Int : bf = b.f /\ bp = b.p
  OBVIOUS
<1>3. PICK cf \in Int, cp \in Int : cf = c.f /\ cp = c.p
  OBVIOUS
<1>4. /\ AtOrBefore(a, b) <=> (af < bf \/ (af = bf /\ ap <= bp))
      /\ AtOrBefore(b, c) <=> (bf < cf \/ (bf = cf /\ bp <= cp))
      /\ AtOrBefore(a, c) <=> (af < cf \/ (af = cf /\ ap <= cp))
      /\ Before(a, b) <=> (af < bf \/ (af = bf /\ ap < bp))
      /\ Before(b, a) <=> (bf < af \/ (bf = af /\ bp < ap))
      /\ Before(b, c) <=> (bf < cf \/ (bf = cf /\ bp < cp))
      /\ Before(a, c) <=> (af < cf \/ (af = cf /\ ap < cp))
  BY <1>1, <1>2, <1>3 DEF AtOrBefore, Before
<1> QED
  BY <1>4

LEMMA FixedStays ==
  ASSUME StoreInv, StoreInv', [StoreNext]_storeVars, NEW a, Fixed(a)
  PROVE  Fixed(a)'
<1>1. Durable(a) /\ Durable(a)' /\ RecordAt(a) # Torn
  BY DurableStays DEF Fixed
<1>2. a.p \in Nat /\ a.f \in DOMAIN files /\ a.p < Kept(a.f)
  BY <1>1 DEF Durable, Position
<1>3. Kept(a.f) \in Nat
  BY <1>2, OnDiskIsPrefix DEF DiskPrefix
<1>4. a.p + 1 \in 1..Kept(a.f)
  BY <1>2, <1>3
<1>5. files'[a.f][a.p + 1] = files[a.f][a.p + 1]
  BY <1>2, <1>4, KeptGrows
<1> QED
  BY <1>1, <1>5 DEF Fixed, RecordAt

LEMMA GivenStays ==
  ASSUME StoreInv, StoreInv', TailInv, [StoreNext]_storeVars, NEW c, Given(c)
  PROVE  Given(c)'
<1>1. CASE c.f = 0
  BY <1>1 DEF Given
<1>2. CASE c.f # 0
  <2>1. /\ c \in Cursor /\ c.f \in DOMAIN files /\ c.p < Kept(c.f) /\ c.f \in Nat /\ c.p \in Int
        /\ c.f \in forgotten \/ Listed(c.f)
        /\ \A i \in 1..c.p : files[c.f][i] # Torn
    BY <1>2 DEF Given, Cursor
  <2>2. /\ c.f \in DOMAIN files' /\ Kept(c.f) <= Kept(c.f)'
        /\ \A i \in 1..Kept(c.f) : files'[c.f][i] = files[c.f][i]
    BY <2>1, KeptGrows
  <2>3. Kept(c.f) \in Nat /\ Kept(c.f)' \in Nat
    <3>1. DiskPrefix /\ DiskPrefix'
      BY OnDiskIsPrefix, PTL
    <3> QED
      BY <2>1, <2>2, <3>1 DEF DiskPrefix
  <2>4. c.p < Kept(c.f)' /\ \A i \in 1..c.p : i \in 1..Kept(c.f)
    BY <2>1, <2>2, <2>3
  <2>5. \A i \in 1..c.p : files'[c.f][i] # Torn
    BY <2>1, <2>2, <2>4
  <2>6. c.f \in forgotten' \/ Listed(c.f)'
    BY <2>1, ForgottenGrows, ListedStays
  <2> QED
    BY <1>2, <2>1, <2>2, <2>4, <2>5, <2>6 DEF Given
<1> QED
  BY <1>1, <1>2

\* Nothing is added to the log behind which a cursor has been given out.
LEMMA KnownBefore ==
  ASSUME StoreInv, StoreInv', TailInv, TailInv', [StoreNext]_storeVars,
         NEW c, Given(c), c.f \notin forgotten, NEW a, Logged(a)', AtOrBefore(a, c)
  PROVE  Logged(a)
<1> SUFFICES ASSUME ~Logged(a) PROVE FALSE
  OBVIOUS
<1>1. cur # NoFile /\ a.f = cur /\ a.p >= Len(files[cur])
  BY NewAtTail
<1>2. a \in Position /\ a.f \in Nat /\ a.p \in Nat
  BY DEF Logged, InLog, Position
<1>3. /\ c \in Cursor /\ c.f \in Nat /\ c.p \in Int
      /\ c.f # 0 => c.f \in DOMAIN files /\ c.p < Kept(c.f) /\ c.f <= cur
  BY <1>1, Latest DEF Given, Cursor, Listed
<1>4. c.f = cur /\ a.p <= c.p
  BY <1>1, <1>2, <1>3 DEF AtOrBefore, NoFile
<1>5. c.p < Kept(cur) /\ cur \in DOMAIN files
  BY <1>1, <1>3, <1>4 DEF NoFile
<1>6. Kept(cur) \in Nat /\ Kept(cur) <= Len(files[cur])
  BY <1>5, OnDiskIsPrefix DEF DiskPrefix
<1>7. files[cur] \in Seq(Record)
  BY <1>5 DEF StoreInv, StoreTypeOK
<1> QED
  BY <1>1, <1>2, <1>3, <1>4, <1>5, <1>6, <1>7

\* What a walk flushes, stdio might have flushed as well.
LEMMA StepIsStore ==
  ASSUME StoreInv, PullTypeOK, ScanInv, [Next]_vars
  PROVE  [StoreNext]_storeVars
<1>1. CASE MasterStep \/ MasterCrash
  BY <1>1 DEF MasterStep, MasterCrash, StoreNext
<1>2. CASE WalkFile \/ WalkGarbage \/ WalkLoops
  <2>1. /\ up /\ scan.st = "walk" /\ scan.idx <= Len(fileList) /\ scan # IdleScan
        /\ UNCHANGED <<up, db, threadVars, files, cur, fileList, index, writes, faults, history>>
        /\ flushed' = IF fileList[scan.idx] = cur THEN Len(files[fileList[scan.idx]]) ELSE flushed
    <3>1. /\ up /\ scan.st = "walk" /\ scan.idx <= Len(fileList) /\ scan # IdleScan
          /\ SyncFile(fileList[scan.idx])
      <4>1. CASE WalkFile
        BY <4>1 DEF WalkFile, IdleScan
      <4>2. CASE WalkGarbage
        BY <4>2 DEF WalkGarbage, IdleScan
      <4>3. CASE WalkLoops
        BY <4>3 DEF WalkLoops, IdleScan
      <4> QED
        BY <1>2, <4>1, <4>2, <4>3
    <3> QED
      BY <3>1 DEF SyncFile, SizeRead
  <2>2. scan.idx \in DOMAIN fileList
    BY <2>1 DEF ScanInv, StoreInv, StoreTypeOK
  <2>3. fileList[scan.idx] \in 1..Len(files)
    BY <2>2 DEF StoreInv, FileInv
  <2>4. CASE fileList[scan.idx] = cur
    <3>1. cur # NoFile /\ flushed <= Len(files[cur]) /\ flushed' = Len(files[cur])
      BY <2>1, <2>3, <2>4 DEF NoFile, StoreInv, FileInv
    <3>2. flushed \in Nat /\ Len(files[cur]) \in Nat
      BY <2>3, <2>4 DEF StoreInv, StoreTypeOK
    <3>3. CASE flushed = Len(files[cur])
      BY <2>1, <3>1, <3>3 DEF storeVars, logVars
    <3>4. CASE flushed # Len(files[cur])
      <4>1. Len(files[cur]) \in flushed + 1 .. Len(files[cur])
        BY <3>1, <3>2, <3>4
      <4>2. StdioFlush
        BY <2>1, <3>1, <4>1 DEF StdioFlush
      <4> QED
        BY <4>2 DEF StoreNext, StoreStep
    <3> QED
      BY <3>3, <3>4
  <2>5. CASE fileList[scan.idx] # cur
    BY <2>1, <2>5 DEF storeVars, logVars
  <2> QED
    BY <2>4, <2>5
<1>3. CASE SyncRequest \/ WalkFails \/ SyncReply \/ Disconnect \/ SlaveCrash
  BY <1>3 DEF SyncRequest, WalkFails, SyncReply, Disconnect, SlaveCrash
<1>4. CASE Pull
  BY <1>4 DEF Pull, SlaveStart, SlaveSend, SlaveNotices, SlaveReconnect, SlaveRecv, SlaveSave,
              SlaveApply, SlaveSleep
<1>5. CASE UNCHANGED vars
  BY <1>5 DEF vars
<1> QED
  BY <1>1, <1>2, <1>3, <1>4, <1>5 DEF Next, Serve

-----------------------------------------------------------------------------
(* What a step that leaves a variable alone leaves true *)

LEMMA StreamStays ==
  ASSUME StoreInv, StoreInv', TailInv, TailInv', [StoreNext]_storeVars, UNCHANGED <<cursor, forgotten>>,
         NEW s, Given(s.last), Stream(s), Covered(s)
  PROVE  Stream(s)' /\ Covered(s)'
<1>1. \A a : Fixed(a) => Fixed(a)'
  BY FixedStays
<1>2. Stream(s)'
  BY <1>1 DEF Stream
<1>3. Covered(s)'
  BY KnownBefore DEF Covered
<1> QED
  BY <1>2, <1>3

LEMMA BatchStays ==
  ASSUME StoreInv, StoreInv', TailInv, [StoreNext]_storeVars, BatchInv,
         UNCHANGED <<cursor, batch, done, applied>>
  PROVE  BatchInv'
<1>1. \A a : Fixed(a) => Fixed(a)'
  BY FixedStays
<1> QED
  BY <1>1 DEF BatchInv

LEMMA AccountedStays ==
  ASSUME StoreInv, StoreInv', TailInv, TailInv', [StoreNext]_storeVars, NEW c, Given(c), Accounted(c),
         UNCHANGED applied, \A a \in Position : Account(a) => Account(a)'
  PROVE  Accounted(c)'
<1>1. c.f \notin forgotten' => \A a \in Position : Logged(a)' /\ AtOrBefore(a, c) => Account(a)'
  BY KnownBefore, ForgottenGrows DEF Accounted
<1> QED
  BY <1>1 DEF Accounted

LEMMA CursorsStay ==
  ASSUME StoreInv, StoreInv', TailInv, [StoreNext]_storeVars, GivenInv, GivenOut' \subseteq GivenOut
  PROVE  GivenInv'
BY GivenStays DEF GivenInv

LEMMA StreamsStay ==
  ASSUME StoreInv, StoreInv', TailInv, TailInv', [StoreNext]_storeVars, GivenInv, StreamInv,
         Underway' = {} \/ (UNCHANGED <<cursor, forgotten>> /\ Underway' \subseteq Underway)
  PROVE  StreamInv'
<1> SUFFICES ASSUME NEW s \in Underway' PROVE Stream(s)' /\ Covered(s)'
  BY DEF StreamInv
<1>1. s \in Underway /\ UNCHANGED <<cursor, forgotten>>
  OBVIOUS
<1>2. Stream(s) /\ Covered(s) /\ Given(s.last)
  BY <1>1 DEF StreamInv, GivenInv, GivenOut
<1> QED
  BY <1>1, <1>2, StreamStays

LEMMA AccountsStay ==
  ASSUME StoreInv, StoreInv', TailInv, TailInv', [StoreNext]_storeVars, GivenInv, AccountInv, UNCHANGED applied,
         Followed' \subseteq Followed, \A a \in Position : Account(a) => Account(a)'
  PROVE  AccountInv'
<1> SUFFICES ASSUME NEW c \in Followed' PROVE Accounted(c)'
  BY DEF AccountInv
<1>1. c \in Followed
  OBVIOUS
<1>2. Accounted(c) /\ Given(c)
  BY <1>1 DEF AccountInv, GivenInv, GivenOut, Followed
<1> QED
  BY <1>2, AccountedStays

\* While the master lives, its list of files only grows.
LEMMA ListGrows ==
  ASSUME StoreInv, up, StoreStep \/ UNCHANGED storeVars
  PROVE  /\ Len(fileList') >= Len(fileList) /\ Len(fileList') \in Nat
         /\ \A i \in DOMAIN fileList : i \in DOMAIN fileList' /\ fileList'[i] = fileList[i]
<1>1. fileList \in Seq(Nat)
  BY DEF StoreInv, StoreTypeOK
<1>2. fileList' = fileList \/ fileList' = Append(fileList, cur)
  BY DEF StoreStep, Request, SetValue, RemoveKey, WriteDb, Clear, ThreadStep, ClearDatabase, ClearKey,
         ClearDone, AppendRecord, Rotate, PublishName, TruncateIndex, SaveIndex, FileStep, RotateFails,
         WriteNames, CutName, IndexFails, StdioFlush, Restart, StartUnlogged, StartUnsaved, storeVars, logVars
<1>3. CASE fileList' = fileList
  BY <1>1, <1>3
<1>4. CASE fileList' = Append(fileList, cur)
  BY <1>1, <1>4
<1> QED
  BY <1>2, <1>3, <1>4

-----------------------------------------------------------------------------
(* The start *)

LEMMA GivenStart == StoreInv => Given(Start)
BY DEF Given, Start, Cursor

LEMMA PullInit == ASSUME Init, StoreInv PROVE PullInv
<1>1. PullTypeOK
  <2>1. /\ conn = FALSE /\ req = NoMsg /\ rep = NoMsg /\ scan = IdleScan /\ spc = "down"
        /\ cursor = Start /\ info = [state |-> "none"] /\ batch = <<>> /\ done = 0
        /\ sdb = [k \in Keys |-> Absent] /\ pullFaults = 0
        /\ applied = <<>> /\ skipped = {} /\ dropped = {}
    BY DEF Init
  <2>2. cursor \in Cursor /\ info \in InfoFile /\ spc \in Thread
    BY <2>1 DEF Start, Cursor, InfoFile, Thread
  <2>3. Len(batch) = 0 /\ batch \in Seq(Tagged) /\ applied \in Seq(Position)
    BY <2>1
  <2>4. done \in 0..Len(batch)
    BY <2>1, <2>3
  <2>5. pullFaults \in 0..MaxPullFaults
    BY <2>1, ReplicationAssumption
  <2>6. sdb \in [Keys -> Values \cup {Absent}]
    BY <2>1
  <2> QED
    BY <2>1, <2>2, <2>3, <2>4, <2>5, <2>6 DEF PullTypeOK
<1>2. NetInv /\ SlaveInv
  BY DEF Init, NetInv, SlaveInv
<1>3. Underway = {} /\ Followed = {} /\ GivenOut = {Start}
  BY DEF Init, Underway, Followed, GivenOut, SavedCursor, Pulling
<1>4. GivenInv /\ StreamInv /\ AccountInv
  BY <1>3, GivenStart DEF GivenInv, StreamInv, AccountInv
<1>5. ScanInv /\ BatchInv
  BY DEF Init, ScanInv, BatchInv, Readables, Places, InOrder
<1> QED
  BY <1>1, <1>2, <1>4, <1>5 DEF PullInv

-----------------------------------------------------------------------------
(* The master *)

LEMMA MasterStepInv ==
  ASSUME ReplicationInv, StoreInv', [StoreNext]_storeVars,
         StoreStep \/ UNCHANGED storeVars, UNCHANGED pullVars
  PROVE  PullInv'
<1>0. StoreInv /\ TailInv /\ PullInv /\ TailInv'
  BY TailStep DEF ReplicationInv
<1>1. UNCHANGED <<conn, req, rep, scan, spc, cursor, info, batch, done, sdb, pullFaults,
                  applied, skipped, dropped>>
  BY DEF pullVars, netVars, slaveVars, accounts
<1>2. PullTypeOK' /\ SlaveInv'
  BY <1>0, <1>1 DEF PullInv, PullTypeOK, SlaveInv
<1>3. (up => up') /\ forgotten' = forgotten
  BY DEF StoreStep, Request, SetValue, RemoveKey, WriteDb, Clear, ThreadStep, ClearDatabase, ClearKey,
         ClearDone, AppendRecord, Rotate, PublishName, TruncateIndex, SaveIndex, FileStep, RotateFails,
         WriteNames, CutName, IndexFails, StdioFlush, Restart, StartUnlogged, StartUnsaved, storeVars, history
<1>4. NetInv'
  BY <1>0, <1>1, <1>3 DEF PullInv, NetInv
<1>5. Underway' = Underway /\ Followed' = Followed /\ GivenOut' = GivenOut
  BY <1>1 DEF Underway, Followed, GivenOut, SavedCursor
<1>6. \A a \in Position : Account(a) => Account(a)'
  BY <1>1 DEF Account
<1>7. GivenInv' /\ StreamInv' /\ AccountInv' /\ BatchInv'
  BY <1>0, <1>1, <1>3, <1>5, <1>6, CursorsStay, StreamsStay, AccountsStay, BatchStays DEF PullInv
<1>8. ScanInv'
  <2>1. CASE scan = IdleScan
    BY <1>1, <2>1 DEF ScanInv
  <2>2. CASE scan # IdleScan
    <3>1. up
      BY <1>0, <2>2 DEF PullInv, NetInv
    <3>2. /\ Len(fileList') >= Len(fileList) /\ Len(fileList') \in Nat
          /\ \A i \in DOMAIN fileList : i \in DOMAIN fileList' /\ fileList'[i] = fileList[i]
      BY <1>0, <3>1, ListGrows
    <3>3. fileList \in Seq(Nat) /\ Len(fileList) \in Nat /\ DOMAIN fileList = 1..Len(fileList)
      BY <1>0 DEF StoreInv, StoreTypeOK
    <3>4. ScanInv
      BY <1>0 DEF PullInv
    <3> QED
      BY <1>1, <3>2, <3>3, <3>4 DEF ScanInv
  <2> QED
    BY <2>1, <2>2
<1> QED
  BY <1>2, <1>4, <1>7, <1>8 DEF PullInv

\* Whatever is lost on the way, the slave's own state is as good as before.
LEMMA LossInv ==
  ASSUME ReplicationInv, StoreInv', [StoreNext]_storeVars, LoseConnection,
         UNCHANGED <<slaveVars, accounts>>, pullFaults' \in 0..MaxPullFaults
  PROVE  PullInv'
<1>0. StoreInv /\ TailInv /\ PullInv /\ TailInv'
  BY TailStep DEF ReplicationInv
<1>1. /\ UNCHANGED <<spc, cursor, info, batch, done, sdb, applied, skipped, dropped>>
      /\ conn' = FALSE /\ req' = NoMsg /\ rep' = NoMsg /\ scan' = IdleScan
  BY DEF LoseConnection, slaveVars, accounts
<1>2. PullTypeOK' /\ SlaveInv' /\ NetInv' /\ ScanInv'
  BY <1>0, <1>1 DEF PullInv, PullTypeOK, SlaveInv, NetInv, ScanInv
<1>3. Underway' = {} /\ Followed' = Followed /\ GivenOut' \subseteq GivenOut
  BY <1>1 DEF Underway, Followed, GivenOut, SavedCursor
<1>4. \A a \in Position : Account(a) => Account(a)'
  BY <1>1 DEF Account
<1>5. GivenInv' /\ StreamInv' /\ AccountInv' /\ BatchInv'
  BY <1>0, <1>1, <1>3, <1>4, CursorsStay, StreamsStay, AccountsStay, BatchStays DEF PullInv
<1> QED
  BY <1>2, <1>5 DEF PullInv

-----------------------------------------------------------------------------
(* The slave *)

\* What the slave does leaves the master and the walk alone.
LEMMA SlaveLeaves ==
  ASSUME ReplicationInv, UNCHANGED storeVars
  PROVE  /\ \A c : Given(c) => Given(c)'
         /\ \A a : Fixed(a) => Fixed(a)'
         /\ \A a : Logged(a)' => Logged(a)
         /\ scan' = scan => ScanInv'
<1>1. UNCHANGED <<up, files, cur, flushed, fileList, index, forgotten>>
  BY DEF storeVars, logVars, history
<1>2. (\A f : Kept(f)' = Kept(f)) /\ (\A f : Listed(f)' <=> Listed(f)) /\ (\A a : RecordAt(a)' = RecordAt(a))
  BY <1>1 DEF Kept, Listed, Known, RecordAt
<1>3. \A c : Given(c) => Given(c)'
  BY <1>1, <1>2 DEF Given
<1>4. \A a : Fixed(a) => Fixed(a)'
  BY <1>1, <1>2 DEF Fixed, Durable
<1>5. \A a : Logged(a)' => Logged(a)
  BY <1>1, <1>2 DEF Logged, InLog
<1>6. scan' = scan => ScanInv'
  BY <1>1 DEF ScanInv, ReplicationInv, PullInv
<1> QED
  BY <1>3, <1>4, <1>5, <1>6

LEMMA SlaveStartInv ==
  ASSUME ReplicationInv, StoreInv', [StoreNext]_storeVars, SlaveStart
  PROVE  PullInv'
<1>0. StoreInv /\ TailInv /\ PullInv /\ TailInv'
  BY TailStep DEF ReplicationInv
<1>1. /\ spc = "down" /\ batch = <<>> /\ done = 0
      /\ req = NoMsg /\ rep = NoMsg /\ scan = IdleScan
      /\ UNCHANGED <<storeVars, scan, req, rep, info, batch, done, sdb, pullFaults,
                     applied, skipped, dropped, up, forgotten>>
  BY <1>0 DEF SlaveStart, accounts, PullInv, SlaveInv, NetInv, storeVars, history
<1>2. \/ info.state = "empty" /\ spc' = "stopped" /\ UNCHANGED <<conn, cursor>>
      \/ /\ info.state # "empty" /\ conn' = up
         /\ cursor' = IF info.state = "none" THEN Start ELSE info.c
         /\ spc' = IF up THEN "send" ELSE "stopped"
  BY DEF SlaveStart
<1>3. \/ info.state = "empty"
      \/ info.state = "none"
      \/ info.state = "saved" /\ info.c \in Cursor /\ info = [state |-> "saved", c |-> info.c]
  BY <1>0 DEF PullInv, PullTypeOK, InfoFile
<1>4. cursor' \in Cursor /\ conn' \in BOOLEAN /\ spc' \in Thread
  <2>1. cursor \in Cursor /\ conn \in BOOLEAN /\ up \in BOOLEAN /\ Start \in Cursor
    BY <1>0 DEF PullInv, PullTypeOK, StoreInv, StoreTypeOK, Start, Cursor
  <2>2. spc' \in Thread /\ conn' \in BOOLEAN
    BY <1>2, <2>1 DEF Thread
  <2>3. cursor' \in Cursor
    BY <1>2, <1>3, <2>1
  <2> QED
    BY <2>2, <2>3
<1>5. PullTypeOK'
  BY <1>0, <1>1, <1>4 DEF PullInv, PullTypeOK
<1>6. NetInv' /\ SlaveInv'
  <2>1. NetInv'
    BY <1>0, <1>1, <1>2 DEF PullInv, NetInv
  <2>2. info.state \in {"empty", "none", "saved"}
    BY <1>3
  <2>3. SlaveInv'
    BY <1>0, <1>1, <1>2, <1>3 DEF PullInv, SlaveInv
  <2> QED
    BY <2>1, <2>3
<1>7. cursor' = cursor \/ cursor' = Start \/ cursor' \in SavedCursor
  BY <1>2, <1>3 DEF SavedCursor
<1>8. Underway' = {} /\ SavedCursor' = SavedCursor
  BY <1>1 DEF Underway, SavedCursor
<1>9. GivenInv'
  <2> SUFFICES ASSUME NEW c \in GivenOut' PROVE Given(c)'
    BY DEF GivenInv
  <2>1. c = Start \/ c \in GivenOut
    BY <1>7, <1>8 DEF GivenOut
  <2>2. Given(c)
    BY <1>0, <2>1, GivenStart DEF PullInv, GivenInv
  <2> QED
    BY <1>1, <2>2, SlaveLeaves
<1>10. StreamInv' /\ ScanInv'
  BY <1>1, <1>8, SlaveLeaves DEF StreamInv
<1>11. BatchInv'
  BY <1>1 DEF BatchInv, Readables, Places, InOrder
<1>12. AccountInv'
  <2> SUFFICES ASSUME NEW c \in Followed' PROVE Accounted(c)'
    BY DEF AccountInv
  <2>1. \A a : Account(a) <=> Account(a)'
    BY <1>1 DEF Account
  <2>2. CASE c \in SavedCursor
    <3>1. Accounted(c)
      BY <1>0, <2>2 DEF PullInv, AccountInv, Followed
    <3> QED
      BY <1>1, <2>1, <3>1, SlaveLeaves DEF Accounted
  <2>3. CASE c \notin SavedCursor
    <3>1. c = cursor' /\ spc' = "send"
      BY <1>2, <1>8, <2>3 DEF Followed, Pulling
    <3>2. info.state = "none" /\ c = Start
      BY <1>2, <1>3, <2>3, <3>1 DEF SavedCursor
    <3>3. applied = <<>>
      BY <1>0, <3>2 DEF PullInv, SlaveInv
    <3>4. \A a \in Position : Logged(a) => a.f \in DOMAIN files /\ a.p \in Nat
      BY DEF Logged, InLog, Position
    <3>5. files \in Seq(Seq(Record))
      BY <1>0 DEF StoreInv, StoreTypeOK
    <3>6. \A a \in Position : Logged(a) => ~AtOrBefore(a, c)
      <4> SUFFICES ASSUME NEW a \in Position, Logged(a) PROVE ~AtOrBefore(a, c)
        OBVIOUS
      <4>1. a.f \in 1..Len(files) /\ Len(files) \in Nat
        BY <3>4, <3>5
      <4>2. a.f >= 1 /\ a.f \in Nat /\ c.f = 0
        BY <3>2, <4>1 DEF Start
      <4> QED
        BY <4>2 DEF AtOrBefore
    <3> QED
      BY <1>1, <3>3, <3>6, SlaveLeaves DEF Accounted
  <2> QED
    BY <2>2, <2>3
<1> QED
  BY <1>5, <1>6, <1>9, <1>10, <1>11, <1>12 DEF PullInv

\* The steps between two rounds change nothing but the connection.
LEMMA SlaveTalksInv ==
  ASSUME ReplicationInv, StoreInv', [StoreNext]_storeVars, SlaveSend \/ SlaveNotices \/ SlaveReconnect
  PROVE  PullInv'
<1>0. StoreInv /\ TailInv /\ PullInv /\ TailInv'
  BY TailStep DEF ReplicationInv
<1>1. UNCHANGED <<storeVars, up, forgotten, scan, rep, cursor, info, batch, done, sdb, pullFaults,
                  applied, skipped, dropped>>
  BY DEF SlaveSend, SlaveNotices, SlaveReconnect, netVars, accounts, storeVars, history
<1>2. /\ spc \in {"send", "recv", "reconnect"} /\ spc' \in {"send", "recv", "reconnect"}
      /\ conn' \in BOOLEAN /\ req' \in Cursor \cup {NoMsg}
  BY <1>0 DEF SlaveSend, SlaveNotices, SlaveReconnect, netVars, PullInv, PullTypeOK
<1>3. PullTypeOK' /\ SlaveInv'
  BY <1>0, <1>1, <1>2 DEF PullInv, PullTypeOK, SlaveInv, Thread
<1>4. NetInv'
  <2>1. CASE SlaveSend
    BY <1>0, <1>1, <2>1 DEF SlaveSend, PullInv, NetInv
  <2>2. CASE SlaveNotices
    BY <1>0, <1>1, <2>2 DEF SlaveNotices, netVars, PullInv, NetInv
  <2>3. CASE SlaveReconnect
    BY <1>0, <1>1, <2>3 DEF SlaveReconnect, PullInv, NetInv
  <2> QED
    BY <2>1, <2>2, <2>3
<1>5. Underway' = Underway /\ Followed' = Followed /\ GivenOut' = GivenOut
  BY <1>1, <1>2 DEF Underway, Followed, GivenOut, SavedCursor, Pulling
<1>6. \A a \in Position : Account(a) => Account(a)'
  BY <1>1 DEF Account
<1>7. GivenInv' /\ StreamInv' /\ AccountInv' /\ BatchInv' /\ ScanInv'
  BY <1>0, <1>1, <1>5, <1>6, CursorsStay, StreamsStay, AccountsStay, BatchStays, SlaveLeaves DEF PullInv
<1> QED
  BY <1>3, <1>4, <1>7 DEF PullInv

LEMMA SlaveSleepInv ==
  ASSUME ReplicationInv, StoreInv', [StoreNext]_storeVars, SlaveSleep
  PROVE  PullInv'
<1>0. StoreInv /\ TailInv /\ PullInv /\ TailInv'
  BY TailStep DEF ReplicationInv
<1>1. /\ spc = "apply" /\ spc' = "send" /\ done = Len(batch) /\ batch' = <<>> /\ done' = 0
      /\ UNCHANGED <<storeVars, scan, conn, req, rep, cursor, info, sdb, pullFaults,
                     applied, skipped, dropped, up, forgotten>>
  BY DEF SlaveSleep, netVars, accounts, storeVars, history
<1>2. batch \in Seq(Tagged) /\ Len(batch) \in Nat
  BY <1>0 DEF PullInv, PullTypeOK
<1>3. PullTypeOK'
  <2>1. batch' \in Seq(Tagged) /\ done' \in 0..Len(batch')
    BY <1>1
  <2> QED
    BY <1>0, <1>1, <2>1 DEF PullInv, PullTypeOK, Thread
<1>4. NetInv' /\ SlaveInv' /\ req = NoMsg /\ rep = NoMsg /\ scan = IdleScan
  BY <1>0, <1>1 DEF PullInv, NetInv, SlaveInv
<1>5. Underway' = Underway /\ Followed' = Followed /\ GivenOut' = GivenOut
  BY <1>1 DEF Underway, Followed, GivenOut, SavedCursor, Pulling
<1>6. \A a \in Position : Account(a) => Account(a)'
  <2>1. \A i \in DOMAIN batch : ~(i > done)
    BY <1>1, <1>2
  <2> QED
    BY <1>1, <2>1 DEF Account, Readables
<1>7. GivenInv' /\ StreamInv' /\ AccountInv' /\ ScanInv'
  BY <1>0, <1>1, <1>5, <1>6, CursorsStay, StreamsStay, AccountsStay, SlaveLeaves DEF PullInv
<1>8. BatchInv'
  <2>1. DOMAIN batch' = {} /\ Len(batch') = 0
    BY <1>1
  <2> QED
    BY <1>1, <2>1 DEF BatchInv, Readables, Places, InOrder
<1> QED
  BY <1>3, <1>4, <1>7, <1>8 DEF PullInv

LEMMA SlaveSaveInv ==
  ASSUME ReplicationInv, StoreInv', [StoreNext]_storeVars, SlaveSave
  PROVE  PullInv'
<1>0. StoreInv /\ TailInv /\ PullInv /\ TailInv'
  BY TailStep DEF ReplicationInv
<1>1. /\ spc = "save" /\ spc' = "apply" /\ info' = [state |-> "saved", c |-> cursor]
      /\ UNCHANGED <<storeVars, scan, conn, req, rep, cursor, batch, done, sdb, pullFaults,
                     applied, skipped, dropped, up, forgotten>>
  BY DEF SlaveSave, netVars, accounts, storeVars, history
<1>2. PullTypeOK'
  <2>1. cursor \in Cursor
    BY <1>0 DEF PullInv, PullTypeOK
  <2>2. info' \in InfoFile
    BY <1>1, <2>1 DEF InfoFile
  <2> QED
    BY <1>0, <1>1, <2>2 DEF PullInv, PullTypeOK, Thread
<1>3. NetInv' /\ SlaveInv'
  BY <1>0, <1>1 DEF PullInv, NetInv, SlaveInv
<1>4. Underway' = Underway /\ Followed' \subseteq Followed /\ GivenOut' \subseteq GivenOut
  BY <1>1 DEF Underway, Followed, GivenOut, SavedCursor, Pulling
<1>5. \A a \in Position : Account(a) => Account(a)'
  BY <1>1 DEF Account
<1>6. GivenInv' /\ StreamInv' /\ AccountInv' /\ BatchInv' /\ ScanInv'
  BY <1>0, <1>1, <1>4, <1>5, CursorsStay, StreamsStay, AccountsStay, BatchStays, SlaveLeaves DEF PullInv
<1> QED
  BY <1>2, <1>3, <1>6 DEF PullInv

LEMMA SlaveCrashInv ==
  ASSUME ReplicationInv, StoreInv', [StoreNext]_storeVars, SlaveCrash
  PROVE  PullInv'
<1>0. StoreInv /\ TailInv /\ PullInv /\ TailInv'
  BY TailStep DEF ReplicationInv
<1>1. /\ spc' = "down" /\ batch' = <<>> /\ done' = 0
      /\ conn' = FALSE /\ req' = NoMsg /\ rep' = NoMsg /\ scan' = IdleScan
      /\ dropped' = dropped \cup {Here(batch[i]) : i \in done + 1 .. Len(batch)}
      /\ pullFaults < MaxPullFaults /\ pullFaults' = pullFaults + 1
      /\ UNCHANGED <<storeVars, cursor, info, sdb, applied, skipped>>
  BY DEF SlaveCrash, LoseConnection
<1>2. batch \in Seq(Tagged) /\ Len(batch) \in Nat /\ done \in 0..Len(batch) /\ dropped \in SUBSET Position
  BY <1>0 DEF PullInv, PullTypeOK
<1>3. PullTypeOK'
  <2>1. batch' \in Seq(Tagged) /\ done' \in 0..Len(batch')
    BY <1>1
  <2>2. pullFaults' \in 0..MaxPullFaults
    BY <1>0, <1>1, ReplicationAssumption DEF PullInv, PullTypeOK
  <2>3. \A i \in done + 1 .. Len(batch) : Here(batch[i]) \in Position
    <3> SUFFICES ASSUME NEW i \in done + 1 .. Len(batch) PROVE Here(batch[i]) \in Position
      OBVIOUS
    <3>1. i \in 1..Len(batch)
      BY <1>2
    <3>2. batch[i] \in Tagged
      BY <1>2, <3>1
    <3> QED
      BY <3>2 DEF Here, Tagged, Position
  <2>4. dropped' \in SUBSET Position
    BY <1>1, <1>2, <2>3
  <2> QED
    BY <1>0, <1>1, <2>1, <2>2, <2>4 DEF PullInv, PullTypeOK, Thread
<1>4. NetInv' /\ SlaveInv' /\ ScanInv'
  BY <1>0, <1>1 DEF PullInv, NetInv, SlaveInv, ScanInv
<1>5. Underway' = {} /\ Followed' \subseteq Followed /\ GivenOut' \subseteq GivenOut
  BY <1>1 DEF Underway, Followed, GivenOut, SavedCursor, Pulling
<1>6. \A a \in Position : Account(a) => Account(a)'
  <2>1. \A j \in DOMAIN batch : j > done => j \in done + 1 .. Len(batch)
    BY <1>2
  <2>2. \A j \in Readables(batch) : j > done => Here(batch[j]) \in dropped'
    BY <1>1, <2>1 DEF Readables
  <2> QED
    BY <1>1, <2>2 DEF Account
<1>7. GivenInv' /\ StreamInv' /\ AccountInv'
  BY <1>0, <1>1, <1>5, <1>6, CursorsStay, StreamsStay, AccountsStay DEF PullInv
<1>8. BatchInv'
  <2>1. DOMAIN batch' = {} /\ Len(batch') = 0
    BY <1>1
  <2> QED
    BY <1>1, <2>1 DEF BatchInv, Readables, Places, InOrder
<1> QED
  BY <1>3, <1>4, <1>7, <1>8 DEF PullInv

\* One record more is applied, the first of those that wait.
LEMMA SlaveApplyInv ==
  ASSUME ReplicationInv, StoreInv', [StoreNext]_storeVars, SlaveApply
  PROVE  PullInv'
<1>0. StoreInv /\ TailInv /\ PullInv /\ TailInv'
  BY TailStep DEF ReplicationInv
<1>1. PICK r : r = batch[done + 1]
  OBVIOUS
<1>2. PICK h : h = Here(r)
  OBVIOUS
<1>3. /\ spc = "apply" /\ done < Len(batch) /\ done' = done + 1
      /\ r.rec # Torn => applied' = Append(applied, h)
      /\ r.rec = Torn => applied' = applied
      /\ sdb' \in Effect(r.rec)
      /\ UNCHANGED <<storeVars, scan, conn, req, rep, spc, cursor, info, batch, pullFaults,
                     skipped, dropped, up, forgotten>>
  BY <1>1, <1>2 DEF SlaveApply, netVars, storeVars, history
<1>4. /\ batch \in Seq(Tagged) /\ Len(batch) \in Nat /\ done \in 0..Len(batch) /\ DOMAIN batch = 1..Len(batch)
      /\ applied \in Seq(Position) /\ Len(applied) \in Nat /\ DOMAIN applied = 1..Len(applied)
  BY <1>0 DEF PullInv, PullTypeOK
<1>5. done + 1 \in DOMAIN batch /\ r \in Tagged /\ h \in Position
  <2>1. done + 1 \in DOMAIN batch
    BY <1>3, <1>4
  <2>2. r \in Tagged
    BY <1>1, <1>4, <2>1
  <2> QED
    BY <1>2, <2>1, <2>2 DEF Here, Tagged, Position
<1>6. /\ applied' \in Seq(Position)
      /\ \A i \in DOMAIN applied : i \in DOMAIN applied' /\ applied'[i] = applied[i]
      /\ \A i \in DOMAIN applied' : i \in DOMAIN applied \/ (r.rec # Torn /\ applied'[i] = h)
      /\ r.rec # Torn => \E i \in DOMAIN applied' : applied'[i] = h
  <2>1. CASE r.rec = Torn
    BY <1>3, <1>4, <2>1
  <2>2. CASE r.rec # Torn
    <3>0. applied' = Append(applied, h)
      BY <1>3, <2>2
    <3>1. /\ applied' \in Seq(Position) /\ DOMAIN applied' = 1 .. Len(applied) + 1
          /\ applied'[Len(applied) + 1] = h
          /\ \A i \in 1..Len(applied) : applied'[i] = applied[i]
      BY <1>4, <1>5, <3>0
    <3>2. \A i \in 1 .. Len(applied) + 1 : i = Len(applied) + 1 \/ i \in 1..Len(applied)
      BY <1>4
    <3>3. Len(applied) + 1 \in 1 .. Len(applied) + 1 /\ \A i \in 1..Len(applied) : i \in 1 .. Len(applied) + 1
      BY <1>4
    <3> QED
      BY <1>4, <2>2, <3>1, <3>2, <3>3
  <2> QED
    BY <2>1, <2>2
<1>7. PullTypeOK'
  <2>1. sdb' \in [Keys -> Values \cup {Absent}]
    <3>1. r.rec \in Record /\ sdb \in [Keys -> Values \cup {Absent}]
      BY <1>0, <1>5 DEF Tagged, PullInv, PullTypeOK
    <3>2. CASE r.rec # Torn
      <4>1. r.rec.key \in Keys /\ r.rec.val \in Values \cup {Absent}
        BY <3>1, <3>2 DEF Record, Item
      <4>2. sdb' = [sdb EXCEPT ![r.rec.key] = r.rec.val]
        BY <1>3, <3>2 DEF Effect, Stored
      <4> QED
        BY <3>1, <4>1, <4>2
    <3>3. CASE r.rec = Torn
      BY <1>3, <3>3 DEF Effect
    <3> QED
      BY <3>2, <3>3
  <2>2. done' \in 0..Len(batch')
    BY <1>3, <1>4
  <2> QED
    BY <1>0, <1>3, <1>6, <2>1, <2>2 DEF PullInv, PullTypeOK
<1>8. NetInv' /\ info.state = "saved" /\ info.c = cursor
  BY <1>0, <1>3 DEF PullInv, NetInv, SlaveInv
<1>9. SlaveInv'
  BY <1>0, <1>3, <1>8 DEF PullInv, SlaveInv
<1>10. Underway' = Underway /\ Followed' = {cursor} /\ GivenOut' = GivenOut /\ Followed = {cursor}
  BY <1>3, <1>8 DEF Underway, Followed, GivenOut, SavedCursor, Pulling
<1>11. GivenInv' /\ StreamInv' /\ ScanInv'
  BY <1>0, <1>3, <1>10, CursorsStay, StreamsStay, SlaveLeaves DEF PullInv
<1>12. r.rec # Torn => done + 1 \in Readables(batch) /\ h \in Places(batch)
  BY <1>1, <1>2, <1>5 DEF Readables, Places
<1>13. BatchInv'
  <2>1. /\ \A a \in Places(batch) : Fixed(a) /\ AtOrBefore(a, cursor)
        /\ InOrder(batch)
        /\ \A i \in DOMAIN applied, j \in Readables(batch) : j > done => Before(applied[i], Here(batch[j]))
    BY <1>0 DEF PullInv, BatchInv
  <2>2. \A a \in Places(batch) : Fixed(a)' /\ AtOrBefore(a, cursor)
    BY <1>0, <1>3, <2>1, SlaveLeaves
  <2>3. \A i \in DOMAIN applied', j \in Readables(batch) : j > done + 1 => Before(applied'[i], Here(batch[j]))
    <3> SUFFICES ASSUME NEW i \in DOMAIN applied', NEW j \in Readables(batch), j > done + 1
                 PROVE  Before(applied'[i], Here(batch[j]))
      OBVIOUS
    <3>1. j > done /\ done + 1 < j
      BY <1>4 DEF Readables
    <3>2. CASE i \in DOMAIN applied
      BY <1>6, <2>1, <3>1, <3>2
    <3>3. CASE r.rec # Torn /\ applied'[i] = h
      BY <1>1, <1>2, <1>12, <2>1, <3>1, <3>3 DEF InOrder
    <3> QED
      BY <1>6, <3>2, <3>3
  <2>4. Places(batch)' = Places(batch) /\ Readables(batch)' = Readables(batch) /\ (InOrder(batch)' <=> InOrder(batch))
    BY <1>3 DEF Places, Readables, InOrder
  <2>5. \A i \in DOMAIN applied', j \in Readables(batch)' : j > done' => Before(applied'[i], Here(batch'[j]))
    BY <1>3, <2>3, <2>4
  <2> QED
    BY <1>3, <2>1, <2>2, <2>4, <2>5 DEF BatchInv
<1>14. AccountInv'
  <2>1. Accounted(cursor)
    BY <1>0, <1>10 DEF PullInv, AccountInv
  <2>2. r.rec # Torn => AtOrBefore(h, cursor)
    BY <1>0, <1>12 DEF PullInv, BatchInv
  <2>3. \A i \in DOMAIN applied' : AtOrBefore(applied'[i], cursor)
    BY <1>6, <2>1, <2>2 DEF Accounted
  <2>4. \A a : Account(a) => Account(a)'
    <3> SUFFICES ASSUME NEW a, Account(a) PROVE Account(a)'
      OBVIOUS
    <3>1. CASE \E i \in DOMAIN applied : applied[i] = a
      BY <1>6, <3>1 DEF Account
    <3>2. CASE \E i \in Readables(batch) : i > done /\ Here(batch[i]) = a
      <4>1. PICK i \in Readables(batch) : i > done /\ Here(batch[i]) = a
        BY <3>2
      <4>2. i = done + 1 \/ i > done + 1
        BY <1>4, <4>1 DEF Readables
      <4>3. CASE i = done + 1
        <5>1. r.rec # Torn /\ h = a
          BY <1>1, <1>2, <4>1, <4>3 DEF Readables
        <5> QED
          BY <1>6, <5>1 DEF Account
      <4>4. CASE i > done + 1
        <5>1. i \in Readables(batch)' /\ i > done' /\ Here(batch'[i]) = a
          BY <1>3, <4>1, <4>4 DEF Readables
        <5> QED
          BY <5>1 DEF Account
      <4> QED
        BY <4>2, <4>3, <4>4
    <3>3. CASE a \in skipped \cup dropped
      BY <1>3, <3>3 DEF Account
    <3> QED
      BY <3>1, <3>2, <3>3 DEF Account
  <2>5. \A a : Logged(a)' => Logged(a)
    BY <1>3, SlaveLeaves
  <2>6. cursor.f \notin forgotten' => \A a \in Position : Logged(a)' /\ AtOrBefore(a, cursor) => Account(a)'
    BY <1>3, <2>1, <2>4, <2>5 DEF Accounted
  <2>7. Accounted(cursor)'
    BY <1>3, <2>3, <2>6 DEF Accounted
  <2> QED
    BY <1>3, <1>10, <2>7 DEF AccountInv
<1> QED
  BY <1>7, <1>8, <1>9, <1>11, <1>13, <1>14 DEF PullInv

\* The reply is taken over: what was on its way waits in the batch now.
LEMMA SlaveRecvInv ==
  ASSUME ReplicationInv, StoreInv', [StoreNext]_storeVars, SlaveRecv
  PROVE  PullInv'
<1>0. StoreInv /\ TailInv /\ PullInv /\ TailInv'
  BY TailStep DEF ReplicationInv
<1>1. /\ spc = "recv" /\ conn /\ rep # NoMsg /\ rep' = NoMsg
      /\ UNCHANGED <<storeVars, scan, conn, req, sdb, pullFaults, applied, dropped, up, forgotten>>
      /\ req = NoMsg /\ scan = IdleScan /\ batch = <<>> /\ done = 0
  BY <1>0 DEF SlaveRecv, PullInv, NetInv, SlaveInv, storeVars, history
<1>2. CASE ~rep.ok
  <2>1. spc' = "stopped" /\ UNCHANGED <<cursor, batch, done, info, skipped>>
    BY <1>2 DEF SlaveRecv
  <2>2. PullTypeOK' /\ SlaveInv' /\ NetInv'
    BY <1>0, <1>1, <2>1 DEF PullInv, PullTypeOK, SlaveInv, NetInv, Thread
  <2>3. Underway' = {} /\ Followed' \subseteq Followed /\ GivenOut' \subseteq GivenOut
    BY <1>1, <2>1 DEF Underway, Followed, GivenOut, SavedCursor, Pulling
  <2>4. \A a \in Position : Account(a) => Account(a)'
    BY <1>1, <2>1 DEF Account
  <2>5. GivenInv' /\ StreamInv' /\ AccountInv' /\ BatchInv' /\ ScanInv'
    BY <1>0, <1>1, <2>1, <2>3, <2>4, CursorsStay, StreamsStay, AccountsStay, BatchStays, SlaveLeaves DEF PullInv
  <2> QED
    BY <2>2, <2>5 DEF PullInv
<1>3. CASE rep.ok
  <2>0. PICK s : s = rep
    OBVIOUS
  <2>1. /\ cursor' = s.last /\ batch' = s.out /\ done' = 0 /\ info' = [state |-> "empty"]
        /\ skipped' = skipped \cup s.gap /\ spc' = "save"
    BY <1>3, <2>0 DEF SlaveRecv
  <2>2. s.last \in Cursor /\ s.out \in Seq(Tagged) /\ s.gap \in SUBSET Position
    <3>1. rep \in Reply
      BY <1>0, <1>1 DEF PullInv, PullTypeOK
    <3>2. rep \in [ok : {TRUE}, last : Cursor, out : Seq(Tagged), gap : SUBSET Position]
      <4>1. [ok |-> FALSE].ok = FALSE
        OBVIOUS
      <4>2. rep # [ok |-> FALSE]
        BY <1>3, <4>1, Zenon
      <4> QED
        BY <3>1, <4>2, Zenon DEF Reply
    <3> QED
      BY <2>0, <3>2
  <2>3. Len(s.out) \in Nat /\ DOMAIN s.out = 1..Len(s.out)
    BY <2>2
  <2>4. PullTypeOK'
    <3>1. done' \in 0..Len(batch')
      BY <2>1, <2>3
    <3>2. info' \in InfoFile /\ skipped' \in SUBSET Position /\ spc' \in Thread
      BY <1>0, <2>1, <2>2 DEF PullInv, PullTypeOK, InfoFile, Thread
    <3> QED
      BY <1>0, <1>1, <2>1, <2>2, <3>1, <3>2 DEF PullInv, PullTypeOK
  <2>5. NetInv' /\ SlaveInv'
    BY <1>0, <1>1, <2>1 DEF PullInv, NetInv, SlaveInv
  <2>6. Underway' = {} /\ Followed' = {s.last} /\ GivenOut' = {s.last}
    BY <1>1, <2>1 DEF Underway, Followed, GivenOut, SavedCursor, Pulling
  <2>7. s \in Underway
    BY <1>1, <1>3, <2>0 DEF Underway
  <2>8. Given(s.last) /\ Stream(s) /\ Covered(s)
    BY <1>0, <2>7 DEF PullInv, GivenInv, GivenOut, StreamInv
  <2>9. cursor \in Followed
    BY <1>1 DEF Followed, Pulling
  <2>10. Accounted(cursor)
    BY <1>0, <2>9 DEF PullInv, AccountInv
  <2>11. GivenInv' /\ StreamInv' /\ ScanInv'
    <3>1. Given(s.last)'
      BY <1>1, <2>8, SlaveLeaves
    <3> QED
      BY <1>1, <2>6, <3>1, SlaveLeaves DEF GivenInv, StreamInv
  <2>12. cursor \in Cursor
    BY <1>0 DEF PullInv, PullTypeOK
  <2>13. \A i \in DOMAIN applied : applied[i] \in Position
    BY <1>0 DEF PullInv, PullTypeOK
  <2>14. BatchInv'
    <3>1. \A a \in Places(s.out) : Fixed(a)' /\ AtOrBefore(a, s.last)
      BY <1>1, <2>8, SlaveLeaves DEF Stream
    <3>2. InOrder(s.out)
      BY <2>8 DEF Stream
    <3>3. \A i \in DOMAIN applied, j \in Readables(s.out) : Before(applied[i], Here(s.out[j]))
      <4> SUFFICES ASSUME NEW i \in DOMAIN applied, NEW j \in Readables(s.out)
                   PROVE  Before(applied[i], Here(s.out[j]))
        OBVIOUS
      <4>1. AtOrBefore(applied[i], cursor)
        BY <2>10 DEF Accounted
      <4>2. Here(s.out[j]) \in Places(s.out)
        BY <2>3 DEF Places
      <4>3. Before(cursor, Here(s.out[j])) /\ Here(s.out[j]) \in Position
        BY <2>8, <4>2 DEF Stream, Fixed, Durable
      <4>4. applied[i] \in Position
        BY <2>13
      <4> QED
        BY <2>12, <4>1, <4>3, <4>4 DEF AtOrBefore, Before, Cursor, Position
    <3>4. \A j \in Readables(s.out) : j > 0
      BY <2>3 DEF Readables
    <3> QED
      BY <1>1, <2>1, <3>1, <3>2, <3>3, <3>4 DEF BatchInv, Readables, Places, InOrder
  <2>15. Accounted(s.last)'
    <3>1. \A i \in DOMAIN applied' : AtOrBefore(applied'[i], s.last)
      <4> SUFFICES ASSUME NEW i \in DOMAIN applied PROVE AtOrBefore(applied[i], s.last)
        BY <1>1
      <4>1. AtOrBefore(applied[i], cursor) /\ AtOrBefore(cursor, s.last) /\ applied[i] \in Position
        BY <2>8, <2>10, <2>13 DEF Accounted, Stream
      <4> QED
        BY <2>2, <2>12, <4>1 DEF AtOrBefore, Cursor, Position
    <3>2. s.last.f \notin forgotten' => \A a \in Position : Logged(a)' /\ AtOrBefore(a, s.last) => Account(a)'
      <4> SUFFICES ASSUME s.last.f \notin forgotten', NEW a \in Position, Logged(a)', AtOrBefore(a, s.last)
                   PROVE  Account(a)'
        OBVIOUS
      <4>1. Logged(a) /\ s.last.f \notin forgotten /\ cursor.f \notin forgotten
        BY <1>1, <2>8, SlaveLeaves DEF Stream
      <4>2. CASE AtOrBefore(a, cursor)
        <5>1. Account(a)
          BY <2>10, <4>1, <4>2 DEF Accounted
        <5>2. Readables(batch) = {}
          BY <1>1 DEF Readables
        <5>3. (\E i \in DOMAIN applied : applied[i] = a) \/ a \in skipped \cup dropped
          BY <1>1, <5>1, <5>2 DEF Account
        <5> QED
          BY <1>1, <2>1, <5>3 DEF Account
      <4>3. CASE ~AtOrBefore(a, cursor)
        <5>1. Before(cursor, a)
          BY <2>12, <4>3 DEF AtOrBefore, Before, Cursor, Position
        <5>2. a \in Places(s.out) \cup s.gap
          BY <2>8, <4>1, <5>1 DEF Covered
        <5>3. CASE a \in Places(s.out)
          <6>1. PICK i \in Readables(s.out) : a = Here(s.out[i])
            BY <5>3 DEF Places
          <6>2. i \in Readables(batch)' /\ i > done' /\ Here(batch'[i]) = a
            BY <2>1, <2>3, <6>1 DEF Readables
          <6> QED
            BY <6>2 DEF Account
        <5>4. CASE a \in s.gap
          BY <2>1, <5>4 DEF Account
        <5> QED
          BY <5>2, <5>3, <5>4
      <4> QED
        BY <4>2, <4>3
    <3> QED
      BY <3>1, <3>2 DEF Accounted
  <2>16. AccountInv'
    BY <2>6, <2>15 DEF AccountInv
  <2> QED
    BY <2>4, <2>5, <2>11, <2>14, <2>16 DEF PullInv
<1> QED
  BY <1>2, <1>3

-----------------------------------------------------------------------------
(* The walk *)

\* What the log has stands in a file of the list.
LEMMA LoggedListed ==
  ASSUME StoreInv, TailInv, up, NEW a, Logged(a)
  PROVE  \E i \in DOMAIN fileList : fileList[i] = a.f
<1>1. a.f \in DOMAIN files /\ a.f \notin forgotten /\ a.p \in Nat /\ a.p < Len(files[a.f])
  BY DEF Logged, InLog, Position
<1>2. Len(files[a.f]) # 0
  BY <1>1
<1>3. a.f \in Range(fileList)
  BY <1>1, <1>2 DEF TailInv, Known
<1> QED
  BY <1>3, RangeOf

\* The first file of the list comes before all the others, and no record before it.
LEMMA FirstOfList ==
  ASSUME StoreInv, TailInv, up, fileList # <<>>
  PROVE  /\ 1 \in DOMAIN fileList
         /\ \A a : Logged(a) => fileList[1] <= a.f
<1>1. /\ fileList \in Seq(Nat) /\ Len(fileList) \in Nat /\ DOMAIN fileList = 1..Len(fileList)
      /\ Ascending(fileList)
  BY DEF StoreInv, StoreTypeOK, ListInv
<1>2. 1 \in DOMAIN fileList
  BY <1>1
<1>3. \A i \in DOMAIN fileList : fileList[1] <= fileList[i]
  <2> SUFFICES ASSUME NEW i \in DOMAIN fileList PROVE fileList[1] <= fileList[i]
    OBVIOUS
  <2>1. i = 1 \/ 1 < i
    BY <1>1
  <2>2. fileList[1] \in Nat /\ fileList[i] \in Nat
    BY <1>1, <1>2
  <2> QED
    BY <1>1, <1>2, <2>1, <2>2 DEF Ascending
<1> QED
  BY <1>2, <1>3, LoggedListed

\* The loop over a file ends at a record of it.
LEMMA StopWithin ==
  ASSUME NEW n \in Nat, NEW first \in Nat \cup {-1}, first <= n - 1, NEW room \in Nat
  PROVE  /\ StopAt(n, first, room) \in first .. n - 1
         /\ StopAt(n, first, room) <= first + room
BY DEF StopAt

LEMMA SliceInOrder ==
  ASSUME StoreInv, NEW f \in DOMAIN files, NEW first \in Nat \cup {-1},
         NEW to \in first .. Len(files[f]) - 1,
         \A i \in first + 2 .. to + 1 : files[f][i] # Torn
  PROVE  /\ Slice(f, first, to) \in Seq(Tagged)
         /\ Len(Slice(f, first, to)) = to - first
         /\ Places(Slice(f, first, to)) = {[f |-> f, p |-> q] : q \in first + 1 .. to}
         /\ InOrder(Slice(f, first, to))
<1> DEFINE s == Slice(f, first, to)
<1>1. /\ files \in Seq(Seq(Record)) /\ f \in Nat /\ files[f] \in Seq(Record)
      /\ Len(files[f]) \in Nat /\ DOMAIN files[f] = 1..Len(files[f])
      /\ first \in Int /\ to \in Int /\ first <= to /\ to <= Len(files[f]) - 1 /\ -1 <= first
  BY DEF StoreInv, StoreTypeOK
<1>2. to - first \in Nat
  BY <1>1
<1>3. s = [i \in 1 .. to - first |-> [f |-> f, p |-> first + i, rec |-> files[f][first + i + 1]]]
  <2>1. (IF to > first THEN to - first ELSE 0) = to - first
    BY <1>1
  <2> QED
    BY <2>1 DEF Slice
<1>4. \A i \in 1 .. to - first :
        /\ s[i] \in Tagged /\ s[i].rec # Torn
        /\ Here(s[i]) = [f |-> f, p |-> first + i]
  <2> SUFFICES ASSUME NEW i \in 1 .. to - first
               PROVE  s[i] \in Tagged /\ s[i].rec # Torn /\ Here(s[i]) = [f |-> f, p |-> first + i]
    OBVIOUS
  <2>1. first + i \in Nat /\ first + i + 1 \in 1..Len(files[f]) /\ first + i + 1 \in first + 2 .. to + 1
    BY <1>1
  <2>2. files[f][first + i + 1] \in Record /\ files[f][first + i + 1] # Torn
    BY <1>1, <2>1
  <2>3. s[i] = [f |-> f, p |-> first + i, rec |-> files[f][first + i + 1]]
    BY <1>3
  <2> QED
    BY <1>1, <2>1, <2>2, <2>3 DEF Tagged, Here
<1>5. DOMAIN s = 1 .. to - first
  BY <1>3
<1> HIDE DEF s
<1>6. s \in [1 .. to - first -> Tagged]
  BY <1>3, <1>4
<1>7. s \in Seq(Tagged) /\ Len(s) = to - first
  BY <1>2, <1>6
<1>8. Readables(s) = 1 .. to - first
  BY <1>4, <1>5 DEF Readables
<1>9. Places(s) = {[f |-> f, p |-> q] : q \in first + 1 .. to}
  <2>1. \A i \in 1 .. to - first : first + i \in first + 1 .. to
    BY <1>1
  <2>2. \A q \in first + 1 .. to : q - first \in 1 .. to - first /\ first + (q - first) = q
    BY <1>1
  <2>3. Places(s) \subseteq {[f |-> f, p |-> q] : q \in first + 1 .. to}
    BY <1>4, <1>8, <2>1 DEF Places
  <2>4. ASSUME NEW q \in first + 1 .. to PROVE [f |-> f, p |-> q] \in Places(s)
    <3>1. q - first \in 1 .. to - first /\ first + (q - first) = q
      BY <2>2
    <3>2. Here(s[q - first]) = [f |-> f, p |-> q]
      BY <1>4, <3>1
    <3> QED
      BY <1>8, <3>1, <3>2 DEF Places
  <2> QED
    BY <2>3, <2>4
<1>10. InOrder(s)
  <2> SUFFICES ASSUME NEW i \in 1 .. to - first, NEW j \in 1 .. to - first, i < j
               PROVE  Before(Here(s[i]), Here(s[j]))
    BY <1>8 DEF InOrder
  <2>1. Here(s[i]) = [f |-> f, p |-> first + i] /\ Here(s[j]) = [f |-> f, p |-> first + j]
    BY <1>4
  <2>2. first + i < first + j
    BY <1>1
  <2> QED
    BY <2>1, <2>2 DEF Before
<1> QED
  BY <1>7, <1>9, <1>10 DEF s

LEMMA JoinedInOrder ==
  ASSUME NEW s \in Seq(Tagged), NEW t \in Seq(Tagged)
  PROVE  /\ s \o t \in Seq(Tagged) /\ Len(s \o t) = Len(s) + Len(t)
         /\ Places(s \o t) = Places(s) \cup Places(t)
         /\ InOrder(s) /\ InOrder(t) /\ (\A a \in Places(s), b \in Places(t) : Before(a, b))
              => InOrder(s \o t)
<1> DEFINE u == s \o t
<1>1. /\ u \in Seq(Tagged) /\ Len(u) = Len(s) + Len(t)
      /\ Len(s) \in Nat /\ Len(t) \in Nat
      /\ DOMAIN s = 1..Len(s) /\ DOMAIN t = 1..Len(t) /\ DOMAIN u = 1 .. Len(s) + Len(t)
      /\ \A i \in 1..Len(s) : u[i] = s[i]
      /\ \A i \in Len(s) + 1 .. Len(s) + Len(t) : u[i] = t[i - Len(s)]
  OBVIOUS
<1> HIDE DEF u
<1>2. \A i \in Readables(u) :
        \/ i \in Readables(s) /\ u[i] = s[i]
        \/ i > Len(s) /\ i - Len(s) \in Readables(t) /\ u[i] = t[i - Len(s)]
  <2> SUFFICES ASSUME NEW i \in Readables(u)
               PROVE  \/ i \in Readables(s) /\ u[i] = s[i]
                      \/ i > Len(s) /\ i - Len(s) \in Readables(t) /\ u[i] = t[i - Len(s)]
    OBVIOUS
  <2>1. i \in 1..Len(s) \/ (i \in Len(s) + 1 .. Len(s) + Len(t) /\ i - Len(s) \in 1..Len(t) /\ i > Len(s))
    BY <1>1 DEF Readables
  <2>2. u[i].rec # Torn
    BY DEF Readables
  <2> QED
    BY <1>1, <2>1, <2>2 DEF Readables
<1>3. \A i \in Readables(s) : i \in Readables(u) /\ u[i] = s[i]
  <2> SUFFICES ASSUME NEW i \in Readables(s) PROVE i \in Readables(u) /\ u[i] = s[i]
    OBVIOUS
  <2>1. i \in 1..Len(s) /\ s[i].rec # Torn
    BY <1>1 DEF Readables
  <2>2. i \in DOMAIN u /\ u[i] = s[i]
    BY <1>1, <2>1
  <2> QED
    BY <2>1, <2>2 DEF Readables
<1>4. \A i \in Readables(t) : i + Len(s) \in Readables(u) /\ u[i + Len(s)] = t[i]
  <2> SUFFICES ASSUME NEW i \in Readables(t) PROVE i + Len(s) \in Readables(u) /\ u[i + Len(s)] = t[i]
    OBVIOUS
  <2>1. i \in 1..Len(t) /\ t[i].rec # Torn
    BY <1>1 DEF Readables
  <2>2. i + Len(s) \in Len(s) + 1 .. Len(s) + Len(t) /\ (i + Len(s)) - Len(s) = i
    BY <1>1, <2>1
  <2>3. u[i + Len(s)] = t[i]
    BY <1>1, <2>2
  <2>4. i + Len(s) \in DOMAIN u
    BY <1>1, <2>1, <2>2
  <2> QED
    BY <2>1, <2>3, <2>4 DEF Readables
<1>5. Places(u) = Places(s) \cup Places(t)
  <2>1. Places(u) \subseteq Places(s) \cup Places(t)
    BY <1>2 DEF Places
  <2>2. Places(s) \subseteq Places(u)
    BY <1>3 DEF Places
  <2>3. Places(t) \subseteq Places(u)
    BY <1>4 DEF Places
  <2> QED
    BY <2>1, <2>2, <2>3
<1>6. ASSUME InOrder(s), InOrder(t), \A a \in Places(s), b \in Places(t) : Before(a, b)
      PROVE  InOrder(u)
  <2> SUFFICES ASSUME NEW i \in Readables(u), NEW j \in Readables(u), i < j
               PROVE  Before(Here(u[i]), Here(u[j]))
    BY DEF InOrder
  <2>1. i \in Nat /\ j \in Nat
    BY <1>1 DEF Readables
  <2>2. CASE i \in Readables(s) /\ u[i] = s[i]
    <3>1. CASE j \in Readables(s) /\ u[j] = s[j]
      BY <1>6, <2>2, <3>1 DEF InOrder
    <3>2. CASE j - Len(s) \in Readables(t) /\ u[j] = t[j - Len(s)]
      BY <1>6, <2>2, <3>2 DEF Places
    <3> QED
      BY <1>2, <3>1, <3>2
  <2>3. CASE i > Len(s) /\ i - Len(s) \in Readables(t) /\ u[i] = t[i - Len(s)]
    <3>1. j \notin Readables(s)
      BY <1>1, <2>1, <2>3 DEF Readables
    <3>2. j - Len(s) \in Readables(t) /\ u[j] = t[j - Len(s)]
      BY <1>2, <3>1
    <3>3. i - Len(s) < j - Len(s)
      BY <1>1, <2>1
    <3> QED
      BY <1>6, <2>3, <3>2, <3>3 DEF InOrder
  <2> QED
    BY <1>2, <2>2, <2>3
<1> QED
  BY <1>1, <1>5, <1>6 DEF u

\* Where the walk stands in the file it is about to read.
LEMMA WalkStands ==
  ASSUME StoreInv, TailInv, PullInv, scan # IdleScan, scan.idx <= Len(fileList), NEW f, f = fileList[scan.idx]
  PROVE  /\ scan.idx \in DOMAIN fileList /\ f \in DOMAIN files /\ f \in Nat
         /\ files[f] \in Seq(Record) /\ Len(files[f]) \in Nat
         /\ scan.first \in Nat \cup {-1} /\ scan.first <= Len(files[f]) - 1
         /\ \A i \in 1..scan.first : files[f][i] # Torn
         /\ StreamItems - Len(scan.out) \in Nat
         /\ scan.first # -1 => StreamItems - Len(scan.out) # 0
<1>1. PICK r : r = scan
  OBVIOUS
<1>2. /\ r.first \in Nat \cup {-1} /\ r.idx \in Nat /\ r.last \in Cursor /\ r.out \in Seq(Tagged)
      /\ Len(r.out) \in Nat /\ r \in Underway
  <2>1. r \in Scan
    BY <1>1 DEF PullInv, PullTypeOK
  <2> QED
    BY <1>1, <2>1 DEF Scan, Underway
<1>3. fileList \in Seq(Nat) /\ DOMAIN fileList = 1..Len(fileList) /\ Len(fileList) \in Nat
  BY DEF StoreInv, StoreTypeOK
<1>4. /\ Len(r.out) <= StreamItems
      /\ r.idx \in DOMAIN fileList
      /\ \/ f = r.last.f /\ r.first = r.last.p /\ r.out = <<>>
         \/ r.first = -1
  BY <1>1, <1>2, <1>3 DEF PullInv, ScanInv
<1>5. files \in Seq(Seq(Record)) /\ f \in 1..Len(files)
  BY <1>1, <1>4 DEF StoreInv, StoreTypeOK, FileInv
<1>6. f \in DOMAIN files /\ f \in Nat /\ files[f] \in Seq(Record) /\ Len(files[f]) \in Nat
  BY <1>5
<1>7. Given(r.last)
  BY <1>2 DEF PullInv, GivenInv, GivenOut
<1>8. r.first <= Len(files[f]) - 1 /\ \A i \in 1..r.first : files[f][i] # Torn
  <2>1. CASE r.first = -1
    BY <1>6, <2>1
  <2>2. CASE f = r.last.f /\ r.first = r.last.p
    <3>1. r.last.f # 0
      BY <1>5, <2>2
    <3>2. r.first < Kept(f) /\ \A i \in 1..r.first : files[f][i] # Torn
      BY <1>7, <2>2, <3>1 DEF Given
    <3>3. Kept(f) \in Nat /\ Kept(f) <= Len(files[f])
      BY <1>6, OnDiskIsPrefix DEF DiskPrefix
    <3> QED
      BY <1>2, <1>6, <3>2, <3>3
  <2> QED
    BY <1>4, <2>1, <2>2
<1>9. StreamItems - Len(r.out) \in Nat
  BY <1>2, <1>4, ReplicationAssumption
<1>10. r.first # -1 => StreamItems - Len(r.out) # 0
  <2> SUFFICES ASSUME r.first # -1 PROVE StreamItems - Len(r.out) # 0
    OBVIOUS
  <2>1. Len(r.out) = 0
    BY <1>4
  <2> QED
    BY <2>1, ReplicationAssumption
<1> QED
  BY <1>1, <1>2, <1>4, <1>6, <1>8, <1>9, <1>10

\* A walk, or its reply, that has the cursor and the records of another is as good.
LEMMA Relayed ==
  ASSUME ReplicationInv, UNCHANGED <<storeVars, cursor>>,
         NEW r, Given(r.last), Stream(r), Covered(r),
         NEW s, s.last = r.last, s.out = r.out, s.gap = r.gap
  PROVE  Given(s.last)' /\ Stream(s)' /\ Covered(s)'
<1>1. UNCHANGED <<cursor, forgotten>>
  BY DEF storeVars, history
<1>2. Given(r.last)' /\ (\A a : Fixed(a) => Fixed(a)') /\ (\A a : Logged(a)' => Logged(a))
  BY SlaveLeaves
<1>3. Stream(r)' /\ Covered(r)'
  BY <1>1, <1>2 DEF Stream, Covered
<1> QED
  BY <1>2, <1>3 DEF Stream, Covered

LEMMA WalkFailsInv ==
  ASSUME ReplicationInv, StoreInv', [StoreNext]_storeVars, WalkFails
  PROVE  PullInv'
<1>0. StoreInv /\ TailInv /\ PullInv /\ TailInv'
  BY TailStep DEF ReplicationInv
<1>1. /\ scan.st = "walk" /\ scan # IdleScan /\ scan' = [scan EXCEPT !.st = "reply"]
      /\ pullFaults < MaxPullFaults /\ pullFaults' = pullFaults + 1
      /\ UNCHANGED <<storeVars, conn, req, rep, spc, cursor, info, batch, done, sdb,
                     applied, skipped, dropped, up, fileList, forgotten>>
  BY DEF WalkFails, netVars, slaveVars, accounts, storeVars, logVars, history, IdleScan
<1>2. scan \in Scan /\ rep = NoMsg /\ req = NoMsg
  BY <1>0, <1>1 DEF PullInv, PullTypeOK, NetInv
<1>3. /\ scan' \in Scan /\ scan'.st = "reply" /\ scan'.last = scan.last /\ scan'.out = scan.out
      /\ scan'.gap = scan.gap /\ scan'.first = scan.first /\ scan'.idx = scan.idx
      /\ scan'.st # "walk"
  BY <1>1, <1>2 DEF Scan
<1>4. PullTypeOK'
  <2>1. pullFaults' \in 0..MaxPullFaults
    BY <1>0, <1>1, ReplicationAssumption DEF PullInv, PullTypeOK
  <2> QED
    BY <1>0, <1>1, <1>3, <2>1 DEF PullInv, PullTypeOK
<1>5. NetInv' /\ SlaveInv' /\ ScanInv'
  BY <1>0, <1>1, <1>2, <1>3 DEF PullInv, NetInv, SlaveInv, ScanInv
<1>6. PICK r : r = scan
  OBVIOUS
<1>7. PICK s : s = scan'
  OBVIOUS
<1>8. Underway' \subseteq {s} /\ Followed' = Followed /\ GivenOut' \subseteq GivenOut
  BY <1>1, <1>2, <1>3, <1>7 DEF Underway, Followed, GivenOut, SavedCursor
<1>9. Given(r.last) /\ Stream(r) /\ Covered(r)
  <2>1. r \in Underway
    BY <1>1, <1>6 DEF Underway
  <2> QED
    BY <1>0, <2>1 DEF PullInv, GivenInv, GivenOut, StreamInv
<1>10. Stream(s)' /\ Covered(s)'
  BY <1>1, <1>3, <1>6, <1>7, <1>9, Relayed
<1>11. \A a \in Position : Account(a) => Account(a)'
  BY <1>1 DEF Account
<1>12. GivenInv' /\ StreamInv' /\ AccountInv' /\ BatchInv'
  <2>1. StreamInv'
    BY <1>8, <1>10 DEF StreamInv
  <2> QED
    BY <1>0, <1>1, <1>8, <1>11, <2>1, CursorsStay, AccountsStay, BatchStays DEF PullInv
<1> QED
  BY <1>4, <1>5, <1>12 DEF PullInv

LEMMA SyncReplyInv ==
  ASSUME ReplicationInv, StoreInv', [StoreNext]_storeVars, SyncReply
  PROVE  PullInv'
<1>0. StoreInv /\ TailInv /\ PullInv /\ TailInv'
  BY TailStep DEF ReplicationInv
<1>1. /\ scan # IdleScan /\ scan' = IdleScan
      /\ rep' = [ok |-> TRUE, last |-> scan.last, out |-> scan.out, gap |-> scan.gap]
      /\ UNCHANGED <<storeVars, conn, req, spc, cursor, info, batch, done, sdb, pullFaults,
                     applied, skipped, dropped, up, forgotten>>
  BY DEF SyncReply, slaveVars, accounts, storeVars, history
<1>2. scan \in Scan /\ rep = NoMsg /\ req = NoMsg
  BY <1>0, <1>1 DEF PullInv, PullTypeOK, NetInv
<1>3. rep' \in Reply
  <2>1. scan.last \in Cursor /\ scan.out \in Seq(Tagged) /\ scan.gap \in SUBSET Position
    BY <1>2 DEF Scan
  <2>2. rep' \in [ok : {TRUE}, last : Cursor, out : Seq(Tagged), gap : SUBSET Position]
    BY <1>1, <2>1
  <2> QED
    BY <2>2 DEF Reply
<1>4. PullTypeOK'
  BY <1>0, <1>1, <1>3 DEF PullInv, PullTypeOK
<1>5. NetInv' /\ SlaveInv' /\ ScanInv'
  BY <1>0, <1>1, <1>2 DEF PullInv, NetInv, SlaveInv, ScanInv
<1>6. PICK r : r = scan
  OBVIOUS
<1>7. PICK s : s = rep'
  OBVIOUS
<1>8. s.last = r.last /\ s.out = r.out /\ s.gap = r.gap
  BY <1>1, <1>6, <1>7
<1>9. Underway' \subseteq {s} /\ Followed' = Followed /\ GivenOut' \subseteq GivenOut
  BY <1>1, <1>6, <1>7, <1>8 DEF Underway, Followed, GivenOut, SavedCursor
<1>10. Given(r.last) /\ Stream(r) /\ Covered(r)
  <2>1. r \in Underway
    BY <1>1, <1>6 DEF Underway
  <2> QED
    BY <1>0, <2>1 DEF PullInv, GivenInv, GivenOut, StreamInv
<1>11. Stream(s)' /\ Covered(s)'
  BY <1>1, <1>8, <1>10, Relayed
<1>12. \A a \in Position : Account(a) => Account(a)'
  BY <1>1 DEF Account
<1>13. GivenInv' /\ StreamInv' /\ AccountInv' /\ BatchInv'
  <2>1. StreamInv'
    BY <1>9, <1>11 DEF StreamInv
  <2> QED
    BY <1>0, <1>1, <1>9, <1>12, <2>1, CursorsStay, AccountsStay, BatchStays DEF PullInv
<1> QED
  BY <1>4, <1>5, <1>13 DEF PullInv

LEMMA SyncRequestInv ==
  ASSUME ReplicationInv, StoreInv', [StoreNext]_storeVars, SyncRequest
  PROVE  PullInv'
<1>0. StoreInv /\ TailInv /\ PullInv /\ TailInv'
  BY TailStep DEF ReplicationInv
<1>1. /\ up /\ conn /\ req # NoMsg /\ scan = IdleScan /\ req' = NoMsg
      /\ UNCHANGED <<storeVars, conn, spc, cursor, info, batch, done, sdb, pullFaults,
                     applied, skipped, dropped, up, fileList, forgotten>>
  BY DEF SyncRequest, slaveVars, accounts, storeVars, logVars, history
<1>2. req = cursor /\ rep = NoMsg /\ spc = "recv" /\ req \in Cursor
  BY <1>0, <1>1 DEF PullInv, NetInv, PullTypeOK
<1>3. \A a \in Position : Account(a) => Account(a)'
  BY <1>1 DEF Account
<1>4. BatchInv' /\ SlaveInv'
  BY <1>0, <1>1, BatchStays DEF PullInv, SlaveInv
<1> DEFINE f0 == IF req.f = 0 THEN fileList[1] ELSE req.f
           first == IF req.f = 0 THEN -1 ELSE req.p
<1>5. CASE fileList # <<>> /\ \E i \in DOMAIN fileList : fileList[i] = f0
  <2>1. PICK idx \in DOMAIN fileList :
          /\ fileList[idx] = f0
          /\ scan' = [st |-> "walk", first |-> first, idx |-> idx, last |-> [f |-> f0, p |-> req.p],
                      out |-> <<>>, gap |-> {}]
    BY <1>5 DEF SyncRequest
  <2>2. rep' = rep
    BY <1>5 DEF SyncRequest
  <2>3. PICK c : c = [f |-> f0, p |-> req.p]
    OBVIOUS
  <2>4. Given(cursor) /\ cursor \in Cursor /\ cursor.f \in Nat /\ cursor.p \in Nat \cup {-1}
    BY <1>0 DEF PullInv, PullTypeOK, GivenInv, GivenOut, Cursor
  <2>5. /\ fileList \in Seq(Nat) /\ DOMAIN fileList = 1..Len(fileList) /\ Len(fileList) \in Nat
        /\ files \in Seq(Seq(Record)) /\ DOMAIN files = 1..Len(files) /\ Len(files) \in Nat
    BY <1>0 DEF StoreInv, StoreTypeOK
  <2>6. /\ 1 \in DOMAIN fileList
        /\ \A a : Logged(a) => fileList[1] <= a.f
    BY <1>0, <1>1, <1>5, FirstOfList
  <2>7. fileList[1] \in 1..Len(files) /\ fileList[1] \in Nat /\ fileList[1] # 0
    BY <1>0, <2>5, <2>6 DEF StoreInv, FileInv
  <2>8. cursor.f = 0 => cursor.p = -1
    BY <2>4 DEF Given
  <2>9. c \in Cursor /\ c.f = f0 /\ c.p = cursor.p /\ f0 \in Nat /\ f0 # 0
    BY <1>2, <2>3, <2>4, <2>7 DEF Cursor
  <2>10. cursor.f # 0 => c = cursor
    BY <1>2, <2>3, <2>4 DEF Cursor
  <2>11. Given(c)
    <3>1. CASE cursor.f # 0
      BY <2>4, <2>10, <3>1
    <3>2. CASE cursor.f = 0
      <4>1. c.f = fileList[1] /\ c.p = -1
        BY <1>2, <2>8, <2>9, <3>2
      <4>2. Kept(c.f) \in Nat
        BY <1>0, <2>5, <2>7, <4>1, OnDiskIsPrefix DEF DiskPrefix
      <4>3. c.p < Kept(c.f) /\ 1..c.p = {}
        BY <4>1, <4>2
      <4>4. Listed(c.f)
        BY <1>1, <2>6, <4>1, RangeOf DEF Listed, Known
      <4> QED
        BY <2>5, <2>7, <2>9, <4>1, <4>3, <4>4 DEF Given
    <3> QED
      BY <3>1, <3>2
  <2>12. first = c.p
    BY <1>2, <2>8, <2>9
  <2>13. scan' \in Scan
    <3>1. first \in Nat \cup {-1} /\ idx \in Nat /\ <<>> \in Seq(Tagged) /\ {} \in SUBSET Position
      BY <2>4, <2>5, <2>9, <2>12
    <3>2. scan' = [st |-> "walk", first |-> first, idx |-> idx, last |-> c, out |-> <<>>, gap |-> {}]
      BY <2>1, <2>3
    <3> HIDE DEF first
    <3> QED
      BY <2>9, <3>1, <3>2 DEF Scan
  <2>14. PullTypeOK'
    BY <1>0, <1>1, <2>2, <2>13 DEF PullInv, PullTypeOK
  <2>15. PICK s : s = scan'
    OBVIOUS
  <2>16. s.last = c /\ s.out = <<>> /\ s.gap = {} /\ s.idx = idx /\ s.first = first /\ s.st = "walk"
    BY <2>1, <2>3, <2>15
  <2>17. NetInv'
    BY <1>0, <1>1, <1>2, <2>2 DEF PullInv, NetInv
  <2>18. ScanInv'
    <3>1. Len(s.out) <= StreamItems
      BY <2>16, ReplicationAssumption
    <3>2. idx \in 1 .. Len(fileList) + 1 /\ idx <= Len(fileList) /\ fileList[idx] = s.last.f /\ s.first = s.last.p
      BY <2>1, <2>5, <2>9, <2>12, <2>16
    <3> QED
      BY <1>1, <2>15, <2>16, <3>1, <3>2 DEF ScanInv
  <2>19. Underway' \subseteq {s} /\ Followed' = Followed /\ GivenOut' \subseteq GivenOut \cup {c}
    BY <1>1, <1>2, <2>2, <2>15, <2>16 DEF Underway, Followed, GivenOut, SavedCursor
  <2>20. GivenInv'
    <3>1. \A d \in GivenOut : Given(d)
      BY <1>0 DEF PullInv, GivenInv
    <3> QED
      BY <1>1, <2>11, <2>19, <3>1, SlaveLeaves DEF GivenInv
  <2>21. Stream(s)'
    <3>1. AtOrBefore(cursor, c)
      BY <2>4, <2>9, <2>10 DEF AtOrBefore
    <3>2. Places(s.out) = {} /\ InOrder(s.out)
      BY <2>16 DEF Readables, Places, InOrder
    <3>3. cursor.f \in forgotten => c.f \in forgotten
      <4>1. cursor.f \in forgotten => cursor.f # 0
        BY <1>0, <2>5 DEF TailInv
      <4> QED
        BY <2>10, <4>1
    <3> QED
      BY <1>1, <2>16, <3>1, <3>2, <3>3 DEF Stream
  <2>22. Covered(s)'
    <3> SUFFICES ASSUME NEW a \in Position, Logged(a)', Before(cursor, a), AtOrBefore(a, c) PROVE FALSE
      BY <1>1, <2>16 DEF Covered
    <3>1. Logged(a) /\ a.f \in Nat /\ a.p \in Nat
      BY <1>1, SlaveLeaves DEF Position
    <3>2. CASE cursor.f # 0
      BY <2>4, <2>10, <3>1, <3>2 DEF Before, AtOrBefore
    <3>3. CASE cursor.f = 0
      <4>1. c.f = fileList[1] /\ c.p = -1 /\ fileList[1] <= a.f
        BY <1>2, <2>6, <2>8, <2>9, <3>1, <3>3
      <4> QED
        BY <2>7, <3>1, <4>1 DEF AtOrBefore
    <3> QED
      BY <3>2, <3>3
  <2>23. StreamInv' /\ AccountInv'
    BY <1>0, <1>1, <1>3, <2>19, <2>21, <2>22, AccountsStay DEF PullInv, StreamInv
  <2> QED
    BY <1>4, <2>14, <2>17, <2>18, <2>20, <2>23 DEF PullInv
<1>6. CASE fileList # <<>> /\ ~(\E i \in DOMAIN fileList : fileList[i] = f0)
  <2>1. rep' = [ok |-> FALSE] /\ scan' = scan
    BY <1>6 DEF SyncRequest
  <2>2. rep' \in Reply
    BY <2>1 DEF Reply
  <2>3. PullTypeOK'
    BY <1>0, <1>1, <2>1, <2>2 DEF PullInv, PullTypeOK
  <2>4. NetInv' /\ ScanInv'
    BY <1>0, <1>1, <1>2, <2>1 DEF PullInv, NetInv, ScanInv
  <2>5. [ok |-> FALSE].ok = FALSE
    OBVIOUS
  <2>6. ~rep'.ok
    BY <2>1, <2>5, Zenon
  <2>7. Underway' = {}
    <3>1. scan' = IdleScan
      BY <1>1, <2>1
    <3> QED
      BY <2>6, <3>1 DEF Underway
  <2>8. Followed' = Followed /\ GivenOut' \subseteq GivenOut
    BY <1>1, <2>7 DEF Followed, GivenOut, SavedCursor
  <2>9. GivenInv' /\ StreamInv' /\ AccountInv'
    BY <1>0, <1>1, <1>3, <2>7, <2>8, CursorsStay, StreamsStay, AccountsStay DEF PullInv
  <2> QED
    BY <1>4, <2>3, <2>4, <2>9 DEF PullInv
<1>7. CASE fileList = <<>>
  <2>1. rep' = [ok |-> TRUE, last |-> req, out |-> <<>>, gap |-> {}] /\ scan' = scan
    BY <1>7 DEF SyncRequest
  <2>2. PICK s : s = rep'
    OBVIOUS
  <2>3. s.ok /\ s.last = cursor /\ s.out = <<>> /\ s.gap = {}
    BY <1>2, <2>1, <2>2
  <2>4. rep' \in Reply
    <3>1. <<>> \in Seq(Tagged) /\ {} \in SUBSET Position
      OBVIOUS
    <3>2. rep' \in [ok : {TRUE}, last : Cursor, out : Seq(Tagged), gap : SUBSET Position]
      BY <1>2, <2>1, <3>1
    <3> QED
      BY <3>2 DEF Reply
  <2>5. PullTypeOK'
    BY <1>0, <1>1, <2>1, <2>4 DEF PullInv, PullTypeOK
  <2>6. NetInv' /\ ScanInv'
    BY <1>0, <1>1, <1>2, <2>1 DEF PullInv, NetInv, ScanInv
  <2>7. Underway' \subseteq {s} /\ Followed' = Followed /\ GivenOut' \subseteq GivenOut
    BY <1>1, <2>1, <2>2, <2>3 DEF Underway, Followed, GivenOut, SavedCursor
  <2>8. Stream(s)' /\ Covered(s)'
    <3>1. cursor \in Cursor
      BY <1>0 DEF PullInv, PullTypeOK
    <3>2. Places(s.out) = {} /\ InOrder(s.out) /\ AtOrBefore(cursor, cursor)
      BY <2>3, <3>1 DEF Readables, Places, InOrder, AtOrBefore, Cursor
    <3>3. \A a \in Position : ~(Before(cursor, a) /\ AtOrBefore(a, cursor))
      BY <3>1 DEF Before, AtOrBefore, Cursor, Position
    <3> QED
      BY <1>1, <2>3, <3>2, <3>3 DEF Stream, Covered
  <2>9. GivenInv' /\ StreamInv' /\ AccountInv'
    <3>1. StreamInv'
      BY <2>7, <2>8 DEF StreamInv
    <3> QED
      BY <1>0, <1>1, <1>3, <2>7, <3>1, CursorsStay, AccountsStay DEF PullInv
  <2> QED
    BY <1>4, <2>5, <2>6, <2>9 DEF PullInv
<1> QED
  BY <1>5, <1>6, <1>7

\* A round of the walk: the file is flushed and read, and the cursor moves on into it, to
\* the last record that can be read or to the fragment behind it.
AsRead(f, t) ==
  \A i \in DOMAIN t :
    t[i].f = f /\ t[i].p \in Nat /\ t[i].p < Len(files[f]) /\ t[i].rec = files[f][t[i].p + 1]

Round(f, st, t, to, p) ==
  /\ up /\ scan.st = "walk" /\ scan.idx <= Len(fileList)
  /\ f = fileList[scan.idx] /\ SyncFile(f)
  /\ st \in {"walk", "reply"} /\ t \in Seq(Tagged)
  /\ to \in scan.first .. Len(files[f]) - 1 /\ p \in to .. Len(files[f]) - 1
  /\ scan' = Walked(st, f, p, t)
  /\ Len(t) <= StreamItems - Len(scan.out) /\ InOrder(t)
  /\ Places(t) = {[f |-> f, p |-> q] : q \in scan.first + 1 .. to}
  /\ \A i \in 1..p : files[f][i] # Torn
  /\ \A i \in scan.first + 2 .. to + 1 : files[f][i] # Torn
  /\ \A q \in to + 1 .. p : files[f][q + 1] = Torn
  /\ AsRead(f, t)

LEMMA WalkedInv ==
  ASSUME ReplicationInv, StoreInv', [StoreNext]_storeVars,
         NEW f, NEW st, NEW t, NEW to, NEW p, Round(f, st, t, to, p)
  PROVE  PullInv'
<1> SUFFICES ASSUME up, scan.st = "walk", scan.idx <= Len(fileList), f = fileList[scan.idx], SyncFile(f),
                    st \in {"walk", "reply"}, t \in Seq(Tagged),
                    to \in scan.first .. Len(files[f]) - 1, p \in to .. Len(files[f]) - 1,
                    scan' = Walked(st, f, p, t),
                    Len(t) <= StreamItems - Len(scan.out), InOrder(t),
                    Places(t) = {[f |-> f, p |-> q] : q \in scan.first + 1 .. to},
                    \A i \in 1..p : files[f][i] # Torn,
                    \A i \in scan.first + 2 .. to + 1 : files[f][i] # Torn,
                    \A q \in to + 1 .. p : files[f][q + 1] = Torn
             PROVE  PullInv'
  BY DEF Round
<1>0. StoreInv /\ TailInv /\ PullInv /\ TailInv'
  BY TailStep DEF ReplicationInv
<1>1. /\ scan # IdleScan
      /\ UNCHANGED <<up, files, cur, fileList, index, forgotten, conn, req, rep, spc, cursor, info, batch,
                     done, sdb, pullFaults, applied, skipped, dropped>>
      /\ flushed' = IF f = cur THEN Len(files[f]) ELSE flushed
  BY DEF SyncFile, SizeRead, netVars, slaveVars, accounts, history, IdleScan
<1>2. scan \in Scan /\ rep = NoMsg /\ req = NoMsg
  BY <1>0, <1>1 DEF PullInv, PullTypeOK, NetInv
<1>3. PICK r : r = scan
  OBVIOUS
<1>4. PICK s : s = scan'
  OBVIOUS
<1>6. PICK n : n = Len(files[f])
  OBVIOUS
<1>8. /\ s.st = st /\ s.first = -1 /\ s.idx = r.idx + 1
      /\ s.last = [f |-> f, p |-> p]
      /\ s.out = r.out \o t
      /\ s.gap = IF f = r.last.f THEN r.gap ELSE r.gap \cup PassedOver(r.last)
      /\ s = [st |-> s.st, first |-> s.first, idx |-> s.idx, last |-> s.last, out |-> s.out, gap |-> s.gap]
  BY <1>3, <1>4 DEF Walked
<1>9. /\ r.first \in Nat \cup {-1} /\ r.idx \in Nat /\ r.last \in Cursor /\ r.out \in Seq(Tagged)
      /\ r.gap \in SUBSET Position
      /\ r.last.f \in Nat /\ r.last.p \in Nat \cup {-1} /\ Len(r.out) \in Nat
  BY <1>2, <1>3 DEF Scan, Cursor
<1>7. /\ r.first \in Int /\ -1 <= r.first /\ r.idx \in Int
      /\ r.last.f \in Int /\ r.last.p \in Int /\ -1 <= r.last.p
  <2>1. \A x \in Nat \cup {-1} : x \in Int /\ -1 <= x
    OBVIOUS
  <2>2. \A x \in Nat : x \in Int
    OBVIOUS
  <2> QED
    BY <1>9, <2>1, <2>2, Zenon
<1>10. /\ r.idx \in DOMAIN fileList /\ r.idx >= 1 /\ f = fileList[r.idx]
       /\ \/ f = r.last.f /\ r.first = r.last.p /\ r.out = <<>>
          \/ r.idx > 1 /\ r.idx - 1 \in DOMAIN fileList /\ fileList[r.idx - 1] = r.last.f /\ r.first = -1
       /\ fileList \in Seq(Nat) /\ DOMAIN fileList = 1..Len(fileList) /\ Len(fileList) \in Nat
  <2>1. fileList \in Seq(Nat) /\ DOMAIN fileList = 1..Len(fileList) /\ Len(fileList) \in Nat
    BY <1>0 DEF StoreInv, StoreTypeOK
  <2>2. /\ scan.idx \in 1..Len(fileList) + 1
        /\ \/ fileList[scan.idx] = scan.last.f /\ scan.first = scan.last.p /\ scan.out = <<>>
           \/ scan.idx > 1 /\ fileList[scan.idx - 1] = scan.last.f /\ scan.first = -1
    BY <1>0, <1>1 DEF PullInv, ScanInv
  <2>3. /\ r.idx \in 1..Len(fileList) + 1 /\ r.idx <= Len(fileList) /\ f = fileList[r.idx]
        /\ \/ fileList[r.idx] = r.last.f /\ r.first = r.last.p /\ r.out = <<>>
           \/ r.idx > 1 /\ fileList[r.idx - 1] = r.last.f /\ r.first = -1
    BY <1>3, <2>2
  <2>4. r.idx \in DOMAIN fileList /\ r.idx >= 1
    BY <1>9, <2>1, <2>3
  <2>5. r.idx > 1 => r.idx - 1 \in DOMAIN fileList
    <3>1. PICK i \in Int : i = r.idx
      BY <1>7
    <3>2. i \in 1..Len(fileList)
      BY <2>1, <2>4, <3>1
    <3>3. i > 1 => i - 1 \in 1..Len(fileList)
      BY <2>1, <3>2
    <3> QED
      BY <2>1, <3>1, <3>3
  <2> QED
    BY <2>1, <2>3, <2>4, <2>5
<1>11. /\ files \in Seq(Seq(Record)) /\ DOMAIN files = 1..Len(files) /\ Len(files) \in Nat
       /\ f \in DOMAIN files /\ f \in Nat /\ files[f] \in Seq(Record) /\ n \in Nat
  <2>1. files \in Seq(Seq(Record)) /\ DOMAIN files = 1..Len(files) /\ Len(files) \in Nat
    BY <1>0 DEF StoreInv, StoreTypeOK
  <2>2. f \in 1..Len(files)
    BY <1>0, <1>10 DEF StoreInv, FileInv
  <2> QED
    BY <1>6, <2>1, <2>2
<1>12. f \in Range(fileList) /\ f \notin forgotten /\ r.last.f \notin forgotten
  <2>1. f \in Range(fileList) /\ r.last.f \in Range(fileList)
    BY <1>10, RangeOf
  <2> QED
    BY <1>0, <2>1 DEF TailInv
<1>14. r \in Underway /\ Given(r.last) /\ Stream(r) /\ Covered(r)
  <2>1. r \in Underway
    BY <1>1, <1>3 DEF Underway
  <2> QED
    BY <1>0, <2>1 DEF PullInv, GivenInv, GivenOut, StreamInv
<1>16. /\ to \in Int /\ p \in Int /\ r.first \in Int /\ r.first <= to /\ to <= p /\ p <= n - 1
       /\ -1 <= to /\ -1 <= p
  BY <1>3, <1>6, <1>7, <1>11
<1>18. /\ Places(t) = {[f |-> f, p |-> q] : q \in r.first + 1 .. to}
       /\ Len(t) \in Nat /\ Len(t) <= StreamItems - Len(r.out)
  BY <1>3
<1>20. s.out \in Seq(Tagged) /\ Len(s.out) = Len(r.out) + Len(t)
       /\ Places(s.out) = Places(r.out) \cup Places(t)
  BY <1>8, <1>9, JoinedInOrder
<1>21. s.last \in Cursor /\ s.last.f = f /\ s.last.p = p
  <2>1. p \in Nat \cup {-1}
    BY <1>16
  <2> QED
    BY <1>8, <1>11, <2>1 DEF Cursor
<1>22. PullTypeOK'
  <2>1. PassedOver(r.last) \in SUBSET Position
    <3>1. ASSUME r.last.f \in 1..Len(files), NEW q \in r.last.p + 1 .. Len(files[r.last.f]) - 1
          PROVE  [f |-> r.last.f, p |-> q] \in Position
      <4>1. q \in Nat
        <5>1. Len(files[r.last.f]) \in Nat
          BY <1>11, <3>1
        <5> QED
          BY <1>9, <3>1, <5>1
      <4> QED
        BY <1>9, <4>1 DEF Position
    <3> QED
      BY <3>1 DEF PassedOver
  <2>2. s.gap \in SUBSET Position
    BY <1>8, <1>9, <2>1
  <2>3. s.st \in {"walk", "reply", "loop"} /\ s.first \in Nat \cup {-1} /\ s.idx \in Nat
    <3>1. s.idx \in Nat
      BY <1>8, <1>9
    <3>2. s.first \in Nat \cup {-1}
      BY <1>8
    <3>3. s.st \in {"walk", "reply", "loop"}
      BY <1>8
    <3> QED
      BY <3>1, <3>2, <3>3
  <2>4. s \in Scan
    BY <1>8, <1>20, <1>21, <2>2, <2>3 DEF Scan
  <2> QED
    BY <1>0, <1>1, <1>4, <2>4 DEF PullInv, PullTypeOK
<1>23. NetInv' /\ SlaveInv'
  BY <1>0, <1>1, <1>2 DEF PullInv, NetInv, SlaveInv
<1>24. ScanInv'
  <2>1. Len(s.out) <= StreamItems
    BY <1>9, <1>18, <1>20, ReplicationAssumption
  <2>2. s.idx \in 1 .. Len(fileList) + 1 /\ s.idx > 1 /\ fileList[s.idx - 1] = s.last.f /\ s.first = -1
    <3>1. s.idx - 1 = r.idx
      BY <1>8, <1>9
    <3>2. r.idx \in Int /\ r.idx >= 1 /\ r.idx <= Len(fileList) /\ Len(fileList) \in Int
      BY <1>9, <1>10
    <3>3. r.idx + 1 \in 1 .. Len(fileList) + 1 /\ r.idx + 1 > 1
      BY <3>2
    <3>4. s.idx = r.idx + 1 /\ s.first = -1
      BY <1>8
    <3>5. fileList[s.idx - 1] = s.last.f
      BY <1>10, <1>21, <3>1
    <3> QED
      BY <3>3, <3>4, <3>5
  <2> QED
    BY <1>1, <1>4, <2>1, <2>2 DEF ScanInv
<1>25. Underway' \subseteq {s} /\ Followed' = Followed /\ GivenOut' \subseteq GivenOut \cup {s.last}
  BY <1>1, <1>2, <1>4 DEF Underway, Followed, GivenOut, SavedCursor
<1>26. Kept(f)' = n
  BY <1>1, <1>6 DEF Kept
<1>27. Given(s.last)'
  <2>1. Listed(f)'
    BY <1>1, <1>12 DEF Listed, Known
  <2>2. f # 0 /\ p < n
    BY <1>11, <1>16
  <2> QED
    BY <1>1, <1>11, <1>21, <1>26, <2>1, <2>2 DEF Given
<1>28. GivenInv'
  <2>1. \A d \in GivenOut : Given(d)'
    BY <1>0, GivenStays DEF PullInv, GivenInv
  <2> QED
    BY <1>25, <1>27, <2>1 DEF GivenInv
<1>29. cursor \in Cursor /\ cursor.f \in Nat /\ cursor.p \in Int /\ r.last.p \in Int
  BY <1>0, <1>9 DEF PullInv, PullTypeOK, Cursor
<1>30. f = r.last.f => r.first = r.last.p
  <2>1. Ascending(fileList)
    BY <1>0 DEF StoreInv, ListInv
  <2>2. r.idx > 1 /\ r.idx - 1 \in DOMAIN fileList => fileList[r.idx - 1] < f
    BY <1>9, <1>10, <2>1 DEF Ascending
  <2>3. r.idx > 1 /\ r.idx - 1 \in DOMAIN fileList /\ fileList[r.idx - 1] = r.last.f => f # r.last.f
    BY <1>9, <1>11, <2>2
  <2> QED
    BY <1>10, <2>3
<1>31. f # r.last.f => r.last.f < f /\ r.first = -1 /\ r.idx - 1 \in DOMAIN fileList /\ fileList[r.idx - 1] = r.last.f
  <2>1. Ascending(fileList)
    BY <1>0 DEF StoreInv, ListInv
  <2>2. r.idx > 1 /\ r.idx - 1 \in DOMAIN fileList => fileList[r.idx - 1] < f
    BY <1>9, <1>10, <2>1 DEF Ascending
  <2> QED
    BY <1>10, <2>2
<1>32. AtOrBefore(r.last, s.last)
  BY <1>9, <1>11, <1>16, <1>21, <1>30, <1>31 DEF AtOrBefore
<1>33. \A a \in Places(t) : a \in Position /\ a.f = f /\ r.first < a.p /\ a.p <= to
  <2> SUFFICES ASSUME NEW a \in Places(t) PROVE a \in Position /\ a.f = f /\ r.first < a.p /\ a.p <= to
    OBVIOUS
  <2>1. PICK q \in r.first + 1 .. to : a = [f |-> f, p |-> q]
    BY <1>18
  <2>2. PICK i \in Int : i = r.first
    BY <1>7
  <2>3. -1 <= i /\ q \in i + 1 .. to
    BY <1>7, <2>2
  <2>4. q \in Nat /\ i < q /\ q <= to
    BY <1>16, <2>3
  <2> QED
    BY <1>11, <2>1, <2>2, <2>4 DEF Position
<1>34. Stream(s)'
  <2>1. /\ AtOrBefore(cursor, r.last)
        /\ cursor.f \in forgotten => r.last.f \in forgotten
        /\ \A a \in Places(r.out) : Fixed(a) /\ Before(cursor, a) /\ AtOrBefore(a, r.last)
        /\ InOrder(r.out)
    BY <1>14 DEF Stream
  <2>2. AtOrBefore(cursor, s.last)
    <3>1. s.last.f \in Int /\ s.last.p \in Int /\ r.last.f \in Int /\ r.last.p \in Int
          /\ cursor.f \in Int /\ cursor.p \in Int
      BY <1>7, <1>11, <1>16, <1>21, <1>29
    <3> QED
      BY <1>32, <2>1, <3>1 DEF AtOrBefore
  <2>3. ASSUME NEW a \in Places(r.out)
        PROVE  Fixed(a)' /\ Before(cursor, a) /\ AtOrBefore(a, s.last)
    <3>1. Fixed(a) /\ Before(cursor, a) /\ AtOrBefore(a, r.last)
      BY <2>1
    <3>2. a.f \in Nat /\ a.p \in Nat
      BY <3>1 DEF Fixed, Durable, Position
    <3>3. Fixed(a)'
      BY <1>0, <3>1, FixedStays
    <3>4. s.last.f \in Int /\ s.last.p \in Int /\ r.last.f \in Int /\ r.last.p \in Int
      BY <1>7, <1>11, <1>16, <1>21
    <3>5. AtOrBefore(a, s.last)
      BY <1>32, <3>1, <3>2, <3>4, OrderChains
    <3> QED
      BY <3>1, <3>3, <3>5
  <2>4. ASSUME NEW a \in Places(t)
        PROVE  Fixed(a)' /\ Before(r.last, a) /\ Before(cursor, a) /\ AtOrBefore(a, s.last)
    <3>1. a \in Position /\ a.f = f /\ r.first < a.p /\ a.p <= to /\ a.p \in Nat /\ a.f \in Nat
      BY <1>33 DEF Position
    <3>2. Durable(a)'
      BY <1>1, <1>11, <1>16, <1>26, <3>1 DEF Durable
    <3>3. a.p + 1 \in scan.first + 2 .. to + 1
      BY <1>3, <1>16, <3>1
    <3>4. RecordAt(a)' # Torn
      BY <1>1, <3>1, <3>3 DEF RecordAt
    <3>5. Before(r.last, a)
      BY <1>30, <1>31, <3>1 DEF Before
    <3>6. Before(cursor, a)
      <4>1. PICK d : d = r.last
        OBVIOUS
      <4>2. /\ d.f \in Int /\ d.p \in Int /\ cursor.f \in Int /\ cursor.p \in Int
            /\ a.f \in Int /\ a.p \in Int
        BY <1>7, <1>29, <3>1, <4>1
      <4>3. AtOrBefore(cursor, d) /\ Before(d, a)
        BY <2>1, <3>5, <4>1
      <4> QED
        BY <4>2, <4>3, OrderChains
    <3>7. AtOrBefore(a, s.last)
      BY <1>16, <1>21, <3>1 DEF AtOrBefore
    <3> QED
      BY <3>2, <3>4, <3>5, <3>6, <3>7 DEF Fixed
  <2>5. \A a \in Places(s.out) : Fixed(a)' /\ Before(cursor, a) /\ AtOrBefore(a, s.last)
    BY <1>20, <2>3, <2>4
  <2>6. \A a \in Places(r.out), b \in Places(t) : Before(a, b)
    <3> SUFFICES ASSUME NEW a \in Places(r.out), NEW b \in Places(t) PROVE Before(a, b)
      OBVIOUS
    <3>1. Fixed(a) /\ AtOrBefore(a, r.last) /\ Before(r.last, b) /\ b \in Position
      BY <1>33, <2>1, <2>4
    <3>2. a.f \in Nat /\ a.p \in Nat /\ b.f \in Nat /\ b.p \in Nat
      BY <3>1 DEF Fixed, Durable, Position
    <3> QED
      <4>1. PICK d : d = r.last
        OBVIOUS
      <4>2. /\ d.f \in Int /\ d.p \in Int /\ b.f \in Int /\ b.p \in Int
            /\ a.f \in Int /\ a.p \in Int
        BY <1>7, <3>2, <4>1
      <4>3. AtOrBefore(a, d) /\ Before(d, b)
        BY <3>1, <4>1
      <4> QED
        BY <4>2, <4>3, OrderChains
  <2>7. InOrder(s.out)
    BY <1>8, <1>9, <2>1, <2>6, JoinedInOrder
  <2> QED
    BY <1>1, <1>12, <2>1, <2>2, <2>5, <2>7 DEF Stream
<1>35. Covered(s)'
  <2> SUFFICES ASSUME NEW a \in Position, Logged(a)', Before(cursor, a), AtOrBefore(a, s.last)
               PROVE  a \in Places(s.out) \cup s.gap
    BY <1>1 DEF Covered
  <2>1. /\ Logged(a) /\ a.f \in DOMAIN files /\ a.p < Len(files[a.f]) /\ RecordAt(a) # Torn
        /\ a.f \in Nat /\ a.p \in Nat /\ a = [f |-> a.f, p |-> a.p]
    <3>1. Logged(a)
      BY <1>1 DEF Logged, InLog, RecordAt
    <3> QED
      BY <3>1 DEF Logged, InLog, Position
  <2>2. CASE AtOrBefore(a, r.last)
    <3>1. a \in Places(r.out) \cup r.gap
      BY <1>12, <1>14, <2>1, <2>2 DEF Covered
    <3> QED
      BY <1>8, <1>20, <3>1
  <2>3. CASE ~AtOrBefore(a, r.last)
    <3>1. a.f > r.last.f \/ (a.f = r.last.f /\ a.p > r.last.p)
      <4>1. PICK d : d = r.last
        OBVIOUS
      <4>2. d.f \in Int /\ d.p \in Int /\ a.f \in Int /\ a.p \in Int
        BY <1>7, <2>1, <4>1
      <4>3. Before(d, a)
        BY <2>3, <4>1, <4>2, OrderChains
      <4> QED
        BY <4>1, <4>2, <4>3 DEF Before
    <3>2. a.f < f \/ (a.f = f /\ a.p <= p)
      BY <1>21 DEF AtOrBefore
    <3>3. ASSUME a.f = f, r.first < a.p PROVE a \in Places(t)
      <4>0. a.p <= to
        <5> SUFFICES ASSUME ~(a.p <= to) PROVE FALSE
          OBVIOUS
        <5>1. a.p \in to + 1 .. p
          BY <1>11, <1>16, <2>1, <3>2, <3>3
        <5> QED
          BY <2>1, <3>3, <5>1 DEF RecordAt
      <4>1. a.p \in r.first + 1 .. to
        BY <1>11, <1>16, <2>1, <3>3, <4>0
      <4> QED
        BY <1>18, <2>1, <3>3, <4>1
    <3>4. CASE f = r.last.f
      <4>1. a.f = f /\ r.first < a.p
        BY <1>11, <1>30, <2>1, <3>1, <3>2, <3>4
      <4> QED
        BY <1>20, <3>3, <4>1
    <3>5. CASE f # r.last.f
      <4>1. CASE a.f = f
        <5>1. r.first < a.p
          BY <1>31, <2>1, <3>5
        <5> QED
          BY <1>20, <3>3, <4>1, <5>1
      <4>2. CASE a.f = r.last.f
        <5>1. a.p > r.last.p
          BY <1>9, <3>1, <4>2
        <5>2. a.p \in r.last.p + 1 .. Len(files[r.last.f]) - 1
          <6>1. files[a.f] \in Seq(Record)
            BY <1>11, <2>1
          <6>2. Len(files[a.f]) \in Nat
            BY <6>1
          <6> QED
            BY <1>29, <2>1, <4>2, <5>1, <6>2
        <5>3. a \in PassedOver(r.last)
          BY <1>11, <2>1, <4>2, <5>2 DEF PassedOver
        <5> QED
          BY <1>8, <3>5, <5>3
      <4>3. CASE a.f # f /\ a.f # r.last.f
        <5>1. r.last.f < a.f /\ a.f < f
          BY <1>9, <2>1, <3>1, <3>2, <4>3
        <5>2. PICK i \in DOMAIN fileList : fileList[i] = a.f
          BY <1>0, <2>1, LoggedListed
        <5>3. /\ i \in Nat /\ r.idx \in DOMAIN fileList /\ r.idx - 1 \in DOMAIN fileList
              /\ fileList[r.idx - 1] < fileList[i] /\ fileList[i] < fileList[r.idx]
          BY <1>10, <1>31, <3>5, <5>1, <5>2
        <5>4. i <= r.idx - 1 \/ r.idx <= i
          BY <1>9, <5>3
        <5>5. Ascending(fileList)
          BY <1>0 DEF StoreInv, ListInv
        <5>6. \A j, k \in DOMAIN fileList : j <= k => fileList[j] <= fileList[k]
          <6> SUFFICES ASSUME NEW j \in DOMAIN fileList, NEW k \in DOMAIN fileList, j <= k
                       PROVE  fileList[j] <= fileList[k]
            OBVIOUS
          <6>1. fileList[j] \in Nat /\ fileList[k] \in Nat
            <7>1. \A h \in DOMAIN fileList : fileList[h] \in Nat
              BY <1>10
            <7> QED
              BY <7>1, Zenon
          <6>2. j = k \/ j < k
            <7>1. j \in Int /\ k \in Int
              BY <1>10
            <7> QED
              BY <7>1
          <6> QED
            BY <5>5, <6>1, <6>2 DEF Ascending
        <5>7. fileList[i] \in Nat /\ fileList[r.idx] \in Nat /\ fileList[r.idx - 1] \in Nat
          <6>1. \A j \in DOMAIN fileList : fileList[j] \in Nat
            BY <1>10
          <6> QED
            BY <5>2, <5>3, <6>1
        <5>8. fileList[i] <= fileList[r.idx - 1] \/ fileList[r.idx] <= fileList[i]
          BY <5>2, <5>3, <5>4, <5>6
        <5> QED
          BY <5>3, <5>7, <5>8
      <4> QED
        BY <4>1, <4>2, <4>3
    <3> QED
      BY <3>4, <3>5
  <2> QED
    BY <2>2, <2>3
<1>36. \A a \in Position : Account(a) => Account(a)'
  BY <1>1 DEF Account
<1>37. StreamInv' /\ AccountInv' /\ BatchInv'
  BY <1>0, <1>1, <1>25, <1>34, <1>35, <1>36, AccountsStay, BatchStays DEF PullInv, StreamInv
<1> QED
  BY <1>22, <1>23, <1>24, <1>28, <1>37 DEF PullInv

LEMMA SliceAsRead ==
  ASSUME NEW f, NEW first \in Nat \cup {-1}, Len(files[f]) \in Nat,
         NEW to \in first .. Len(files[f]) - 1
  PROVE  AsRead(f, Slice(f, first, to))
<1> SUFFICES ASSUME NEW i \in DOMAIN Slice(f, first, to)
             PROVE  LET e == Slice(f, first, to)[i]
                    IN e.f = f /\ e.p \in Nat /\ e.p < Len(files[f]) /\ e.rec = files[f][e.p + 1]
  BY DEF AsRead
<1>1. PICK n \in Nat : n = Len(files[f])
  OBVIOUS
<1>2. i \in 1 .. (IF to > first THEN to - first ELSE 0)
      /\ Slice(f, first, to)[i] = [f |-> f, p |-> first + i, rec |-> files[f][first + i + 1]]
  BY DEF Slice
<1>3. first \in Int /\ -1 <= first /\ to \in Int /\ to <= n - 1
  BY <1>1
<1>4. first + i \in Nat /\ first + i < n
  BY <1>2, <1>3
<1> QED
  BY <1>1, <1>2, <1>4

LEMMA JoinedAsRead ==
  ASSUME NEW s \in Seq(Tagged), NEW t \in Seq(Tagged), NEW f, AsRead(f, s), AsRead(f, t)
  PROVE  AsRead(f, s \o t)
<1> DEFINE u == s \o t
<1>1. /\ DOMAIN u = 1 .. Len(s) + Len(t) /\ Len(s) \in Nat /\ Len(t) \in Nat
      /\ DOMAIN s = 1..Len(s) /\ DOMAIN t = 1..Len(t)
      /\ \A i \in 1..Len(s) : u[i] = s[i]
      /\ \A i \in Len(s) + 1 .. Len(s) + Len(t) : u[i] = t[i - Len(s)]
  OBVIOUS
<1> HIDE DEF u
<1> SUFFICES ASSUME NEW i \in DOMAIN u
             PROVE  u[i].f = f /\ u[i].p \in Nat /\ u[i].p < Len(files[f]) /\ u[i].rec = files[f][u[i].p + 1]
  BY DEF AsRead, u
<1>2. i \in 1..Len(s) \/ (i \in Len(s) + 1 .. Len(s) + Len(t) /\ i - Len(s) \in 1..Len(t))
  BY <1>1
<1>3. (\E j \in DOMAIN s : u[i] = s[j]) \/ (\E j \in DOMAIN t : u[i] = t[j])
  BY <1>1, <1>2
<1> QED
  BY <1>3 DEF AsRead

LEMMA WalkFileRound ==
  ASSUME ReplicationInv, WalkFile
  PROVE  \E f, st, t, to, p : Round(f, st, t, to, p)
<1>0. StoreInv /\ TailInv /\ PullInv
  BY DEF ReplicationInv
<1>1. PICK f : f = fileList[scan.idx]
  OBVIOUS
<1>2. PICK room : room = StreamItems - Len(scan.out)
  OBVIOUS
<1>3. /\ up /\ scan.st = "walk" /\ scan # IdleScan /\ scan.idx <= Len(fileList)
      /\ \E n \in 0..Len(files[f]), st \in {"walk", "reply"} :
           /\ \A i \in 1..n : files[f][i] # Torn
           /\ SyncFile(f)
           /\ scan' = Walked(st, f, StopAt(n, scan.first, room), Slice(f, scan.first, StopAt(n, scan.first, room)))
           /\ n - 1 >= scan.first + room \/ n = Len(files[f])
  BY <1>1, <1>2 DEF WalkFile, Readable, SizeRead, IdleScan
<1>4. PICK n \in 0..Len(files[f]), st \in {"walk", "reply"} :
           /\ \A i \in 1..n : files[f][i] # Torn
           /\ SyncFile(f)
           /\ scan' = Walked(st, f, StopAt(n, scan.first, room), Slice(f, scan.first, StopAt(n, scan.first, room)))
           /\ n - 1 >= scan.first + room \/ n = Len(files[f])
  BY <1>3
<1>5. /\ scan.idx \in DOMAIN fileList /\ f \in DOMAIN files /\ f \in Nat
      /\ files[f] \in Seq(Record) /\ Len(files[f]) \in Nat
      /\ scan.first \in Nat \cup {-1} /\ scan.first <= Len(files[f]) - 1
      /\ room \in Nat
  BY <1>0, <1>1, <1>2, <1>3, WalkStands
<1>6. n \in Nat /\ n <= Len(files[f]) /\ scan.first <= n - 1
  BY <1>4, <1>5
<1>7. PICK stop : stop = StopAt(n, scan.first, room)
  OBVIOUS
<1>8. stop \in scan.first .. n - 1 /\ stop <= scan.first + room
  BY <1>5, <1>6, <1>7, StopWithin
<1>9. stop \in scan.first .. Len(files[f]) - 1 /\ stop \in stop .. Len(files[f]) - 1 /\ stop + 1 <= n /\ stop \in Int
  BY <1>5, <1>6, <1>8
<1>10. /\ \A i \in 1..stop : files[f][i] # Torn
       /\ \A i \in scan.first + 2 .. stop + 1 : files[f][i] # Torn
       /\ \A q \in stop + 1 .. stop : files[f][q + 1] = Torn
  BY <1>4, <1>5, <1>6, <1>9
<1>11. PICK t : t = Slice(f, scan.first, stop)
  OBVIOUS
<1>12. /\ t \in Seq(Tagged) /\ Len(t) = stop - scan.first /\ InOrder(t)
       /\ Places(t) = {[f |-> f, p |-> q] : q \in scan.first + 1 .. stop}
  BY <1>0, <1>5, <1>9, <1>10, <1>11, SliceInOrder
<1>13. Len(t) <= StreamItems - Len(scan.out)
  <2>1. stop \in Int /\ scan.first \in Int /\ room \in Int
    BY <1>5, <1>9
  <2>2. stop - scan.first <= room
    BY <1>8, <2>1
  <2> QED
    BY <1>2, <1>12, <2>2
<1>14. scan' = Walked(st, f, stop, t) /\ SyncFile(f)
  BY <1>4, <1>7, <1>11
<1> QED
  <2>1. AsRead(f, t)
    BY <1>5, <1>9, <1>11, SliceAsRead
  <2>2. Round(f, st, t, stop, stop)
    BY <1>1, <1>3, <1>9, <1>10, <1>12, <1>13, <1>14, <2>1 DEF Round
  <2> QED
    BY <2>2

LEMMA WalkGarbageRound ==
  ASSUME ReplicationInv, WalkGarbage
  PROVE  \E f, st, t, to, p : Round(f, st, t, to, p)
<1>0. StoreInv /\ TailInv /\ PullInv
  BY DEF ReplicationInv
<1>1. PICK f : f = fileList[scan.idx]
  OBVIOUS
<1>2. PICK room : room = StreamItems - Len(scan.out)
  OBVIOUS
<1>21. PICK n \in 0 .. Len(files[fileList[scan.idx]]) - 1, st \in {"walk", "reply"} :
           /\ Readable(fileList[scan.idx], n)
           /\ n - 1 < scan.first + (StreamItems - Len(scan.out))
           /\ SyncFile(fileList[scan.idx])
           /\ \E junk \in {<<>>, <<[f |-> fileList[scan.idx], p |-> n, rec |-> Torn]>>} :
                /\ scan.first < n => junk # <<>>
                /\ scan' = Walked(st, fileList[scan.idx], n, Slice(fileList[scan.idx], scan.first, n - 1) \o junk)
  BY DEF WalkGarbage, SizeRead
<1>3. up /\ scan.st = "walk" /\ scan # IdleScan /\ scan.idx <= Len(fileList)
  BY DEF WalkGarbage, IdleScan
<1>4.    /\ n \in 0 .. Len(files[f]) - 1
           /\ Readable(f, n)
           /\ n - 1 < scan.first + room
           /\ SyncFile(f)
           /\ \E junk \in {<<>>, <<[f |-> f, p |-> n, rec |-> Torn]>>} :
                /\ scan.first < n => junk # <<>>
                /\ scan' = Walked(st, f, n, Slice(f, scan.first, n - 1) \o junk)
  BY <1>1, <1>2, <1>21
<1>20. PICK junk \in {<<>>, <<[f |-> f, p |-> n, rec |-> Torn]>>} :
         scan' = Walked(st, f, n, Slice(f, scan.first, n - 1) \o junk)
  BY <1>4
<1>5. /\ scan.idx \in DOMAIN fileList /\ f \in DOMAIN files /\ f \in Nat
      /\ files[f] \in Seq(Record) /\ Len(files[f]) \in Nat
      /\ scan.first \in Nat \cup {-1} /\ scan.first <= Len(files[f]) - 1
      /\ \A i \in 1..scan.first : files[f][i] # Torn
      /\ room \in Nat /\ (scan.first # -1 => room # 0)
  BY <1>0, <1>1, <1>2, <1>3, WalkStands
<1>6. n \in Nat /\ n < Len(files[f]) /\ files[f][n + 1] = Torn /\ \A i \in 1..n : files[f][i] # Torn
  BY <1>4, <1>5 DEF Readable, SizeRead
<1>7. scan.first <= n
  <2> SUFFICES ASSUME n < scan.first PROVE FALSE
    BY <1>5, <1>6
  <2>1. n + 1 \in 1..scan.first
    BY <1>5, <1>6
  <2> QED
    BY <1>5, <1>6, <2>1
<1>8. PICK to : to = IF scan.first = n THEN n ELSE n - 1
  OBVIOUS
<1>9. to \in scan.first .. Len(files[f]) - 1 /\ n \in to .. Len(files[f]) - 1 /\ to \in Int
  BY <1>5, <1>6, <1>7, <1>8
<1>10. /\ \A i \in scan.first + 2 .. to + 1 : files[f][i] # Torn
       /\ \A q \in to + 1 .. n : files[f][q + 1] = Torn
  <2>1. \A i \in scan.first + 2 .. to + 1 : i \in 1..n
    BY <1>5, <1>6, <1>7, <1>8
  <2>2. \A q \in to + 1 .. n : q = n
    BY <1>5, <1>6, <1>7, <1>8
  <2> QED
    BY <1>6, <2>1, <2>2
<1>11. PICK u : u = Slice(f, scan.first, to)
  OBVIOUS
<1>12. u = Slice(f, scan.first, n - 1)
  <2>1. (IF to > scan.first THEN to - scan.first ELSE 0)
          = IF n - 1 > scan.first THEN n - 1 - scan.first ELSE 0
    BY <1>5, <1>6, <1>7, <1>8
  <2> QED
    BY <1>11, <2>1 DEF Slice
<1>13. /\ u \in Seq(Tagged) /\ Len(u) = to - scan.first /\ InOrder(u)
       /\ Places(u) = {[f |-> f, p |-> q] : q \in scan.first + 1 .. to}
  BY <1>0, <1>5, <1>9, <1>10, <1>11, SliceInOrder
<1>14. junk \in Seq(Tagged) /\ Len(junk) \in 0..1 /\ Readables(junk) = {}
  <2>1. [f |-> f, p |-> n, rec |-> Torn] \in Tagged
    BY <1>5, <1>6 DEF Tagged, Record
  <2>2. CASE junk = <<>>
    BY <2>2 DEF Readables
  <2>3. CASE junk = <<[f |-> f, p |-> n, rec |-> Torn]>>
    <3>1. junk \in Seq(Tagged) /\ Len(junk) = 1 /\ DOMAIN junk = 1..1 /\ junk[1].rec = Torn
      BY <2>1, <2>3
    <3> QED
      BY <3>1 DEF Readables
  <2> QED
    BY <1>20, <2>2, <2>3
<1>15. Places(junk) = {} /\ InOrder(junk)
  BY <1>14 DEF Places, InOrder
<1>16. PICK t : t = u \o junk
  OBVIOUS
<1>17. /\ t \in Seq(Tagged) /\ Len(t) = Len(u) + Len(junk) /\ InOrder(t)
       /\ Places(t) = {[f |-> f, p |-> q] : q \in scan.first + 1 .. to}
  BY <1>13, <1>14, <1>15, <1>16, JoinedInOrder
<1>18. Len(t) <= StreamItems - Len(scan.out)
  <2>1. Len(t) <= to - scan.first + 1
    <3>1. PICK i \in Int : i = scan.first
      BY <1>5
    <3>2. PICK j \in 0..1 : j = Len(junk)
      BY <1>14
    <3>3. Len(t) = to - i + j
      BY <1>13, <1>17, <3>1, <3>2
    <3>4. to - i + j <= to - i + 1
      <4>1. to \in Int
        BY <1>9
      <4>2. i \in Int /\ (j = 0 \/ j = 1)
        BY <3>2
      <4> QED
        BY <4>1, <4>2
    <3> QED
      BY <3>1, <3>3, <3>4
  <2>2. to - scan.first + 1 <= room
    BY <1>4, <1>5, <1>6, <1>7, <1>8
  <2>3. Len(t) \in Nat
    BY <1>17
  <2> QED
    BY <1>2, <1>5, <1>9, <2>1, <2>2, <2>3
<1>19. scan' = Walked(st, f, n, t) /\ SyncFile(f)
  BY <1>4, <1>12, <1>16, <1>20
<1> QED
  <2>1. AsRead(f, u)
    BY <1>5, <1>9, <1>11, SliceAsRead
  <2>2. AsRead(f, junk)
    <3>1. CASE junk = <<>>
      BY <3>1 DEF AsRead
    <3>2. CASE junk = <<[f |-> f, p |-> n, rec |-> Torn]>>
      BY <1>6, <3>2 DEF AsRead
    <3> QED
      BY <1>20, <3>1, <3>2
  <2>3. AsRead(f, t)
    BY <1>13, <1>14, <1>16, <2>1, <2>2, JoinedAsRead
  <2>4. Round(f, st, t, to, n)
    BY <1>1, <1>3, <1>6, <1>9, <1>10, <1>17, <1>18, <1>19, <2>3 DEF Round
  <2> QED
    BY <2>4

\* A walk that goes round for ever has still flushed the file.
LEMMA WalkLoopsInv ==
  ASSUME ReplicationInv, StoreInv', [StoreNext]_storeVars, WalkLoops
  PROVE  PullInv'
<1>0. StoreInv /\ TailInv /\ PullInv /\ TailInv'
  BY TailStep DEF ReplicationInv
<1>1. /\ scan.st = "walk" /\ scan # IdleScan /\ scan' = [scan EXCEPT !.st = "loop"]
      /\ UNCHANGED <<up, fileList, forgotten, conn, req, rep, spc, cursor, info, batch, done, sdb, pullFaults,
                     applied, skipped, dropped>>
  BY DEF WalkLoops, SyncFile, netVars, slaveVars, accounts, history, IdleScan
<1>2. scan \in Scan /\ rep = NoMsg /\ req = NoMsg
  BY <1>0, <1>1 DEF PullInv, PullTypeOK, NetInv
<1>3. /\ scan' \in Scan /\ scan'.last = scan.last /\ scan'.out = scan.out
      /\ scan'.gap = scan.gap /\ scan'.first = scan.first /\ scan'.idx = scan.idx
  BY <1>1, <1>2 DEF Scan
<1>4. PullTypeOK' /\ NetInv' /\ SlaveInv' /\ ScanInv'
  BY <1>0, <1>1, <1>2, <1>3 DEF PullInv, PullTypeOK, NetInv, SlaveInv, ScanInv
<1>5. PICK r : r = scan
  OBVIOUS
<1>6. PICK s : s = scan'
  OBVIOUS
<1>7. Underway' \subseteq {s} /\ Followed' = Followed /\ GivenOut' \subseteq GivenOut
  BY <1>1, <1>2, <1>3, <1>6 DEF Underway, Followed, GivenOut, SavedCursor
<1>8. Given(r.last) /\ Stream(r) /\ Covered(r)
  <2>1. r \in Underway
    BY <1>1, <1>5 DEF Underway
  <2> QED
    BY <1>0, <2>1 DEF PullInv, GivenInv, GivenOut, StreamInv
<1>9. Stream(r)' /\ Covered(r)'
  BY <1>0, <1>1, <1>8, StreamStays
<1>10. s.last = r.last /\ s.out = r.out /\ s.gap = r.gap
  BY <1>3, <1>5, <1>6
<1>11. Stream(s)' /\ Covered(s)'
  BY <1>9, <1>10 DEF Stream, Covered
<1>12. StreamInv'
  BY <1>7, <1>11 DEF StreamInv
<1>13. \A a \in Position : Account(a) => Account(a)'
  BY <1>1 DEF Account
<1>14. GivenInv' /\ AccountInv' /\ BatchInv'
  BY <1>0, <1>1, <1>7, <1>13, CursorsStay, AccountsStay, BatchStays DEF PullInv
<1> QED
  BY <1>4, <1>12, <1>14 DEF PullInv

-----------------------------------------------------------------------------
(* The theorems *)

LEMMA ReplicationStep ==
  ASSUME ReplicationInv, [Next]_vars
  PROVE  ReplicationInv'
<1>1. StoreInv /\ TailInv /\ PullInv /\ PullTypeOK /\ ScanInv
  BY DEF ReplicationInv, PullInv
<1>2. [StoreNext]_storeVars
  BY <1>1, StepIsStore
<1>3. StoreInv'
  BY <1>1, <1>2, StoreStepInv
<1>4. TailInv'
  BY <1>1, <1>2, <1>3, TailStep
<1>5. CASE MasterStep \/ UNCHANGED vars
  <2>1. (StoreStep \/ UNCHANGED storeVars) /\ UNCHANGED pullVars
    BY <1>5 DEF MasterStep, vars
  <2>2. PullInv'
    BY <1>2, <1>3, <2>1, MasterStepInv
  <2> QED
    BY <1>3, <1>4, <2>2 DEF ReplicationInv
<1>6. CASE MasterCrash \/ Disconnect
  <2>1. LoseConnection /\ UNCHANGED <<slaveVars, accounts>>
    BY <1>6 DEF MasterCrash, Disconnect
  <2>2. pullFaults' = pullFaults \/ (pullFaults < MaxPullFaults /\ pullFaults' = pullFaults + 1)
    BY <1>6 DEF MasterCrash, Disconnect
  <2>3. pullFaults' \in 0..MaxPullFaults
    BY <1>1, <2>2, ReplicationAssumption DEF PullTypeOK
  <2>4. PullInv'
    BY <1>2, <1>3, <2>1, <2>3, LossInv
  <2> QED
    BY <1>3, <1>4, <2>4 DEF ReplicationInv
<1>7. CASE Serve
  <2>1. PullInv'
    <3>1. CASE WalkFile \/ WalkGarbage
      BY <1>2, <1>3, <3>1, WalkFileRound, WalkGarbageRound, WalkedInv
    <3> QED
      BY <1>2, <1>3, <1>7, <3>1, SyncRequestInv, WalkLoopsInv, WalkFailsInv, SyncReplyInv DEF Serve
  <2> QED
    BY <1>3, <1>4, <2>1 DEF ReplicationInv
<1>8. CASE Pull \/ SlaveCrash
  <2>1. PullInv'
    BY <1>2, <1>3, <1>8, SlaveStartInv, SlaveTalksInv, SlaveRecvInv, SlaveSaveInv, SlaveApplyInv,
       SlaveSleepInv, SlaveCrashInv DEF Pull
  <2> QED
    BY <1>3, <1>4, <2>1 DEF ReplicationInv
<1> QED
  BY <1>5, <1>6, <1>7, <1>8 DEF Next

\* The inductive invariant: what the cursors, the stream and the batch of the slave say
\* about the master's log, in every state of Sync::run and onSyncCommand.
THEOREM ReplicationInvariant == Spec => []ReplicationInv
<1>1. Init => ReplicationInv
  <2> SUFFICES ASSUME Init PROVE ReplicationInv
    OBVIOUS
  <2>1. StoreInv /\ TailInv
    BY StoreInitInv, TailInit DEF Init
  <2> QED
    BY <2>1, PullInit DEF ReplicationInv
<1>2. ReplicationInv /\ [Next]_vars => ReplicationInv'
  BY ReplicationStep
<1> QED
  BY <1>1, <1>2, PTL DEF Spec

\* Every variable of master, connection and slave keeps its type.
THEOREM ReplicationTyping == Spec => []TypeOK
<1>1. ReplicationInv => TypeOK
  BY DEF ReplicationInv, PullInv, StoreInv, PullTypeOK, TypeOK
<1> QED
  BY <1>1, ReplicationInvariant, PTL

\* A cursor in memory or in MASTER_INFO names records no kill of the master can take:
\* onSyncCommand has flushed the open file before it read it.
THEOREM ReplicationCursor == Spec => []CursorOnDisk
<1>1. ReplicationInv => CursorOnDisk
  <2> SUFFICES ASSUME ReplicationInv, NEW c \in {cursor} \cup SavedCursor, c.f # 0
               PROVE  c.f \in DOMAIN files /\ c.p < Len(OnDisk(c.f))
    BY DEF CursorOnDisk, SavedCursor
  <2>1. Given(c)
    BY DEF ReplicationInv, PullInv, GivenInv, GivenOut
  <2>2. c.f \in DOMAIN files /\ c.p < Kept(c.f)
    BY <2>1 DEF Given
  <2>3. Len(OnDisk(c.f)) = Kept(c.f)
    BY <2>2, OnDiskIsPrefix DEF ReplicationInv, DiskPrefix
  <2> QED
    BY <2>2, <2>3
<1> QED
  BY <1>1, ReplicationInvariant, PTL

\* What the positions of readable records are.
LEMMA RecordedAre ==
  ASSUME StoreInv, NEW S, S \subseteq DOMAIN files, NEW a
  PROVE  a \in Recorded(S) <=>
           a \in Position /\ a.f \in S /\ a.p < Len(files[a.f]) /\ RecordAt(a) # Torn
<1>1. files \in Seq(Seq(Record)) /\ DOMAIN files = 1..Len(files) /\ Len(files) \in Nat
  BY DEF StoreInv, StoreTypeOK
<1>2. \A g \in DOMAIN files : g \in Nat /\ files[g] \in Seq(Record) /\ Len(files[g]) \in Nat
  BY <1>1
<1>3. ASSUME a \in Recorded(S)
      PROVE  a \in Position /\ a.f \in S /\ a.p < Len(files[a.f]) /\ RecordAt(a) # Torn
  <2>1. a \in Positions(S) /\ RecordAt(a) # Torn
    BY <1>3 DEF Recorded, RecordAt
  <2>2. PICK g \in S : a \in {[f |-> g, p |-> i - 1] : i \in 1..Len(files[g])}
    BY <2>1 DEF Positions
  <2>3. PICK j \in 1..Len(files[g]) : a = [f |-> g, p |-> j - 1]
    BY <2>2
  <2>4. j - 1 \in Nat /\ j - 1 < Len(files[g]) /\ g \in Nat
    BY <1>2, <2>2
  <2> QED
    BY <2>1, <2>2, <2>3, <2>4 DEF Position
<1>4. ASSUME a \in Position, a.f \in S, a.p < Len(files[a.f]), RecordAt(a) # Torn
      PROVE  a \in Recorded(S)
  <2>1. a = [f |-> a.f, p |-> a.p] /\ a.p \in Nat
    BY <1>4 DEF Position
  <2>2. a.p + 1 \in 1..Len(files[a.f]) /\ (a.p + 1) - 1 = a.p
    BY <1>2, <1>4, <2>1
  <2>3. a \in {[f |-> a.f, p |-> i - 1] : i \in 1..Len(files[a.f])}
    BY <2>1, <2>2
  <2>4. a \in Positions(S)
    BY <1>4, <2>3 DEF Positions
  <2> QED
    BY <1>4, <2>4 DEF Recorded, RecordAt
<1> QED
  BY <1>3, <1>4

\* A record the cursor of a running slave has passed is applied, waits in the batch, went
\* down with a crashed slave, was passed over by a walk between its last look at a file and
\* the next file, or lies in a file that a kill cut out of BINLOG_INDEX; nothing is said of
\* what a slave still asks for whose cursor is in such a file.
THEOREM ReplicationAccounts == Spec => []EveryRecordAccounted
<1>1. ReplicationInv => EveryRecordAccounted
  <2> SUFFICES ASSUME ReplicationInv, NEW a \in Recorded(DOMAIN files),
                      AtOrBefore(a, cursor), cursor.f \notin forgotten, spc \notin {"down", "stopped"},
                      a.f \notin forgotten
               PROVE  \/ \E i \in DOMAIN applied : applied[i] = a
                      \/ \E i \in done + 1 .. Len(batch) : Here(batch[i]) = a
                      \/ a \in skipped \cup dropped
    BY DEF EveryRecordAccounted
  <2>1. StoreInv /\ PullInv
    BY DEF ReplicationInv
  <2>2. /\ a \in Position /\ a.f \in DOMAIN files
        /\ a.p < Len(files[a.f]) /\ RecordAt(a) # Torn
    BY <2>1, RecordedAre
  <2>3. Logged(a)
    BY <2>2 DEF Logged, InLog
  <2>4. spc \in Pulling
    BY <2>1 DEF PullInv, PullTypeOK, Thread, Pulling
  <2>5. Accounted(cursor)
    BY <2>1, <2>4 DEF PullInv, AccountInv, Followed
  <2>6. Account(a)
    BY <2>2, <2>3, <2>5 DEF Accounted
  <2>7. ASSUME NEW i \in Readables(batch), i > done PROVE i \in done + 1 .. Len(batch)
    <3>1. batch \in Seq(Tagged) /\ done \in 0..Len(batch) /\ i \in DOMAIN batch
      BY <2>1, <2>7 DEF PullInv, PullTypeOK, Readables
    <3>2. i \in 1..Len(batch) /\ Len(batch) \in Nat /\ done \in Nat
      BY <3>1
    <3> QED
      BY <2>7, <3>2
  <2> QED
    BY <2>6, <2>7 DEF Account
<1> QED
  BY <1>1, ReplicationInvariant, PTL

HeldLog == {a \in Recorded(DOMAIN files \ forgotten) : a.p < Len(OnDisk(a.f))}
LostLog == {a \in Recorded(DOMAIN files \cap forgotten) : a.p < Len(OnDisk(a.f))}

LEMMA DurableIsLog ==
  StoreInv => \A a : /\ a \in HeldLog <=> Fixed(a) /\ a.f \notin forgotten
                     /\ a \in LostLog <=> Fixed(a) /\ a.f \in forgotten
<1> SUFFICES ASSUME StoreInv, NEW a
             PROVE  /\ a \in HeldLog <=> Fixed(a) /\ a.f \notin forgotten
                    /\ a \in LostLog <=> Fixed(a) /\ a.f \in forgotten
  OBVIOUS
<1>1. DiskPrefix
  BY OnDiskIsPrefix
<1>2. \A g \in DOMAIN files : Kept(g) \in Nat /\ Len(files[g]) \in Nat /\ Kept(g) <= Len(files[g])
  <2>1. \A g \in DOMAIN files : files[g] \in Seq(Record)
    BY DEF StoreInv, StoreTypeOK
  <2> QED
    BY <1>1, <2>1 DEF DiskPrefix
<1>3. ASSUME NEW S, S \subseteq DOMAIN files
      PROVE  a \in Recorded(S) /\ a.p < Len(OnDisk(a.f)) <=> Fixed(a) /\ a.f \in S
  <2>1. a \in Recorded(S) <=> a \in Position /\ a.f \in S /\ a.p < Len(files[a.f]) /\ RecordAt(a) # Torn
    BY <1>3, RecordedAre
  <2>2. a.f \in S => Len(OnDisk(a.f)) = Kept(a.f)
    BY <1>1, <1>3 DEF DiskPrefix
  <2>3. ASSUME a \in Position, a.f \in S, a.p < Kept(a.f) PROVE a.p < Len(files[a.f])
    <3>1. a.p \in Nat /\ Kept(a.f) \in Nat /\ Len(files[a.f]) \in Nat /\ Kept(a.f) <= Len(files[a.f])
      BY <1>2, <1>3, <2>3 DEF Position
    <3> QED
      BY <2>3, <3>1
  <2> QED
    BY <1>3, <2>1, <2>2, <2>3 DEF Fixed, Durable
<1>4. a \in Recorded(DOMAIN files \ forgotten) /\ a.p < Len(OnDisk(a.f))
        <=> Fixed(a) /\ a.f \in DOMAIN files \ forgotten
  BY <1>3
<1>5. a \in Recorded(DOMAIN files \cap forgotten) /\ a.p < Len(OnDisk(a.f))
        <=> Fixed(a) /\ a.f \in DOMAIN files \cap forgotten
  BY <1>3
<1>6. Fixed(a) => a.f \in DOMAIN files
  BY DEF Fixed, Durable
<1> QED
  BY <1>4, <1>5, <1>6 DEF HeldLog, LostLog

\* Only a kill of the master makes it forget a file.
LEMMA OnlyKillsForget == ASSUME [Next]_vars, ~MasterCrash PROVE UNCHANGED forgotten
<1>1. ASSUME StoreStep PROVE UNCHANGED forgotten
  BY <1>1 DEF StoreStep, Request, ThreadStep, FileStep, SetValue, RemoveKey, WriteDb, Clear,
         ClearDatabase, ClearKey, ClearDone, AppendRecord, Rotate, RotateFails, PublishName, TruncateIndex,
         WriteNames, CutName, SaveIndex, IndexFails, StdioFlush, Restart, StartUnlogged, StartUnsaved, history
<1>2. CASE MasterStep
  BY <1>1, <1>2 DEF MasterStep
<1>3. CASE Serve
  BY <1>3 DEF Serve, SyncRequest, WalkFile, WalkGarbage, WalkLoops, SyncFile, WalkFails, SyncReply,
              storeVars, history
<1>4. CASE Pull
  BY <1>4 DEF Pull, SlaveStart, SlaveSend, SlaveNotices, SlaveReconnect, SlaveRecv, SlaveSave, SlaveApply,
              SlaveSleep, storeVars, history
<1>5. CASE Disconnect \/ SlaveCrash \/ UNCHANGED vars
  BY <1>5 DEF Disconnect, SlaveCrash, vars, storeVars, history
<1> QED
  BY <1>2, <1>3, <1>4, <1>5 DEF Next

\* Only SlaveApply applies anything.
LEMMA OnlyApplyApplies == ASSUME [Next]_vars, ~SlaveApply PROVE UNCHANGED applied
<1>1. CASE MasterStep \/ MasterCrash
  BY <1>1 DEF MasterStep, MasterCrash, pullVars, accounts
<1>2. CASE Serve
  BY <1>2 DEF Serve, SyncRequest, WalkFile, WalkGarbage, WalkLoops, SyncFile, WalkFails, SyncReply, accounts
<1>3. CASE Pull
  BY <1>3 DEF Pull, SlaveStart, SlaveSend, SlaveNotices, SlaveReconnect, SlaveRecv, SlaveSave,
              SlaveSleep, accounts
<1>4. CASE Disconnect \/ SlaveCrash \/ UNCHANGED vars
  BY <1>4 DEF Disconnect, SlaveCrash, vars, pullVars, accounts
<1> QED
  BY <1>1, <1>2, <1>3, <1>4 DEF Next

\* A kill adds nothing to what no kill can take.
LEMMA DeathFixesNothing ==
  ASSUME StoreInv, StoreInv', ProcessDies, NEW a, Fixed(a)'
  PROVE  Fixed(a)
<1>1. /\ a \in Position /\ a.p \in Nat /\ a.f \in DOMAIN files' /\ a.p < Kept(a.f)' /\ RecordAt(a)' # Torn
  BY DEF Fixed, Durable, Position
<1>2. /\ files \in Seq(Seq(Record)) /\ files' \in Seq(Seq(Record)) /\ Len(files') = Len(files)
      /\ DOMAIN files = 1..Len(files) /\ DOMAIN files' = 1..Len(files')
      /\ flushed \in Nat
  BY DeathShortens DEF StoreInv, StoreTypeOK
<1>3. a.f \in DOMAIN files
  BY <1>1, <1>2
<1>4. Len(files[a.f]) \in Nat /\ Len(files'[a.f]) \in Nat
  BY <1>1, <1>2, <1>3
<1>5. cur' = NoFile /\ a.f # NoFile
  BY <1>2, <1>3 DEF ProcessDies, NoFile
<1>6. Kept(a.f)' = Len(files'[a.f])
  BY <1>5 DEF Kept
<1>7. a.p + 1 \in 1..Len(files'[a.f])
  BY <1>1, <1>4, <1>6
<1>8. Len(files'[a.f]) <= Len(files[a.f]) /\ files'[a.f][a.p + 1] = files[a.f][a.p + 1]
  BY <1>1, <1>3, <1>7, DeathShortens DEF RecordAt
<1>9. a.p < Kept(a.f)
  <2>1. CASE a.f = cur
    <3> SUFFICES ASSUME ~(a.p < flushed) PROVE FALSE
      BY <2>1 DEF Kept
    <3>1. a.p + 1 \in flushed + 1 .. Len(files'[a.f])
      BY <1>1, <1>2, <1>7
    <3> QED
      BY <1>1, <1>3, <2>1, <3>1, DeathShortens DEF RecordAt
  <2>2. CASE a.f # cur
    BY <1>1, <1>4, <1>6, <1>8, <2>2 DEF Kept
  <2> QED
    BY <2>1, <2>2
<1> QED
  BY <1>1, <1>3, <1>8, <1>9 DEF Fixed, Durable, RecordAt

\* What a step that is no kill of the master does to the log.
LEMMA LogExtends ==
  ASSUME StoreInv, StoreInv', TailInv, TailInv', [StoreNext]_storeVars, UNCHANGED forgotten
  PROVE  /\ HeldLog \subseteq HeldLog'
         /\ \A a \in HeldLog, b \in HeldLog' \ HeldLog : Before(a, b)
         /\ LostLog' = LostLog
<1>1. \A a : /\ a \in HeldLog <=> Fixed(a) /\ a.f \notin forgotten
             /\ a \in LostLog <=> Fixed(a) /\ a.f \in forgotten
  BY DurableIsLog
<1>2. \A a : /\ a \in HeldLog' <=> Fixed(a)' /\ a.f \notin forgotten
             /\ a \in LostLog' <=> Fixed(a)' /\ a.f \in forgotten
  <2>1. (\A a : /\ a \in HeldLog <=> Fixed(a) /\ a.f \notin forgotten
                /\ a \in LostLog <=> Fixed(a) /\ a.f \in forgotten)'
    BY DurableIsLog, PTL
  <2> QED
    BY <2>1
<1>3. \A a : Fixed(a) => Fixed(a)'
  BY FixedStays
<1>4. ASSUME NEW a \in HeldLog, NEW b \in HeldLog' \ HeldLog PROVE Before(a, b)
  <2>1. Durable(a) /\ a.f \notin forgotten
    BY <1>1 DEF Fixed
  <2>2. Fixed(b)' /\ ~Fixed(b)
    BY <1>1, <1>2
  <2>3. ~Durable(b)
    <3> SUFFICES ASSUME Durable(b) PROVE FALSE
      OBVIOUS
    <3>1. b.p \in Nat /\ b.f \in DOMAIN files /\ b.p < Kept(b.f) /\ Kept(b.f) \in Nat
      BY OnDiskIsPrefix DEF Durable, Position, DiskPrefix
    <3>2. b.p + 1 \in 1..Kept(b.f)
      BY <3>1
    <3>3. files'[b.f][b.p + 1] = files[b.f][b.p + 1]
      BY <3>1, <3>2, KeptGrows
    <3> QED
      BY <2>2, <3>3 DEF Fixed, RecordAt
  <2>4. Durable(b)'
    BY <2>2 DEF Fixed
  <2> QED
    BY <2>1, <2>3, <2>4, NewDurableBehind
<1>5. ASSUME NEW a, Fixed(a)', a.f \in forgotten PROVE Fixed(a)
  <2>1. /\ a.f \in DOMAIN files /\ a.f # cur /\ a.f \in DOMAIN files' /\ a.f # cur'
    BY <1>5, KeptGrows DEF TailInv
  <2>2. files'[a.f] = files[a.f]
    BY <2>1, OldFilesStay
  <2>3. Kept(a.f)' = Len(files'[a.f]) /\ Kept(a.f) = Len(files[a.f])
    BY <2>1 DEF Kept
  <2> QED
    BY <1>5, <2>1, <2>2, <2>3 DEF Fixed, Durable, RecordAt
<1>6. HeldLog \subseteq HeldLog'
  BY <1>1, <1>2, <1>3
<1>7. \A a : a \in LostLog' <=> a \in LostLog
  BY <1>1, <1>2, <1>3, <1>5
<1>8. LostLog' = LostLog
  BY <1>7
<1> QED
  BY <1>4, <1>6, <1>8

\* What a kill of the master does to it.
LEMMA LogForgets ==
  ASSUME StoreInv, StoreInv', [StoreNext]_storeVars, ProcessDies
  PROVE  HeldLog' \subseteq HeldLog /\ LostLog' = LostLog \cup (HeldLog \ HeldLog')
<1>1. \A a : /\ a \in HeldLog <=> Fixed(a) /\ a.f \notin forgotten
             /\ a \in LostLog <=> Fixed(a) /\ a.f \in forgotten
  BY DurableIsLog
<1>2. \A a : /\ a \in HeldLog' <=> Fixed(a)' /\ a.f \notin forgotten'
             /\ a \in LostLog' <=> Fixed(a)' /\ a.f \in forgotten'
  <2>1. (\A a : /\ a \in HeldLog <=> Fixed(a) /\ a.f \notin forgotten
                /\ a \in LostLog <=> Fixed(a) /\ a.f \in forgotten)'
    BY DurableIsLog, PTL
  <2> QED
    BY <2>1
<1>3. \A a : Fixed(a) <=> Fixed(a)'
  BY FixedStays, DeathFixesNothing
<1>4. forgotten \subseteq forgotten'
  BY ForgottenGrows
<1>5. \A a : a \in HeldLog' => a \in HeldLog
  BY <1>1, <1>2, <1>3, <1>4
<1>6. \A a : a \in LostLog' <=> a \in LostLog \cup (HeldLog \ HeldLog')
  BY <1>1, <1>2, <1>3, <1>4
<1> QED
  BY <1>5, <1>6

\* The slave applies records of the master's log in its order and none twice; the log
\* itself grows behind all it holds, and a kill takes from it only whole files that it
\* cuts out of BINLOG_INDEX.
THEOREM ReplicationImplements == Spec => ImplementsLogShipping
<1>1. Init => Shipping!Init
  <2> SUFFICES ASSUME Init PROVE HeldLog = {} /\ LostLog = {} /\ applied = <<>>
    BY DEF Shipping!Init, HeldLog, LostLog
  <2>1. files = << <<>> >> /\ applied = <<>>
    BY DEF Init, StoreInit
  <2>2. \A S, g : S \subseteq DOMAIN files /\ g \in S => 1..Len(files[g]) = {}
    BY <2>1
  <2>3. \A S : S \subseteq DOMAIN files => Positions(S) = {}
    BY <2>2 DEF Positions
  <2> QED
    BY <2>1, <2>3 DEF HeldLog, LostLog, Recorded
<1>2. ReplicationInv /\ ReplicationInv' /\ [Next]_vars => [Shipping!Next]_<<HeldLog, LostLog, applied>>
  <2> SUFFICES ASSUME ReplicationInv, ReplicationInv', [Next]_vars
               PROVE  Shipping!Next \/ UNCHANGED <<HeldLog, LostLog, applied>>
    OBVIOUS
  <2>1. StoreInv /\ TailInv /\ PullInv /\ PullTypeOK /\ ScanInv /\ StoreInv' /\ TailInv'
    BY DEF ReplicationInv, PullInv
  <2>2. [StoreNext]_storeVars
    BY <2>1, StepIsStore
  <2>3. CASE SlaveApply
    <3>1. PICK r : r = batch[done + 1]
      OBVIOUS
    <3>2. done + 1 \in DOMAIN batch /\ done + 1 > done
      BY <2>1, <2>3 DEF SlaveApply, PullTypeOK
    <3>3. UNCHANGED <<HeldLog, LostLog>>
      BY <2>3 DEF SlaveApply, storeVars, logVars, history, HeldLog, LostLog, Recorded, Positions, OnDisk
    <3>4. CASE r.rec = Torn
      <4>1. applied' = applied
        BY <2>3, <3>1, <3>4 DEF SlaveApply
      <4> QED
        BY <3>3, <4>1
    <3>5. CASE r.rec # Torn
      <4>1. applied' = Append(applied, Here(r))
        BY <2>3, <3>1, <3>5 DEF SlaveApply
      <4>2. done + 1 \in Readables(batch)
        BY <3>1, <3>2, <3>5 DEF Readables
      <4>3. Here(r) \in Places(batch)
        BY <3>1, <4>2 DEF Places
      <4>4. Fixed(Here(r)) /\ \A i \in DOMAIN applied : Before(applied[i], Here(r))
        BY <2>1, <3>1, <3>2, <4>2, <4>3 DEF PullInv, BatchInv
      <4>5. Here(r) \in HeldLog \cup LostLog
        BY <2>1, <4>4, DurableIsLog
      <4>6. Shipping!Deliver
        BY <3>3, <4>1, <4>4, <4>5 DEF Shipping!Deliver, Shipping!Before, Before, HeldLog, LostLog
      <4> QED
        BY <4>6 DEF Shipping!Next
    <3> QED
      BY <3>4, <3>5
  <2>4. CASE ~SlaveApply /\ ~MasterCrash
    <3>1. UNCHANGED <<applied, forgotten>>
      BY <2>4, OnlyApplyApplies, OnlyKillsForget
    <3>2. /\ HeldLog \subseteq HeldLog'
          /\ \A a \in HeldLog, b \in HeldLog' \ HeldLog : Before(a, b)
          /\ LostLog' = LostLog
      BY <2>1, <2>2, <3>1, LogExtends
    <3>3. Shipping!Extend
      BY <3>1, <3>2 DEF Shipping!Extend, Shipping!Before, Before, HeldLog, LostLog
    <3> QED
      BY <3>3 DEF Shipping!Next
  <2>5. CASE MasterCrash
    <3>1. ProcessDies /\ UNCHANGED applied
      BY <2>5 DEF MasterCrash, Crash, Killed, AppendToClosed, accounts
    <3>2. HeldLog' \subseteq HeldLog /\ LostLog' = LostLog \cup (HeldLog \ HeldLog')
      BY <2>1, <2>2, <3>1, LogForgets
    <3>3. Shipping!Forget
      BY <3>1, <3>2 DEF Shipping!Forget, HeldLog, LostLog
    <3> QED
      BY <3>3 DEF Shipping!Next
  <2> QED
    BY <2>3, <2>4, <2>5
<1> QED
  BY <1>1, <1>2, ReplicationInvariant, PTL DEF Spec, ImplementsLogShipping, Shipping!Spec, HeldLog, LostLog

-----------------------------------------------------------------------------
(* The replica *)

\* A record travels as it was read, and from where no kill can take it.
Faithful(s) == \A i \in DOMAIN s : Durable(Here(s[i])) /\ s[i].rec = RecordAt(Here(s[i]))

\* What the records applied so far make of k.
Copied(k, v) ==
  \/ (\A i \in DOMAIN applied : RecordAt(applied[i]).key # k) /\ v = Absent
  \/ \E i \in DOMAIN applied :
       /\ RecordAt(applied[i]).key = k /\ RecordAt(applied[i]).val = v
       /\ \A j \in DOMAIN applied : j > i => RecordAt(applied[j]).key # k

\* No kill has left a fragment.
Clean == \A a \in Position : Durable(a) => RecordAt(a) # Torn

InFlight == {s.out : s \in Underway}

CopyInv ==
  /\ \A i \in DOMAIN applied : Fixed(applied[i])
  /\ \A i, j \in DOMAIN applied : i < j => Before(applied[i], applied[j])
  /\ \A s \in InFlight : Faithful(s)
  /\ Faithful(batch)
  /\ Clean => \A k \in Keys : Copied(k, sdb[k])

LEMMA DurableSame ==
  ASSUME StoreInv, StoreInv', [StoreNext]_storeVars, NEW a, Durable(a)
  PROVE  Durable(a)' /\ RecordAt(a)' = RecordAt(a)
<1>1. a \in Position /\ a.f \in DOMAIN files /\ a.p < Kept(a.f) /\ a.p \in Nat
  BY DEF Durable, Position
<1>2. Kept(a.f) \in Nat
  BY <1>1, OnDiskIsPrefix DEF DiskPrefix
<1>3. a.p + 1 \in 1..Kept(a.f)
  BY <1>1, <1>2
<1>4. files'[a.f][a.p + 1] = files[a.f][a.p + 1]
  BY <1>1, <1>3, KeptGrows
<1> QED
  BY <1>4, DurableStays DEF RecordAt

LEMMA FaithfulStays ==
  ASSUME StoreInv, StoreInv', [StoreNext]_storeVars, NEW s, Faithful(s)
  PROVE  Faithful(s)'
<1> SUFFICES ASSUME NEW i \in DOMAIN s PROVE (Durable(Here(s[i])) /\ s[i].rec = RecordAt(Here(s[i])))'
  BY DEF Faithful
<1>1. PICK a : a = Here(s[i])
  OBVIOUS
<1>2. Durable(a) /\ s[i].rec = RecordAt(a)
  BY <1>1 DEF Faithful
<1>3. Durable(a)' /\ RecordAt(a)' = RecordAt(a)
  BY <1>2, DurableSame
<1> QED
  BY <1>1, <1>2, <1>3

LEMMA CleanBefore ==
  ASSUME StoreInv, StoreInv', [StoreNext]_storeVars, Clean'
  PROVE  Clean
<1> SUFFICES ASSUME NEW a \in Position, Durable(a) PROVE RecordAt(a) # Torn
  BY DEF Clean
<1>1. Durable(a)' /\ RecordAt(a)' = RecordAt(a)
  BY DurableSame
<1> QED
  BY <1>1 DEF Clean

\* What the slave has copied is not touched by a step that applies nothing.
LEMMA CopiedStays ==
  ASSUME StoreInv, StoreInv', [StoreNext]_storeVars, CopyInv, UNCHANGED <<applied, sdb>>
  PROVE  /\ \A i \in DOMAIN applied' : Fixed(applied[i])'
         /\ Clean' => \A k \in Keys : Copied(k, sdb[k])'
<1>1. PICK h : h = applied
  OBVIOUS
<1>2. \A i \in DOMAIN h : Fixed(h[i])
  BY <1>1 DEF CopyInv
<1>3. \A i \in DOMAIN h : Fixed(h[i])' /\ RecordAt(h[i])' = RecordAt(h[i])
  BY <1>2, FixedStays, DurableSame DEF Fixed
<1>4. h = applied'
  BY <1>1
<1>5. \A k, v : Copied(k, v) => Copied(k, v)'
  BY <1>1, <1>3, <1>4 DEF Copied
<1>6. PICK d : d = sdb
  OBVIOUS
<1>7. Clean => \A k \in Keys : Copied(k, d[k])
  BY <1>6 DEF CopyInv
<1>8. d = sdb'
  BY <1>6
<1>9. Clean' => \A k \in Keys : Copied(k, d[k])'
  BY <1>5, <1>7, CleanBefore
<1> QED
  BY <1>3, <1>4, <1>8, <1>9

Joins == \A s, t \in Seq(Tagged) : Faithful(s) /\ Faithful(t) => Faithful(s \o t)

LEMMA JoinedFaithful == Joins
<1> SUFFICES ASSUME NEW s \in Seq(Tagged), NEW t \in Seq(Tagged), Faithful(s), Faithful(t)
             PROVE  Faithful(s \o t)
  BY DEF Joins
<1> DEFINE u == s \o t
<1>1. /\ DOMAIN u = 1 .. Len(s) + Len(t) /\ Len(s) \in Nat /\ Len(t) \in Nat
      /\ DOMAIN s = 1..Len(s) /\ DOMAIN t = 1..Len(t)
      /\ \A i \in 1..Len(s) : u[i] = s[i]
      /\ \A i \in Len(s) + 1 .. Len(s) + Len(t) : u[i] = t[i - Len(s)]
  OBVIOUS
<1> HIDE DEF u
<1> SUFFICES ASSUME NEW i \in DOMAIN u PROVE Durable(Here(u[i])) /\ u[i].rec = RecordAt(Here(u[i]))
  BY DEF Faithful, u
<1>2. i \in 1..Len(s) \/ (i \in Len(s) + 1 .. Len(s) + Len(t) /\ i - Len(s) \in 1..Len(t))
  BY <1>1
<1>3. (\E j \in DOMAIN s : u[i] = s[j]) \/ (\E j \in DOMAIN t : u[i] = t[j])
  BY <1>1, <1>2
<1> QED
  BY <1>3 DEF Faithful

\* A round of the walk adds to the stream what it has read, the fragment of a torn record
\* included, from a file that it has flushed.
LEMMA WalkCopies ==
  ASSUME ReplicationInv, ReplicationInv', CopyInv, [StoreNext]_storeVars,
         NEW f, NEW st, NEW t, NEW to, NEW p, Round(f, st, t, to, p)
  PROVE  \A s \in InFlight' : Faithful(s)'
<1>1. StoreInv /\ StoreInv' /\ PullInv
  BY DEF ReplicationInv
<1>2. PICK r : r = scan
  OBVIOUS
<1>3. /\ scan.st = "walk" /\ scan # IdleScan /\ scan.idx <= Len(fileList) /\ f = fileList[scan.idx]
      /\ rep' = rep /\ UNCHANGED <<files, cur>> /\ flushed' = IF f = cur THEN Len(files[f]) ELSE flushed
      /\ scan'.out = r.out \o t
      /\ t \in Seq(Tagged) /\ AsRead(f, t)
  BY <1>2 DEF Round, SyncFile, SizeRead, Walked, IdleScan, netVars
<1>4. scan \in Scan /\ rep = NoMsg /\ r \in Underway
  BY <1>1, <1>2, <1>3 DEF PullInv, PullTypeOK, NetInv, Underway
<1>5. r.out \in Seq(Tagged)
  BY <1>2, <1>4 DEF Scan
<1>6. f \in DOMAIN files /\ f \in Nat /\ Len(files[f]) \in Nat
  <2>1. TailInv
    BY DEF ReplicationInv
  <2> QED
    BY <1>1, <1>3, <2>1, WalkStands
<1>7. Faithful(r.out)'
  <2>1. Faithful(r.out)
    BY <1>4 DEF CopyInv, InFlight
  <2> QED
    BY <1>1, <2>1, FaithfulStays
<1>8. Faithful(t)'
  <2> SUFFICES ASSUME NEW i \in DOMAIN t PROVE (Durable(Here(t[i])) /\ t[i].rec = RecordAt(Here(t[i])))'
    BY DEF Faithful
  <2>1. t[i].f = f /\ t[i].p \in Nat /\ t[i].p < Len(files[f]) /\ t[i].rec = files[f][t[i].p + 1]
    BY <1>3 DEF AsRead
  <2>2. Kept(f)' = Len(files[f])
    BY <1>3 DEF Kept
  <2>3. PICK a : a = Here(t[i])
    OBVIOUS
  <2>4. a.f = f /\ a.p = t[i].p /\ a \in Position
    BY <1>6, <2>1, <2>3 DEF Here, Position
  <2>5. Durable(a)' /\ t[i].rec = RecordAt(a)'
    BY <1>3, <1>6, <2>1, <2>2, <2>4 DEF Durable, RecordAt
  <2> QED
    BY <2>3, <2>5
<1>9. PICK u : u = r.out \o t
  OBVIOUS
<1>10. Faithful(u)'
  <2>1. Joins'
    BY JoinedFaithful, PTL
  <2> QED
    BY <1>3, <1>5, <1>7, <1>8, <1>9, <2>1 DEF Joins
<1>11. InFlight' \subseteq {u}
  BY <1>3, <1>4, <1>9 DEF InFlight, Underway
<1> QED
  BY <1>10, <1>11

\* Nothing else comes into the stream.
LEMMA NothingElseSent ==
  ASSUME ReplicationInv, [Next]_vars, ~(WalkFile \/ WalkGarbage)
  PROVE  InFlight' \subseteq InFlight \cup {<<>>}
<1>0. NetInv
  BY DEF ReplicationInv, PullInv
<1>1. CASE UNCHANGED <<scan, rep>>
  BY <1>1 DEF InFlight, Underway
<1>2. CASE MasterCrash \/ Disconnect \/ SlaveCrash
  BY <1>2 DEF MasterCrash, Disconnect, SlaveCrash, LoseConnection, InFlight, Underway
<1>3. CASE SyncRequest
  <2>1. scan = IdleScan /\ rep = NoMsg
    BY <1>0, <1>3 DEF SyncRequest, NetInv
  <2>2. \/ rep' = rep /\ scan'.out = <<>>
        \/ rep' = [ok |-> FALSE] /\ scan' = scan
        \/ rep'.out = <<>> /\ scan' = scan
    BY <1>3 DEF SyncRequest
  <2>5. CASE rep'.out = <<>> /\ scan' = scan
    BY <2>1, <2>5 DEF InFlight, Underway
  <2>3. CASE rep' = rep /\ scan'.out = <<>>
    BY <2>1, <2>3 DEF InFlight, Underway
  <2>4. CASE rep' = [ok |-> FALSE] /\ scan' = scan
    <3>1. [ok |-> FALSE].ok = FALSE
      OBVIOUS
    <3>2. ~rep'.ok
      BY <2>4, <3>1, Zenon
    <3>3. scan' = IdleScan
      BY <2>1, <2>4
    <3>4. Underway' = {}
      BY <3>2, <3>3 DEF Underway
    <3> QED
      BY <3>4 DEF InFlight
  <2> QED
    BY <2>2, <2>3, <2>4, <2>5
<1>9. CASE WalkLoops
  <2>1. scan # IdleScan /\ scan \in Scan /\ rep = NoMsg /\ rep' = rep /\ scan' = [scan EXCEPT !.st = "loop"]
    BY <1>0, <1>9 DEF WalkLoops, SyncFile, IdleScan, netVars, NetInv, ReplicationInv, PullInv, PullTypeOK
  <2>2. scan'.out = scan.out
    BY <2>1 DEF Scan
  <2> QED
    BY <2>1, <2>2 DEF InFlight, Underway
<1>4. CASE WalkFails
  <2>1. scan # IdleScan /\ scan \in Scan /\ rep = NoMsg /\ rep' = rep /\ scan' = [scan EXCEPT !.st = "reply"]
    BY <1>0, <1>4 DEF WalkFails, IdleScan, netVars, NetInv, ReplicationInv, PullInv, PullTypeOK
  <2>2. scan'.out = scan.out
    BY <2>1 DEF Scan
  <2> QED
    BY <2>1, <2>2 DEF InFlight, Underway
<1>5. CASE SyncReply
  <2>1. scan # IdleScan /\ scan' = IdleScan /\ rep'.out = scan.out
    BY <1>5 DEF SyncReply
  <2> QED
    BY <2>1 DEF InFlight, Underway
<1>6. CASE SlaveRecv
  BY <1>6 DEF SlaveRecv, InFlight, Underway
<1>7. CASE MasterStep \/ UNCHANGED vars
  BY <1>1, <1>7 DEF MasterStep, vars, pullVars, netVars
<1>8. CASE Pull
  BY <1>1, <1>6, <1>8 DEF Pull, SlaveStart, SlaveSend, SlaveNotices, SlaveReconnect, SlaveSave,
                          SlaveApply, SlaveSleep, netVars
<1> QED
  BY <1>2, <1>3, <1>4, <1>5, <1>7, <1>8, <1>9 DEF Next, Serve

LEMMA ApplyCopies ==
  ASSUME ReplicationInv, CopyInv, SlaveApply
  PROVE  /\ \A i \in DOMAIN applied' : Fixed(applied'[i])
         /\ \A i, j \in DOMAIN applied' : i < j => Before(applied'[i], applied'[j])
         /\ Clean => \A k \in Keys : Copied(k, sdb[k])'
<1>0. StoreInv /\ PullInv
  BY DEF ReplicationInv
<1>1. PICK r : r = batch[done + 1]
  OBVIOUS
<1>2. PICK h : h = Here(r)
  OBVIOUS
<1>3. /\ sdb' \in Effect(r.rec) /\ applied' = (IF r.rec # Torn THEN Append(applied, h) ELSE applied)
      /\ files' = files /\ done < Len(batch)
  BY <1>1, <1>2 DEF SlaveApply, storeVars, logVars
<1>4. done + 1 \in DOMAIN batch /\ done + 1 > done
  BY <1>0, <1>3 DEF PullInv, PullTypeOK
<1>5. r \in Tagged /\ h \in Position
  <2>1. r \in Tagged
    BY <1>0, <1>1, <1>4 DEF PullInv, PullTypeOK
  <2> QED
    BY <1>2, <2>1 DEF Tagged, Position, Here
<1>6. Durable(h) /\ r.rec = RecordAt(h)
  BY <1>1, <1>2, <1>4 DEF CopyInv, Faithful
<1>14. CASE r.rec = Torn
  <2>1. ~Clean
    BY <1>5, <1>6, <1>14 DEF Clean
  <2>2. applied' = applied
    BY <1>3, <1>14
  <2> QED
    BY <2>1, <2>2 DEF CopyInv
<1>15. CASE r.rec # Torn
  <2>0. applied' = Append(applied, h)
    BY <1>3, <1>15
  <2>16. Fixed(h) /\ \A i \in DOMAIN applied : Before(applied[i], h)
    <3>1. done + 1 \in Readables(batch)
      BY <1>1, <1>4, <1>15 DEF Readables
    <3> QED
      BY <1>0, <1>1, <1>2, <1>4, <1>6, <1>15, <3>1 DEF PullInv, BatchInv, Fixed
  <2>7. PICK n : n = Len(applied) + 1
    OBVIOUS
  <2>8. /\ applied \in Seq(Position) /\ Len(applied) \in Nat /\ DOMAIN applied = 1..Len(applied)
        /\ n \in Nat
    BY <1>0, <2>7 DEF PullInv, PullTypeOK
  <2>9. /\ DOMAIN applied' = 1..n /\ n \in DOMAIN applied' /\ applied'[n] = h
        /\ \A i \in DOMAIN applied : i \in DOMAIN applied' /\ applied'[i] = applied[i] /\ i < n
    BY <1>5, <2>0, <2>7, <2>8
  <2>10. \A i \in DOMAIN applied' : i \in DOMAIN applied \/ i = n
    <3> SUFFICES ASSUME NEW i \in 1..n PROVE i \in 1..Len(applied) \/ i = n
      BY <2>8, <2>9
    <3> QED
      BY <2>7, <2>8
  <2>11. \A i \in DOMAIN applied' : Fixed(applied'[i])
    BY <2>9, <2>10, <2>16 DEF CopyInv
  <2>12. \A i, j \in DOMAIN applied' : i < j => Before(applied'[i], applied'[j])
    <3> SUFFICES ASSUME NEW i \in DOMAIN applied', NEW j \in DOMAIN applied', i < j
                 PROVE  Before(applied'[i], applied'[j])
      OBVIOUS
    <3>1. i \in 1..n /\ j \in 1..n
      BY <2>9
    <3>2. i # n
      BY <2>8, <3>1
    <3>3. i \in DOMAIN applied
      BY <2>10, <3>2
    <3>4. CASE j = n
      BY <2>9, <2>16, <3>3, <3>4
    <3>5. CASE j \in DOMAIN applied
      BY <2>9, <3>3, <3>5 DEF CopyInv
    <3> QED
      BY <2>10, <3>4, <3>5
  <2>13. ASSUME Clean PROVE \A k \in Keys : Copied(k, sdb[k])'
    <3>1. r.rec \in Item /\ r.rec.key \in Keys
      BY <1>5, <1>15 DEF Tagged, Record, Item
    <3>2. sdb' = [sdb EXCEPT ![r.rec.key] = r.rec.val] /\ sdb \in [Keys -> Values \cup {Absent}]
      BY <1>0, <1>3, <1>15 DEF Effect, Stored, PullInv, PullTypeOK
    <3> SUFFICES ASSUME NEW k \in Keys PROVE Copied(k, sdb[k])'
      OBVIOUS
    <3>3. CASE k = r.rec.key
      <4>1. sdb'[k] = r.rec.val
        BY <3>1, <3>2, <3>3
      <4>2. \A j \in DOMAIN applied' : ~(j > n)
        BY <2>8, <2>9
      <4>3. RecordAt(applied[n])' = r.rec
        BY <1>3, <1>6, <2>9 DEF RecordAt
      <4> QED
        BY <2>9, <3>3, <4>1, <4>2, <4>3 DEF Copied
    <3>4. CASE k # r.rec.key
      <4>1. PICK v : v = sdb[k]
        OBVIOUS
      <4>2. sdb'[k] = v
        BY <3>1, <3>2, <3>4, <4>1
      <4>3. Copied(k, v)
        BY <2>13, <4>1 DEF CopyInv
      <4>4. \A a : RecordAt(a)' = RecordAt(a)
        BY <1>3 DEF RecordAt
      <4>5. RecordAt(applied'[n]).key # k
        BY <1>6, <2>9, <3>4
      <4>6. CASE (\A i \in DOMAIN applied : RecordAt(applied[i]).key # k) /\ v = Absent
        <5>1. \A i \in DOMAIN applied' : RecordAt(applied'[i]).key # k
          BY <2>9, <2>10, <4>5, <4>6
        <5> QED
          BY <1>3, <4>2, <4>6, <5>1 DEF Copied, RecordAt
      <4>7. ASSUME NEW i \in DOMAIN applied, RecordAt(applied[i]).key = k, RecordAt(applied[i]).val = v,
                   \A j \in DOMAIN applied : j > i => RecordAt(applied[j]).key # k
            PROVE  Copied(k, sdb[k])'
        <5>1. i \in DOMAIN applied' /\ RecordAt(applied'[i]).key = k /\ RecordAt(applied'[i]).val = v
          BY <2>9, <4>7
        <5>2. \A j \in DOMAIN applied' : j > i => RecordAt(applied'[j]).key # k
          BY <2>9, <2>10, <4>5, <4>7
        <5> QED
          BY <1>3, <4>2, <5>1, <5>2 DEF Copied, RecordAt
      <4> QED
        BY <4>3, <4>6, <4>7 DEF Copied
    <3> QED
      BY <3>3, <3>4
  <2> QED
    BY <2>11, <2>12, <2>13
<1> QED
  BY <1>14, <1>15

LEMMA CopyStep ==
  ASSUME ReplicationInv, ReplicationInv', CopyInv, [Next]_vars
  PROVE  CopyInv'
<1>0. StoreInv /\ StoreInv' /\ TailInv /\ PullInv
  BY DEF ReplicationInv
<1>1. [StoreNext]_storeVars
  BY <1>0, StepIsStore DEF PullInv
<1>2. \A s \in InFlight : Faithful(s)'
  <2> SUFFICES ASSUME NEW s \in InFlight PROVE Faithful(s)'
    OBVIOUS
  <2> QED
    BY <1>0, <1>1, FaithfulStays DEF CopyInv
<1>3. Faithful(<<>>)'
  BY DEF Faithful
<1>4. \A s \in InFlight' : Faithful(s)'
  <2>1. CASE WalkFile \/ WalkGarbage
    BY <1>1, <2>1, WalkFileRound, WalkGarbageRound, WalkCopies
  <2>2. CASE ~(WalkFile \/ WalkGarbage)
    BY <1>2, <1>3, <2>2, NothingElseSent
  <2> QED
    BY <2>1, <2>2
<1>5. Faithful(batch)'
  <2>1. batch' = batch \/ batch' = <<>> \/ batch' \in InFlight
    <3>1. CASE SlaveRecv
      BY <3>1 DEF SlaveRecv, InFlight, Underway
    <3>2. CASE ~SlaveRecv
      BY <3>2 DEF Next, MasterStep, MasterCrash, Serve, SyncRequest, WalkFile, WalkGarbage, WalkLoops, SyncFile, WalkFails, SyncReply,
         Disconnect, Pull, SlaveStart, SlaveSend, SlaveNotices, SlaveReconnect, SlaveSave,
         SlaveApply, SlaveSleep, SlaveCrash, vars, pullVars, slaveVars
    <3> QED
      BY <3>1, <3>2
  <2>2. PICK b : b = batch
    OBVIOUS
  <2>3. Faithful(b)
    BY <2>2 DEF CopyInv
  <2>4. Faithful(b)'
    BY <1>0, <1>1, <2>3, FaithfulStays
  <2>5. PICK c : c = batch'
    OBVIOUS
  <2>6. Faithful(c)'
    BY <1>2, <1>3, <2>1, <2>2, <2>4, <2>5
  <2> QED
    BY <2>5, <2>6
<1>6. /\ \A i \in DOMAIN applied' : Fixed(applied[i])'
      /\ \A i, j \in DOMAIN applied' : i < j => Before(applied'[i], applied'[j])
      /\ Clean' => \A k \in Keys : Copied(k, sdb[k])'
  <2>1. CASE SlaveApply
    <3>1. UNCHANGED <<files, cur, flushed>>
      BY <2>1 DEF SlaveApply, storeVars, logVars
    <3>2. \A a : /\ Durable(a)' <=> Durable(a)
                 /\ Fixed(a)' <=> Fixed(a)
                 /\ RecordAt(a)' = RecordAt(a)
      BY <3>1 DEF Durable, Kept, Fixed, RecordAt
    <3>3. PICK h : h = applied'
      OBVIOUS
    <3>4. /\ \A i \in DOMAIN h : Fixed(h[i])
          /\ \A i, j \in DOMAIN h : i < j => Before(h[i], h[j])
          /\ Clean => \A k \in Keys : Copied(k, sdb[k])'
      BY <2>1, <3>3, ApplyCopies
    <3>5. Clean' => Clean
      BY <3>2 DEF Clean
    <3> QED
      BY <3>2, <3>3, <3>4, <3>5
  <2>2. CASE ~SlaveApply
    <3>1. UNCHANGED <<applied, sdb>>
      BY <2>2 DEF Next, MasterStep, MasterCrash, Serve, SyncRequest, WalkFile, WalkGarbage, WalkLoops, SyncFile, WalkFails, SyncReply,
         Disconnect, Pull, SlaveStart, SlaveSend, SlaveNotices, SlaveReconnect, SlaveRecv, SlaveSave,
         SlaveSleep, SlaveCrash, vars, pullVars, slaveVars, accounts
    <3> QED
      BY <1>0, <1>1, <3>1, CopiedStays DEF CopyInv
  <2> QED
    BY <2>1, <2>2
<1> QED
  BY <1>4, <1>5, <1>6 DEF CopyInv

LEMMA CopyInit == Init => CopyInv
<1> SUFFICES ASSUME Init PROVE CopyInv
  OBVIOUS
<1>1. /\ applied = <<>> /\ batch = <<>> /\ sdb = [k \in Keys |-> Absent]
      /\ scan = IdleScan /\ rep = NoMsg
  BY DEF Init
<1>2. InFlight = {}
  BY <1>1 DEF InFlight, Underway
<1>3. \A k \in Keys : Copied(k, sdb[k])
  BY <1>1 DEF Copied
<1> QED
  BY <1>1, <1>2, <1>3 DEF CopyInv, Faithful

THEOREM CopyInvariant == Spec => []CopyInv
<1>1. ReplicationInv /\ ReplicationInv' /\ CopyInv /\ [Next]_vars => CopyInv'
  BY CopyStep
<1> QED
  BY <1>1, CopyInit, ReplicationInvariant, PTL DEF Spec

LEMMA MasterRecords == Spec => []RecordInv
<1>1. Init => RecordInv
  BY RecordInit DEF Init
<1>2. ReplicationInv /\ ReplicationInv' /\ RecordInv /\ [Next]_vars => RecordInv'
  <2> SUFFICES ASSUME ReplicationInv, ReplicationInv', RecordInv, [Next]_vars PROVE RecordInv'
    OBVIOUS
  <2>1. StoreInv /\ StoreInv' /\ TailInv /\ TailInv' /\ PullTypeOK /\ ScanInv
    BY DEF ReplicationInv, PullInv
  <2> QED
    BY <2>1, StepIsStore, RecordStep
<1> QED
  BY <1>1, <1>2, ReplicationInvariant, PTL DEF Spec

\* The keys of what lies in files that BINLOG_INDEX has lost are known.
StrandedInv ==
  \A f \in forgotten : \A i \in 1..Len(files[f]) : files[f][i] # Torn => files[f][i].key \in unlogged

LEMMA UnloggedGrows == [StoreNext]_storeVars => unlogged \subseteq unlogged'
  BY DEF StoreNext, StoreStep, Request, ThreadStep, FileStep, SetValue, RemoveKey, WriteDb, Clear,
         ClearDatabase, ClearKey, ClearDone, AppendRecord, Rotate, RotateFails, PublishName, TruncateIndex,
         WriteNames, CutName, SaveIndex, IndexFails, StdioFlush, Crash, Killed, AppendToClosed, ProcessDies,
         Restart, StartUnlogged, StartUnsaved, storeVars, history

LEMMA StrandedStep ==
  ASSUME ReplicationInv, ReplicationInv', StrandedInv, [Next]_vars
  PROVE  StrandedInv'
<1>1. StoreInv /\ StoreInv' /\ TailInv /\ PullTypeOK /\ ScanInv
  BY DEF ReplicationInv, PullInv
<1>2. [StoreNext]_storeVars
  BY <1>1, StepIsStore
<1>3. unlogged \subseteq unlogged'
  BY <1>2, UnloggedGrows
<1>4. ASSUME NEW f \in forgotten, NEW i \in 1..Len(files'[f]), files'[f][i] # Torn
      PROVE  files'[f][i].key \in unlogged'
  <2>1. f \in DOMAIN files /\ f # cur /\ f \in DOMAIN files'
    BY <1>1, <1>2, KeptGrows DEF TailInv
  <2>2. files'[f] = files[f]
    BY <1>1, <1>2, <2>1, OldFilesStay
  <2> QED
    BY <1>3, <1>4, <2>2 DEF StrandedInv
<1>5. CASE ~MasterCrash
  <2>1. forgotten' = forgotten
    BY <1>5, OnlyKillsForget
  <2> QED
    BY <1>4, <2>1 DEF StrandedInv
<1>6. CASE MasterCrash
  <2>1. ProcessDies
    BY <1>6 DEF MasterCrash, Crash, Killed, AppendToClosed
  <2>2. forgotten' = forgotten \cup Forgotten /\ unlogged' = unlogged \cup LostKeys
    BY <2>1 DEF ProcessDies
  <2>3. ASSUME NEW f \in Forgotten, NEW i \in 1..Len(files'[f]), files'[f][i] # Torn
        PROVE  files'[f][i].key \in unlogged'
    <3>1. f \in DOMAIN files
      <4>1. f \in Range(fileList)
        BY <2>3 DEF Forgotten
      <4>2. PICK j \in DOMAIN fileList : fileList[j] = f
        BY <4>1, RangeOf
      <4>3. f \in 1..Len(files)
        BY <1>1, <4>2 DEF StoreInv, FileInv
      <4> QED
        BY <1>1, <4>3 DEF StoreInv, StoreTypeOK
    <3>2. Len(files'[f]) <= Len(files[f]) /\ files'[f][i] = files[f][i]
      BY <1>1, <2>1, <2>3, <3>1, DeathShortens
    <3>3. i \in DOMAIN files[f]
      <4>1. files[f] \in Seq(Record) /\ Len(files[f]) \in Nat /\ DOMAIN files[f] = 1..Len(files[f])
        BY <1>1, <3>1 DEF StoreInv, StoreTypeOK
      <4>2. files' \in Seq(Seq(Record)) /\ f \in DOMAIN files'
        BY <1>1, <1>2, <3>1, KeptGrows DEF StoreInv, StoreTypeOK
      <4>3. Len(files'[f]) \in Nat
        BY <4>2
      <4> QED
        BY <3>2, <4>1, <4>3
    <3>4. files[f][i].key \in LostKeys
      <4>1. files[f][i].key \in {files[f][j].key : j \in {m \in DOMAIN files[f] : files[f][m] # Torn}}
        BY <2>3, <3>2, <3>3
      <4>2. files[f][i].key \in UNION {{files[g][j].key : j \in {m \in DOMAIN files[g] : files[g][m] # Torn}}
                                          : g \in Forgotten}
        BY <4>1
      <4> QED
        BY <4>2 DEF LostKeys
    <3> QED
      BY <2>2, <3>2, <3>4
  <2>4. ASSUME NEW f \in forgotten', NEW i \in 1..Len(files'[f]), files'[f][i] # Torn
        PROVE  files'[f][i].key \in unlogged'
    BY <1>4, <2>2, <2>3, <2>4
  <2> QED
    BY <2>4 DEF StrandedInv
<1> QED
  BY <1>5, <1>6

LEMMA StrandedRecords == Spec => []StrandedInv
<1>1. Init => StrandedInv
  BY DEF Init, StoreInit, StrandedInv
<1>2. ReplicationInv /\ ReplicationInv' /\ StrandedInv /\ [Next]_vars => StrandedInv'
  BY StrandedStep
<1> QED
  BY <1>1, <1>2, ReplicationInvariant, PTL DEF Spec

\* When the slave has applied all the log the program knows of, and no record is torn, its
\* databases equal the master's but for the keys LogReproducesDb excepts.
THEOREM ReplicaEquals == Spec => []ReplicaEqualsMaster
<1>1. ReplicationInv /\ RecordInv /\ CopyInv /\ StrandedInv => ReplicaEqualsMaster
  <2> SUFFICES ASSUME ReplicationInv, RecordInv, CopyInv, StrandedInv,
                      \A a \in Positions(Known) : \E i \in DOMAIN applied : applied[i] = a,
                      \A f \in DOMAIN files : ~Damaged(f),
                      NEW k \in Keys \ (raced \cup unlogged),
                      \A t \in Threads : pc[t] = "append" => op[t].key # k
               PROVE  sdb[k] = db[k]
    BY DEF ReplicaEqualsMaster
  <2>1. StoreInv /\ TailInv /\ PullInv
    BY DEF ReplicationInv
  <2>2. \A a : a \in Positions(Known) <=> InLog(a)
    BY <2>1, PositionsInLog
  <2>3. \A i \in DOMAIN applied :
          /\ applied[i] \in Position /\ applied[i].f \in DOMAIN files
          /\ applied[i].p < Len(files[applied[i].f])
    <3> SUFFICES ASSUME NEW i \in DOMAIN applied
                 PROVE  /\ applied[i] \in Position /\ applied[i].f \in DOMAIN files
                        /\ applied[i].p < Len(files[applied[i].f])
      OBVIOUS
    <3>1. Durable(applied[i])
      BY DEF CopyInv, Fixed
    <3>2. PICK a : a = applied[i]
      OBVIOUS
    <3>3. a \in Position /\ a.f \in DOMAIN files /\ a.p < Kept(a.f) /\ a.p \in Nat
      BY <3>1, <3>2 DEF Durable, Position
    <3>4. Kept(a.f) \in Nat /\ Kept(a.f) <= Len(files[a.f])
      BY <2>1, <3>3, OnDiskIsPrefix DEF DiskPrefix
    <3>5. Len(files[a.f]) \in Nat
      BY <2>1, <3>3 DEF StoreInv, StoreTypeOK
    <3> QED
      BY <3>2, <3>3, <3>4, <3>5
  <2>4. \A a \in Position : a.f \in DOMAIN files /\ a.p < Len(files[a.f])
                              => a.p + 1 \in 1..Len(files[a.f]) /\ RecordAt(a) # Torn
    <3> SUFFICES ASSUME NEW a \in Position, a.f \in DOMAIN files, a.p < Len(files[a.f])
                 PROVE  a.p + 1 \in 1..Len(files[a.f]) /\ RecordAt(a) # Torn
      OBVIOUS
    <3>1. a.p \in Nat
      BY DEF Position
    <3>2. a.p + 1 \in 1..Len(files[a.f])
      BY <2>1, <3>1 DEF StoreInv, StoreTypeOK
    <3> QED
      BY <3>2 DEF Damaged, RecordAt
  <2>5. Clean
    <3> SUFFICES ASSUME NEW a \in Position, Durable(a) PROVE RecordAt(a) # Torn
      BY DEF Clean
    <3>1. a.p \in Nat /\ a.f \in DOMAIN files /\ a.p < Kept(a.f)
      BY DEF Durable, Position
    <3>2. Kept(a.f) \in Nat /\ Kept(a.f) <= Len(files[a.f]) /\ Len(files[a.f]) \in Nat
      BY <2>1, <3>1, OnDiskIsPrefix DEF DiskPrefix, StoreInv, StoreTypeOK
    <3>3. a.p < Len(files[a.f])
      BY <3>1, <3>2
    <3> QED
      BY <2>4, <3>1, <3>3
  <2>6. Copied(k, sdb[k])
    BY <2>5 DEF CopyInv
  <2>7. Newest(k, db[k])
    BY DEF RecordInv, Pending
  <2>8. \A a : a \in Mine(k) <=> InLog(a) /\ RecordAt(a).key = k
    BY <2>2, <2>4 DEF Mine, InLog
  <2>11. \A i \in DOMAIN applied : RecordAt(applied[i]).key = k => applied[i] \in Mine(k)
    <3> SUFFICES ASSUME NEW i \in DOMAIN applied, RecordAt(applied[i]).key = k PROVE InLog(applied[i])
      BY <2>8
    <3>1. PICK a : a = applied[i]
      OBVIOUS
    <3>2. a \in Position /\ a.f \in DOMAIN files /\ a.p < Len(files[a.f]) /\ RecordAt(a).key = k
      BY <2>3, <3>1
    <3>3. a.f \notin forgotten
      BY <2>4, <3>2 DEF StrandedInv, RecordAt
    <3> QED
      BY <3>1, <3>2, <3>3 DEF InLog
  <2>9. CASE Mine(k) = {}
    <3>1. \A i \in DOMAIN applied : RecordAt(applied[i]).key # k
      BY <2>11, <2>9
    <3>2. sdb[k] = Absent
      BY <2>6, <3>1 DEF Copied
    <3>3. db[k] = Absent
      BY <2>7, <2>9 DEF Newest
    <3> QED
      BY <3>2, <3>3
  <2>10. CASE Mine(k) # {}
    <3>1. PICK a \in Mine(k) : RecordAt(a).val = db[k] /\ \A b \in Mine(k) : b = a \/ Before(b, a)
      BY <2>7, <2>10 DEF Newest
    <3>2. PICK i \in DOMAIN applied : applied[i] = a
      BY <2>2, <2>8, <3>1
    <3>3. RecordAt(applied[i]).key = k
      BY <2>8, <3>1, <3>2
    <3>4. PICK j \in DOMAIN applied :
            /\ RecordAt(applied[j]).key = k /\ RecordAt(applied[j]).val = sdb[k]
            /\ \A m \in DOMAIN applied : m > j => RecordAt(applied[m]).key # k
      BY <2>6, <3>3 DEF Copied
    <3>5. applied[j] \in Mine(k)
      BY <2>11, <3>4
    <3>6. i \in Nat /\ j \in Nat
      BY <2>1 DEF PullInv, PullTypeOK
    <3>7. ~(i > j)
      BY <3>3, <3>4
    <3>8. applied[j] = a
      <4> SUFFICES ASSUME applied[j] # a PROVE FALSE
        OBVIOUS
      <4>1. Before(applied[j], a)
        BY <3>1, <3>5
      <4>2. i < j
        BY <3>2, <3>6, <3>7
      <4>3. Before(a, applied[j])
        BY <3>2, <4>2 DEF CopyInv
      <4>4. InLog(a) /\ InLog(applied[j])
        BY <2>8, <3>1, <3>5
      <4>5. a.f \in Nat /\ a.p \in Nat /\ applied[j].f \in Nat /\ applied[j].p \in Nat
        BY <4>4 DEF InLog, Position
      <4> QED
        BY <4>1, <4>3, <4>5 DEF Before
    <3> QED
      BY <3>1, <3>4, <3>8
  <2> QED
    BY <2>9, <2>10
<1> QED
  BY <1>1, ReplicationInvariant, MasterRecords, CopyInvariant, StrandedRecords, PTL
=============================================================================
