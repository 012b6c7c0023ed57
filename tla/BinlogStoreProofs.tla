--------------------------- MODULE BinlogStoreProofs ---------------------------
(***************************************************************************)
(* Proofs about BinlogStore for any threads, keys, values and bounds.      *)
(***************************************************************************)
EXTENDS BinlogStore, SequenceTheorems, TLAPS

Ascending(s) == \A i, j \in DOMAIN s : i < j => s[i] < s[j]

Unsaved == {"publish", "truncate", "save"}

\* Whoever rotates holds m_binlogMutex.
MutexInv == \A t \in Threads : pc[t] \in LockedStages => binlogMutex = t

\* The file being written, and its place in the lists of names.
FileInv ==
  /\ cur # NoFile => flushed <= Len(files[cur])
  /\ \A i \in DOMAIN fileList : fileList[i] \in 1..Len(files)
  /\ \A i \in DOMAIN index : index[i] \in 1..Len(files)
  /\ \A t \in Threads : pc[t] = "publish" =>
       /\ cur \in DOMAIN files
       /\ \A i \in DOMAIN fileList : fileList[i] < cur

ListInv ==
  /\ Ascending(fileList)
  /\ Ascending(index)
  /\ cur # NoFile /\ (\A t \in Threads : pc[t] # "publish")
       => fileList # <<>> /\ fileList[Len(fileList)] = cur

\* Nothing of a dead process is left.
DeadInv == ~up => cur = NoFile /\ \A t \in Threads : pc[t] = "idle"

StoreInv == StoreTypeOK /\ MutexInv /\ FileInv /\ ListInv /\ DeadInv

LEMMA StoreInitInv == StoreInit => StoreInv
<1> SUFFICES ASSUME StoreInit PROVE StoreInv
  OBVIOUS
<1>1. StoreTypeOK
  <2>1. /\ pc \in [Threads -> Stages] /\ op \in [Threads -> Item \cup {NoRecord}]
        /\ \A t \in Threads : pc[t] # "append"
    BY DEF StoreInit, Stages
  <2>2. db \in [Keys -> Values \cup {Absent}]
    BY DEF StoreInit
  <2>3. flushing \in [Threads -> SUBSET Databases] /\ clearing \in [Threads -> SUBSET Keys]
    <3>1. {} \in SUBSET Databases /\ {} \in SUBSET Keys
      OBVIOUS
    <3> QED
      BY <3>1 DEF StoreInit
  <2>4. files \in Seq(Seq(Record)) /\ fileList \in Seq(Nat) /\ index \in Seq(Nat) /\ cur \in 0..Len(files)
    <3>1. <<>> \in Seq(Record)
      OBVIOUS
    <3> QED
      BY <3>1 DEF StoreInit
  <2>5. /\ up \in BOOLEAN /\ binlogMutex \in Threads \cup {NoThread} /\ flushed \in Nat
        /\ raced \in SUBSET Keys /\ unlogged \in SUBSET Keys /\ unsaved \in BOOLEAN
        /\ forgotten \in SUBSET Nat
    BY DEF StoreInit
  <2>6. writes \in 0..MaxWrites /\ faults \in 0..MaxFaults
    BY StoreAssumption DEF StoreInit
  <2> QED
    BY <2>1, <2>2, <2>3, <2>4, <2>5, <2>6 DEF StoreTypeOK
<1>2. MutexInv /\ DeadInv
  BY DEF StoreInit, MutexInv, DeadInv, LockedStages
<1>3. FileInv /\ ListInv
  BY DEF StoreInit, FileInv, ListInv, Ascending, NoFile, Unsaved
<1> QED
  BY <1>1, <1>2, <1>3 DEF StoreInv

LEMMA StoreStepInv == StoreInv /\ [StoreNext]_storeVars => StoreInv'
<1> SUFFICES ASSUME StoreInv, [StoreNext]_storeVars PROVE StoreInv'
  OBVIOUS
<1> USE StoreAssumption DEF Stages, LockedStages, Unsaved, NoFile
<1>1. ASSUME NEW t \in Threads, NEW k \in Keys, NEW v \in Values \cup {Absent}, WriteDb(t, k, v)
      PROVE  StoreInv'
  <2>1. [key |-> k, val |-> v] \in Item
    BY DEF Item
  <2>2. /\ db \in [Keys -> Values \cup {Absent}] /\ pc \in [Threads -> Stages]
        /\ op \in [Threads -> Item \cup {NoRecord}]
        /\ writes \in 0..MaxWrites /\ raced \in SUBSET Keys
    BY DEF StoreInv, StoreTypeOK
  <2>3. /\ pc[t] = "idle" /\ pc' = [pc EXCEPT ![t] = "append"]
        /\ op' = [op EXCEPT ![t] = [key |-> k, val |-> v]]
        /\ db' = [db EXCEPT ![k] = v]
        /\ writes < MaxWrites /\ writes' = writes + 1
        /\ raced' = raced \/ raced' = raced \cup {k}
        /\ up
        /\ UNCHANGED <<up, flushing, clearing, binlogMutex, files, cur, flushed, fileList, index, faults, unlogged,
                        unsaved, forgotten>>
    BY <1>1 DEF WriteDb, LogItem, logVars
  <2>4. /\ pc' \in [Threads -> Stages] /\ op' \in [Threads -> Item \cup {NoRecord}]
        /\ db' \in [Keys -> Values \cup {Absent}]
        /\ writes' \in 0..MaxWrites /\ raced' \in SUBSET Keys
    BY <2>1, <2>2, <2>3
  <2>5. \A u \in Threads : pc'[u] = "append" => op'[u] \in Item
    BY <2>1, <2>2, <2>3 DEF StoreInv, StoreTypeOK
  <2>6. StoreTypeOK'
    BY <2>3, <2>4, <2>5 DEF StoreInv, StoreTypeOK
  <2>7. \A u \in Threads : pc'[u] # pc[u] => pc'[u] = "append" /\ pc[u] = "idle"
    BY <2>2, <2>3
  <2>8. MutexInv' /\ DeadInv' /\ FileInv' /\ ListInv'
    BY <2>3, <2>7 DEF StoreInv, MutexInv, DeadInv, FileInv, ListInv, Ascending
  <2> QED
    BY <2>6, <2>8 DEF StoreInv
<1>2. ASSUME NEW t \in Threads, Clear(t) PROVE StoreInv'
  <2>1. /\ pc' \in [Threads -> Stages] /\ flushing' \in [Threads -> SUBSET Databases]
        /\ \A u \in Threads : pc'[u] # pc[u] => pc'[u] = "clear" /\ pc[u] = "idle"
    BY <1>2 DEF Clear, StoreInv, StoreTypeOK
  <2>2. StoreTypeOK'
    BY <1>2, <2>1 DEF Clear, logVars, history, StoreInv, StoreTypeOK
  <2> QED
    BY <1>2, <2>1, <2>2 DEF Clear, logVars, history, StoreInv, MutexInv, FileInv, ListInv, DeadInv, Ascending
<1>16. ASSUME NEW t \in Threads, NEW d \in Databases, ClearDatabase(t, d) PROVE StoreInv'
  <2>1. PICK C \in SUBSET Keys : clearing' = [clearing EXCEPT ![t] = C]
    <3>1. {k \in d : db[k] # Absent} \in SUBSET Keys
      OBVIOUS
    <3> QED
      BY <1>16, <3>1 DEF ClearDatabase
  <2>2. /\ clearing' \in [Threads -> SUBSET Keys] /\ flushing' \in [Threads -> SUBSET Databases]
        /\ UNCHANGED <<up, db, pc, op, binlogMutex, files, cur, flushed, fileList, index, writes, faults,
                       raced, unlogged, unsaved, forgotten>>
    BY <1>16, <2>1 DEF ClearDatabase, logVars, history, StoreInv, StoreTypeOK
  <2> QED
    BY <2>2 DEF StoreInv, StoreTypeOK, MutexInv, FileInv, ListInv, DeadInv, Ascending
<1>3. ASSUME NEW t \in Threads, NEW k \in Keys, ClearKey(t, k) PROVE StoreInv'
  BY <1>3 DEF ClearKey, logVars, StoreInv, StoreTypeOK, MutexInv, FileInv, ListInv, DeadInv, Ascending
<1>4. ASSUME NEW t \in Threads, ClearDone(t) PROVE StoreInv'
  BY <1>4 DEF ClearDone, logVars, history, StoreInv, StoreTypeOK, MutexInv, FileInv, ListInv, DeadInv, Ascending
<1>5. ASSUME NEW t \in Threads, AppendRecord(t) PROVE StoreInv'
  <2>1. op[t] \in Item /\ cur \in 1..Len(files) /\ files[cur] \in Seq(Record)
    BY <1>5 DEF AppendRecord, LockFree, StoreInv, StoreTypeOK
  <2>2. AsStored(cur, op[t]) \in Record
    BY <2>1 DEF AsStored, Record
  <2>3. /\ files' \in Seq(Seq(Record)) /\ Len(files') = Len(files)
        /\ Len(files'[cur]) = Len(files[cur]) + 1
    BY <1>5, <2>1, <2>2 DEF AppendRecord, LockFree, StoreInv, StoreTypeOK
  <2>4. op' \in [Threads -> Item \cup {NoRecord}]
    BY <1>5 DEF AppendRecord, LockFree, StoreInv, StoreTypeOK
  <2>5. /\ pc' \in [Threads -> Stages]
        /\ \A u \in Threads : pc'[u] = "append" => u # t /\ pc[u] = "append"
        /\ \A u \in Threads : pc[u] \notin LockedStages
        /\ \A u \in Threads : pc'[u] \in LockedStages => u = t /\ pc'[u] = "rotate" /\ binlogMutex' = t
    BY <1>5 DEF AppendRecord, LockFree, StoreInv, StoreTypeOK, MutexInv
  <2>6. \A u \in Threads : pc'[u] = "append" => op'[u] \in Item
    BY <1>5, <2>5 DEF AppendRecord, LockFree, StoreInv, StoreTypeOK
  <2>7. unlogged' \in SUBSET Keys
    BY <1>5, <2>1 DEF AppendRecord, LockFree, Item, StoreInv, StoreTypeOK
  <2>8. UNCHANGED <<up, db, flushing, clearing, cur, flushed, fileList, index, writes, faults, raced, unsaved, forgotten>>
    BY <1>5 DEF AppendRecord, LockFree
  <2>9. StoreTypeOK'
    BY <1>5, <2>3, <2>4, <2>5, <2>6, <2>7, <2>8 DEF AppendRecord, LockFree, StoreInv, StoreTypeOK
  <2>10. FileInv'
    BY <2>1, <2>3, <2>5, <2>8 DEF StoreInv, StoreTypeOK, FileInv
  <2> QED
    BY <1>5, <2>5, <2>8, <2>9, <2>10 DEF AppendRecord, LockFree, StoreInv, MutexInv, FileInv, ListInv, DeadInv, Ascending
<1>6. ASSUME NEW t \in Threads, Rotate(t) PROVE StoreInv'
  <2>1. /\ files' \in Seq(Seq(Record)) /\ Len(files') = Len(files) + 1 /\ files'[cur'] = <<>>
        /\ cur' = Len(files') /\ Len(files) \in Nat
        /\ flushed' = 0
    BY <1>6 DEF Rotate, StoreInv, StoreTypeOK
  <2>2. /\ pc' \in [Threads -> Stages]
        /\ \A u \in Threads : pc'[u] = "append" => pc[u] = "append"
        /\ \A u \in Threads : pc'[u] = "publish" => u = t
        /\ \A u \in Threads : pc[u] \in LockedStages => u = t
        /\ pc'[t] = "publish" /\ pc[t] = "rotate"
        /\ \A u \in Threads : u # t => pc'[u] = pc[u]
    BY <1>6 DEF Rotate, StoreInv, StoreTypeOK, MutexInv
  <2>3. UNCHANGED <<up, db, op, flushing, clearing, binlogMutex, fileList, index, writes, faults, history>>
    BY <1>6 DEF Rotate
  <2>4. StoreTypeOK'
    BY <2>1, <2>2, <2>3 DEF history, StoreInv, StoreTypeOK
  <2>5. MutexInv' /\ DeadInv'
    BY <2>2, <2>3 DEF StoreInv, MutexInv, DeadInv
  <2>6. FileInv'
    <3>1. cur' \in DOMAIN files' /\ Len(files'[cur']) = 0
      BY <2>1
    <3>2. \A i \in DOMAIN fileList : fileList[i] \in 1..Len(files) /\ fileList[i] < cur'
      BY <2>1 DEF StoreInv, FileInv
    <3>3. \A i \in DOMAIN fileList' : fileList'[i] \in 1..Len(files') /\ fileList'[i] < cur'
      BY <2>1, <2>3, <3>2
    <3>4. \A i \in DOMAIN index' : index'[i] \in 1..Len(files')
      BY <2>1, <2>3 DEF StoreInv, FileInv
    <3> QED
      BY <2>1, <3>1, <3>3, <3>4 DEF FileInv
  <2>7. ListInv'
    BY <2>2, <2>3 DEF StoreInv, ListInv, Ascending
  <2> QED
    BY <2>4, <2>5, <2>6, <2>7 DEF StoreInv
<1>7. ASSUME NEW t \in Threads, RotateFails(t) PROVE StoreInv'
  BY <1>7 DEF RotateFails, history, StoreInv, StoreTypeOK, MutexInv, FileInv, ListInv, DeadInv, Ascending
<1>8. ASSUME NEW t \in Threads, PublishName(t) PROVE StoreInv'
  <2>1. /\ pc' \in [Threads -> Stages]
        /\ \A u \in Threads : pc'[u] = "append" => pc[u] = "append"
        /\ \A u \in Threads : pc'[u] # "publish"
        /\ \A u \in Threads : pc[u] \in LockedStages => u = t
        /\ \A u \in Threads : u # t => pc'[u] = pc[u]
        /\ pc'[t] = "truncate" /\ pc[t] = "publish"
    BY <1>8 DEF PublishName, StoreInv, StoreTypeOK, MutexInv
  <2>2. /\ fileList' \in Seq(Nat)
        /\ Len(fileList') = Len(fileList) + 1
        /\ Len(fileList) \in Nat
        /\ \A i \in DOMAIN fileList : fileList'[i] = fileList[i]
        /\ fileList'[Len(fileList) + 1] = cur
        /\ DOMAIN fileList' = 1 .. Len(fileList) + 1
        /\ DOMAIN fileList = 1 .. Len(fileList)
        /\ \A i \in DOMAIN fileList : fileList[i] \in Nat
    BY <1>8 DEF PublishName, StoreInv, StoreTypeOK
  <2>3. /\ cur \in DOMAIN files
        /\ \A i \in DOMAIN fileList : fileList[i] < cur
        /\ DOMAIN files = 1..Len(files)
    BY <1>8 DEF PublishName, StoreInv, StoreTypeOK, FileInv
  <2>4. UNCHANGED <<up, db, op, flushing, clearing, binlogMutex, files, cur, flushed, index,
                    writes, faults, history>>
    BY <1>8 DEF PublishName
  <2>5. StoreTypeOK'
    BY <2>1, <2>2, <2>4 DEF history, StoreInv, StoreTypeOK
  <2>6. MutexInv' /\ DeadInv'
    BY <2>1, <2>4 DEF StoreInv, MutexInv, DeadInv
  <2>7. FileInv'
    <3>1. \A i \in DOMAIN fileList' : fileList'[i] \in 1..Len(files)
      <4> SUFFICES ASSUME NEW i \in 1 .. Len(fileList) + 1 PROVE fileList'[i] \in 1..Len(files)
        BY <2>2
      <4>1. CASE i = Len(fileList) + 1
        BY <2>2, <2>3, <4>1
      <4>2. CASE i \in 1..Len(fileList)
        BY <2>2, <4>2 DEF StoreInv, FileInv
      <4> QED
        BY <2>2, <4>1, <4>2
    <3> QED
      BY <2>1, <2>4, <3>1 DEF StoreInv, FileInv
  <2>8. ListInv'
    <3>1. Ascending(fileList')
      <4> SUFFICES ASSUME NEW i \in 1 .. Len(fileList) + 1, NEW j \in 1 .. Len(fileList) + 1, i < j
                   PROVE  fileList'[i] < fileList'[j]
        BY <2>2 DEF Ascending
      <4>1. i \in 1..Len(fileList)
        BY <2>2
      <4>2. CASE j = Len(fileList) + 1
        BY <2>2, <2>3, <4>1, <4>2
      <4>3. CASE j \in 1..Len(fileList)
        BY <2>2, <4>1, <4>3 DEF StoreInv, ListInv, Ascending
      <4> QED
        BY <2>2, <4>2, <4>3
    <3>2. Ascending(index')
      BY <2>4 DEF StoreInv, ListInv
    <3>3. Len(fileList) + 1 \in DOMAIN fileList'
      BY <2>2
    <3>4. fileList' # <<>>
      BY <2>2, <3>3
    <3>5. fileList'[Len(fileList')] = cur'
      BY <2>2, <2>4
    <3> QED
      BY <2>1, <3>1, <3>2, <3>4, <3>5 DEF ListInv
  <2> QED
    BY <2>5, <2>6, <2>7, <2>8 DEF StoreInv
<1>9. ASSUME NEW t \in Threads, TruncateIndex(t) PROVE StoreInv'
  <2>1. /\ pc' \in [Threads -> Stages]
        /\ \A u \in Threads : pc'[u] = "append" => pc[u] = "append"
        /\ \A u \in Threads : pc'[u] = "publish" <=> pc[u] = "publish"
        /\ \A u \in Threads : u # t => pc'[u] = pc[u]
        /\ pc'[t] = "save" /\ pc[t] = "truncate"
    BY <1>9 DEF TruncateIndex, StoreInv, StoreTypeOK
  <2>2. index' = <<>> /\ index' \in Seq(Nat) /\ DOMAIN index' = {}
    BY <1>9 DEF TruncateIndex
  <2>3. UNCHANGED <<up, db, op, flushing, clearing, binlogMutex, files, cur, flushed, fileList,
                    writes, faults, history>>
    BY <1>9 DEF TruncateIndex
  <2>4. StoreTypeOK'
    BY <2>1, <2>2, <2>3 DEF history, StoreInv, StoreTypeOK
  <2>5. MutexInv' /\ DeadInv' /\ FileInv'
    BY <2>1, <2>2, <2>3 DEF StoreInv, MutexInv, DeadInv, FileInv
  <2>6. ListInv'
    BY <2>1, <2>2, <2>3 DEF StoreInv, ListInv, Ascending
  <2> QED
    BY <2>4, <2>5, <2>6 DEF StoreInv
<1>10. ASSUME NEW t \in Threads, SaveIndex(t) PROVE StoreInv'
  <2>1. /\ index' = fileList /\ UNCHANGED <<up, db, op, flushing, clearing, files, cur, flushed, fileList,
                                           writes, faults, raced, unlogged, forgotten>>
        /\ binlogMutex' = NoThread /\ unsaved' = FALSE
    BY <1>10 DEF SaveIndex, Saved
  <2>2. /\ pc' \in [Threads -> Stages]
        /\ \A u \in Threads : pc[u] \in LockedStages => u = t
        /\ \A u \in Threads : u # t => pc'[u] = pc[u]
        /\ pc'[t] = "idle" /\ pc[t] = "save"
    BY <1>10 DEF SaveIndex, StoreInv, StoreTypeOK, MutexInv
  <2> QED
    BY <2>1, <2>2 DEF StoreInv, StoreTypeOK, MutexInv, FileInv, ListInv, DeadInv, Ascending
<1>17. ASSUME NEW t \in Threads, WriteNames(t) PROVE StoreInv'
  <2>1. PICK n \in 1 .. Len(fileList) - 1 : index' = SubSeq(fileList, 1, n)
    BY <1>17 DEF WriteNames
  <2>2. /\ index' \in Seq(Nat) /\ DOMAIN index' = 1..n
        /\ \A i \in 1..n : index'[i] = fileList[i] /\ i \in DOMAIN fileList
    <3>1. fileList \in Seq(Nat) /\ n \in Nat /\ n \in 1..Len(fileList)
      BY DEF StoreInv, StoreTypeOK
    <3>2. PICK prefix : prefix = SubSeq(fileList, 1, n)
      OBVIOUS
    <3>3. /\ prefix \in Seq(Nat) /\ DOMAIN prefix = 1..n
          /\ \A i \in 1..n : prefix[i] = fileList[i] /\ i \in DOMAIN fileList
      BY <3>1, <3>2
    <3> QED
      BY <2>1, <3>2, <3>3
  <2>3. UNCHANGED <<up, db, pc, op, flushing, clearing, binlogMutex, files, cur, flushed, fileList,
                    writes, faults, history>>
    BY <1>17 DEF WriteNames, threadVars
  <2>4. StoreTypeOK'
    BY <2>2, <2>3 DEF history, StoreInv, StoreTypeOK
  <2> QED
    BY <2>2, <2>3, <2>4 DEF StoreInv, MutexInv, FileInv, ListInv, DeadInv, Ascending
<1>18. ASSUME NEW t \in Threads, CutName(t) PROVE StoreInv'
  <2>1. PICK n \in 1 .. Len(fileList) - 1 : index' = Append(SubSeq(fileList, 1, n), Len(files) + 1)
    BY <1>18 DEF CutName
  <2>2. /\ files \in Seq(Seq(Record)) /\ fileList \in Seq(Nat) /\ Len(files) \in Nat
        /\ n \in 1..Len(fileList) /\ n \in Nat
        /\ cur \in 0..Len(files)
    BY DEF StoreInv, StoreTypeOK
  <2>3. PICK prefix : prefix = SubSeq(fileList, 1, n)
    OBVIOUS
  <2>4. /\ prefix \in Seq(Nat) /\ Len(prefix) = n /\ DOMAIN prefix = 1..n
        /\ \A i \in 1..n : prefix[i] = fileList[i] /\ i \in DOMAIN fileList
    BY <2>2, <2>3
  <2>5. /\ index' \in Seq(Nat) /\ DOMAIN index' = 1 .. n + 1
        /\ index'[n + 1] = Len(files) + 1
        /\ \A i \in 1..n : index'[i] = fileList[i] /\ i \in DOMAIN fileList
    BY <2>1, <2>2, <2>3, <2>4
  <2>6. /\ files' \in Seq(Seq(Record)) /\ Len(files') = Len(files) + 1
        /\ \A f \in 1..Len(files) : files'[f] = files[f]
        /\ DOMAIN files' = 1 .. Len(files) + 1 /\ DOMAIN files = 1..Len(files)
    BY <1>18, <2>2 DEF CutName
  <2>7. UNCHANGED <<up, db, pc, op, flushing, clearing, binlogMutex, cur, flushed, fileList,
                    writes, faults, history>>
    BY <1>18 DEF CutName, threadVars
  <2>8. StoreTypeOK'
    BY <2>2, <2>5, <2>6, <2>7 DEF history, StoreInv, StoreTypeOK
  <2>9. \A i \in 1 .. n + 1 : i = n + 1 \/ i \in 1..n
    BY <2>2
  <2>10. Ascending(index')
    <3> SUFFICES ASSUME NEW i \in 1 .. n + 1, NEW j \in 1 .. n + 1, i < j PROVE index'[i] < index'[j]
      BY <2>5 DEF Ascending
    <3>1. i \in 1..n
      BY <2>2
    <3>2. CASE j = n + 1
      BY <2>2, <2>5, <3>1, <3>2 DEF StoreInv, FileInv
    <3>3. CASE j \in 1..n
      BY <2>5, <3>1, <3>3 DEF StoreInv, ListInv, Ascending
    <3> QED
      BY <2>9, <3>2, <3>3
  <2>11. FileInv'
    <3>1. \A i \in DOMAIN index' : index'[i] \in 1..Len(files')
      <4> SUFFICES ASSUME NEW i \in 1 .. n + 1 PROVE index'[i] \in 1 .. Len(files) + 1
        BY <2>5, <2>6
      <4>1. CASE i = n + 1
        BY <2>2, <2>5, <4>1
      <4>2. CASE i \in 1..n
        BY <2>2, <2>5, <4>2 DEF StoreInv, FileInv
      <4> QED
        BY <2>9, <4>1, <4>2
    <3>2. \A i \in DOMAIN fileList' : fileList'[i] \in 1..Len(files')
      BY <2>2, <2>6, <2>7 DEF StoreInv, FileInv
    <3>3. cur' # NoFile => flushed' <= Len(files'[cur'])
      BY <2>2, <2>6, <2>7 DEF StoreInv, FileInv
    <3> QED
      BY <2>6, <2>7, <3>1, <3>2, <3>3 DEF StoreInv, FileInv
  <2> QED
    BY <2>7, <2>8, <2>10, <2>11 DEF StoreInv, MutexInv, ListInv, DeadInv
<1>19. ASSUME NEW t \in Threads, IndexFails(t) PROVE StoreInv'
  <2>1. /\ UNCHANGED <<up, db, op, flushing, clearing, files, cur, flushed, fileList, index,
                       writes, raced, unlogged, forgotten>>
        /\ binlogMutex' = NoThread /\ unsaved' = TRUE /\ faults < MaxFaults /\ faults' = faults + 1
    BY <1>19 DEF IndexFails, logVars
  <2>2. /\ pc' \in [Threads -> Stages] /\ faults' \in 0..MaxFaults
        /\ \A u \in Threads : pc[u] \in LockedStages => u = t
        /\ \A u \in Threads : u # t => pc'[u] = pc[u]
        /\ pc'[t] = "idle" /\ pc[t] \in {"truncate", "save"}
    BY <1>19, <2>1 DEF IndexFails, StoreInv, StoreTypeOK, MutexInv
  <2>3. StoreTypeOK'
    BY <2>1, <2>2 DEF StoreInv, StoreTypeOK
  <2> QED
    BY <2>1, <2>2, <2>3 DEF StoreInv, MutexInv, FileInv, ListInv, DeadInv, Ascending
<1>11. CASE StdioFlush
  BY <1>11 DEF StdioFlush, threadVars, history, StoreInv, StoreTypeOK, MutexInv, FileInv, ListInv, DeadInv, Ascending
<1>12. ASSUME ProcessDies, faults' \in 0..MaxFaults PROVE StoreInv'
  <2>1. PICK torn \in BOOLEAN : files' = Survivors(torn)
    BY <1>12 DEF ProcessDies
  <2>2. files' \in Seq(Seq(Record)) /\ Len(files') = Len(files)
    <3>0. files \in Seq(Seq(Record)) /\ cur \in 0..Len(files) /\ flushed \in Nat
      BY DEF StoreInv, StoreTypeOK
    <3>1. CASE cur = NoFile
      BY <2>1, <3>0, <3>1 DEF Survivors
    <3>2. CASE cur # NoFile
      <4>1. cur \in 1..Len(files) /\ files[cur] \in Seq(Record) /\ flushed <= Len(files[cur])
        BY <3>0, <3>2 DEF StoreInv, FileInv
      <4>2. OnDisk(cur) \in Seq(Record)
        BY <3>0, <4>1 DEF OnDisk
      <4>3. (IF torn THEN <<Torn>> ELSE <<>>) \in Seq(Record)
        <5>1. torn => <<Torn>> \in Seq(Record)
          BY DEF Record
        <5>2. <<>> \in Seq(Record)
          OBVIOUS
        <5> QED
          BY <5>1, <5>2
      <4>4. OnDisk(cur) \o (IF torn THEN <<Torn>> ELSE <<>>) \in Seq(Record)
        BY <4>2, <4>3
      <4> QED
        BY <2>1, <3>0, <3>2, <4>1, <4>4 DEF Survivors
    <3> QED
      BY <3>1, <3>2
  <2>3. LostKeys \in SUBSET Keys
    <3>1. \A t \in Threads : pc[t] = "append" => op[t].key \in Keys
      BY DEF StoreInv, StoreTypeOK, Item
    <3>2. cur # NoFile => \A i \in DOMAIN files[cur] : files[cur][i] # Torn => files[cur][i].key \in Keys
      BY DEF StoreInv, StoreTypeOK, Item, Record
    <3>3. cur # NoFile => \A i \in flushed + 1 .. Len(files[cur]) : i \in DOMAIN files[cur]
      BY DEF StoreInv, StoreTypeOK
    <3>4. \A f \in Forgotten : f \in DOMAIN files
      BY DEF Forgotten, Range, StoreInv, StoreTypeOK, FileInv
    <3>5. \A f \in DOMAIN files : \A i \in DOMAIN files[f] : files[f][i] # Torn => files[f][i].key \in Keys
      BY DEF StoreInv, StoreTypeOK, Item, Record
    <3> DEFINE Waiting == {op[t].key : t \in {u \in Threads : pc[u] = "append"}}
               Cut == UNION {{files[f][i].key : i \in {j \in DOMAIN files[f] : files[f][j] # Torn}} : f \in Forgotten}
               Buffered == IF cur = NoFile THEN {}
                           ELSE {files[cur][i].key : i \in {j \in flushed + 1 .. Len(files[cur]) :
                                                              files[cur][j] # Torn}}
    <3>6. Waiting \subseteq Keys
      BY <3>1
    <3>7. Cut \subseteq Keys
      BY <3>4, <3>5
    <3>8. Buffered \subseteq Keys
      BY <3>2, <3>3
    <3>9. LostKeys = (Waiting \cup Cut) \cup Buffered
      BY Zenon DEF LostKeys, NoFile
    <3> HIDE DEF Waiting, Cut, Buffered
    <3> QED
      BY <3>6, <3>7, <3>8, <3>9
  <2>4. /\ pc' \in [Threads -> Stages]
        /\ \A u \in Threads : pc'[u] = "idle"
        /\ op' \in [Threads -> Item \cup {NoRecord}]
        /\ clearing' \in [Threads -> SUBSET Keys]
        /\ flushing' \in [Threads -> SUBSET Databases]
    BY <1>12 DEF ProcessDies
  <2>5. /\ fileList' = <<>> /\ fileList' \in Seq(Nat) /\ DOMAIN fileList' = {}
        /\ cur' = 0 /\ flushed' = 0 /\ up' = FALSE /\ binlogMutex' = NoThread
        /\ unlogged' = unlogged \cup LostKeys
        /\ forgotten' = forgotten \cup Forgotten /\ unsaved' = FALSE
        /\ UNCHANGED <<db, index, writes, raced>>
    BY <1>12 DEF ProcessDies
  <2>6. StoreTypeOK'
    <3>0. Forgotten \subseteq Nat
      BY DEF StoreInv, StoreTypeOK, Forgotten, Range
    <3>1. unlogged' \in SUBSET Keys /\ cur' \in 0..Len(files') /\ forgotten' \in SUBSET Nat
      BY <2>2, <2>3, <2>5, <3>0 DEF StoreInv, StoreTypeOK
    <3> QED
      BY <1>12, <2>2, <2>4, <2>5, <3>1 DEF StoreInv, StoreTypeOK
  <2>7. MutexInv' /\ DeadInv' /\ FileInv' /\ ListInv'
    BY <2>2, <2>4, <2>5 DEF StoreInv, MutexInv, FileInv, ListInv, DeadInv, Ascending
  <2> QED
    BY <2>6, <2>7 DEF StoreInv
<1>13. CASE Restart
  <2>1. /\ cur = NoFile /\ ~up /\ up' = TRUE
        /\ \A u \in Threads : pc[u] = "idle"
        /\ UNCHANGED <<db, pc, op, flushing, clearing, binlogMutex, writes, faults, raced, unlogged,
                       unsaved, forgotten>>
    BY <1>13 DEF Restart, threadVars, history, StoreInv, DeadInv
  <2>2. /\ files \in Seq(Seq(Record)) /\ index \in Seq(Nat) /\ Len(files) \in Nat
        /\ \A i \in DOMAIN index : index[i] \in 1..Len(files)
        /\ Ascending(index)
    BY DEF StoreInv, StoreTypeOK, FileInv, ListInv
  <2>3. CASE index = <<>>
    <3>1. /\ files' \in Seq(Seq(Record)) /\ Len(files') = Len(files) + 1
          /\ cur' = Len(files) + 1 /\ files'[cur'] = <<>> /\ flushed' = 0
      <4>1. <<>> \in Seq(Record)
        OBVIOUS
      <4>2. files' = Append(files, <<>>) /\ cur' = Len(files) + 1 /\ flushed' = 0
        BY <1>13, <2>3 DEF Restart
      <4> QED
        BY <2>2, <4>1, <4>2
    <3>2. fileList' = <<cur'>> /\ index' = <<cur'>>
      BY <1>13, <2>3 DEF Restart
    <3>3. /\ fileList' \in Seq(Nat) /\ index' \in Seq(Nat)
          /\ DOMAIN fileList' = {1} /\ DOMAIN index' = {1}
          /\ fileList'[1] = cur' /\ index'[1] = cur' /\ fileList' # <<>>
      BY <2>2, <3>1, <3>2
    <3>4. StoreTypeOK'
      <4>1. cur' \in 0..Len(files') /\ flushed' \in Nat
        BY <2>2, <3>1
      <4>2. /\ up' \in BOOLEAN /\ fileList' \in Seq(Nat) /\ index' \in Seq(Nat)
            /\ files' \in Seq(Seq(Record)) /\ cur' \in 0..Len(files') /\ flushed' \in Nat
        BY <2>1, <3>1, <3>3, <4>1
      <4> QED
        BY <2>1, <4>2 DEF StoreInv, StoreTypeOK
    <3>5. FileInv'
      <4>1. \A i \in {1} : fileList'[i] \in 1..Len(files') /\ index'[i] \in 1..Len(files')
        BY <2>2, <3>1, <3>3
      <4>2. flushed' <= Len(files'[cur'])
        BY <3>1
      <4> QED
        BY <2>1, <3>3, <4>1, <4>2 DEF FileInv
    <3>6. ListInv'
      BY <2>1, <3>2, <3>3 DEF ListInv, Ascending
    <3>7. MutexInv' /\ DeadInv'
      BY <2>1 DEF MutexInv, DeadInv
    <3> QED
      BY <3>4, <3>5, <3>6, <3>7 DEF StoreInv
  <2>4. CASE index # <<>>
    <3>1. Len(index) \in DOMAIN index
      BY <2>2, <2>4
    <3>2. /\ files' = files /\ index' = index /\ fileList' = index
          /\ cur' = index[Len(index)] /\ cur' \in 1..Len(files)
          /\ flushed' = Len(files[cur'])
      BY <1>13, <2>2, <2>4, <3>1 DEF Restart, Reopened, Opened, Last
    <3>3. flushed' \in Nat
      BY <2>2, <3>2
    <3>4. StoreTypeOK'
      BY <2>1, <2>2, <3>2, <3>3 DEF StoreInv, StoreTypeOK
    <3>5. FileInv' /\ MutexInv' /\ DeadInv'
      BY <2>1, <2>2, <3>2 DEF FileInv, MutexInv, DeadInv
    <3>6. ListInv'
      BY <2>1, <2>2, <2>4, <3>1, <3>2 DEF ListInv
    <3> QED
      BY <3>4, <3>5, <3>6 DEF StoreInv
  <2> QED
    BY <2>3, <2>4
<1>20. CASE StartUnlogged
  <2>1. /\ cur = NoFile /\ up' = TRUE /\ fileList' = index /\ faults' = faults + 1 /\ faults < MaxFaults
        /\ UNCHANGED <<db, pc, op, flushing, clearing, binlogMutex, files, cur, flushed, index, writes,
                       raced, unlogged, unsaved, forgotten>>
    BY <1>20 DEF StartUnlogged, threadVars, history, StoreInv, DeadInv
  <2>2. faults' \in 0..MaxFaults
    BY <2>1 DEF StoreInv, StoreTypeOK
  <2>3. StoreTypeOK'
    BY <2>1, <2>2 DEF StoreInv, StoreTypeOK
  <2>4. \A u \in Threads : pc[u] = "idle"
    BY <1>20 DEF StartUnlogged, StoreInv, DeadInv
  <2> QED
    BY <2>1, <2>3, <2>4 DEF StoreInv, MutexInv, FileInv, ListInv, DeadInv, Ascending
<1>21. CASE StartUnsaved
  <2>1. /\ index = <<>> /\ up' = TRUE /\ faults' = faults + 1 /\ faults < MaxFaults
        /\ cur' = Len(files) + 1 /\ flushed' = 0 /\ fileList' = <<cur'>> /\ unsaved' = TRUE
        /\ files' = Append(files, <<>>)
        /\ \A u \in Threads : pc[u] = "idle"
        /\ UNCHANGED <<db, pc, op, flushing, clearing, binlogMutex, index, writes, raced, unlogged, forgotten>>
    BY <1>21 DEF StartUnsaved, threadVars, StoreInv, DeadInv
  <2>2. faults' \in 0..MaxFaults /\ files \in Seq(Seq(Record)) /\ Len(files) \in Nat
    BY <2>1 DEF StoreInv, StoreTypeOK
  <2>3. /\ files' \in Seq(Seq(Record)) /\ Len(files') = Len(files) + 1 /\ files'[cur'] = <<>>
        /\ cur' \in Nat
    BY <2>1, <2>2
  <2>4. /\ fileList' \in Seq(Nat) /\ DOMAIN fileList' = {1} /\ fileList'[1] = cur' /\ Len(fileList') = 1
        /\ fileList' # <<>>
    BY <2>1, <2>3
  <2>5. StoreTypeOK'
    BY <2>1, <2>2, <2>3, <2>4 DEF StoreInv, StoreTypeOK
  <2>6. FileInv'
    BY <2>1, <2>2, <2>3, <2>4 DEF FileInv
  <2>7. ListInv' /\ MutexInv' /\ DeadInv'
    BY <2>1, <2>4 DEF ListInv, Ascending, MutexInv, DeadInv
  <2> QED
    BY <2>5, <2>6, <2>7 DEF StoreInv
<1>14. CASE UNCHANGED storeVars
  BY <1>14 DEF storeVars, threadVars, logVars, history, StoreInv, StoreTypeOK, MutexInv, FileInv, ListInv, DeadInv, Ascending
<1>15. CASE Crash
  <2>0. faults \in 0..MaxFaults
    BY DEF StoreInv, StoreTypeOK
  <2>1. CASE Killed
    BY <1>12, <2>0, <2>1 DEF Killed
  <2>2. ASSUME NEW t \in Threads, AppendToClosed(t) PROVE StoreInv'
    BY <1>12, <2>0, <2>2 DEF AppendToClosed
  <2> QED
    BY <1>15, <2>1, <2>2 DEF Crash
<1> QED
  BY <1>1, <1>2, <1>3, <1>4, <1>5, <1>6, <1>7, <1>8, <1>9, <1>10, <1>11, <1>13, <1>14, <1>15,
     <1>16, <1>17, <1>18, <1>19, <1>20, <1>21
  DEF StoreNext, StoreStep, Request, ThreadStep, FileStep, SetValue, RemoveKey

-----------------------------------------------------------------------------
\* The inductive invariant holds in every reachable state.
THEOREM StoreInvariant == StoreSpec => []StoreInv
  BY StoreInitInv, StoreStepInv, PTL DEF StoreSpec

\* Type correctness of the write path.
THEOREM StoreTyping == StoreSpec => []StoreTypeOK
<1>1. StoreInv => StoreTypeOK
  BY DEF StoreInv
<1> QED
  BY <1>1, StoreInvariant, PTL

-----------------------------------------------------------------------------
\* How many records of file f the operating system has.
Kept(f) == IF f = cur THEN flushed ELSE Len(files[f])

DiskPrefix ==
  \A f \in DOMAIN files :
    /\ Kept(f) \in 0..Len(files[f])
    /\ Len(OnDisk(f)) = Kept(f)
    /\ DOMAIN OnDisk(f) = 1..Kept(f)
    /\ \A i \in 1..Kept(f) : OnDisk(f)[i] = files[f][i]

LEMMA OnDiskIsPrefix == StoreInv => DiskPrefix
<1> SUFFICES ASSUME StoreInv, NEW f \in DOMAIN files
             PROVE  /\ Kept(f) \in 0..Len(files[f])
                    /\ Len(OnDisk(f)) = Kept(f)
                    /\ DOMAIN OnDisk(f) = 1..Kept(f)
                    /\ \A i \in 1..Kept(f) : OnDisk(f)[i] = files[f][i]
  BY DEF DiskPrefix
<1>1. files[f] \in Seq(Record) /\ f # NoFile /\ flushed \in Nat
  BY DEF StoreInv, StoreTypeOK, NoFile
<1>2. CASE f = cur
  BY <1>1, <1>2 DEF Kept, OnDisk, StoreInv, FileInv
<1>3. CASE f # cur
  BY <1>1, <1>3 DEF Kept, OnDisk
<1> QED
  BY <1>2, <1>3

LEMMA KeptGrows ==
  StoreInv /\ [StoreNext]_storeVars =>
    \A f \in DOMAIN files :
      /\ f \in DOMAIN files'
      /\ Kept(f) <= Kept(f)'
      /\ \A i \in 1..Kept(f) : files'[f][i] = files[f][i]
<1> SUFFICES ASSUME StoreInv, [StoreNext]_storeVars, NEW f \in DOMAIN files
             PROVE  /\ f \in DOMAIN files'
                    /\ Kept(f) <= Kept(f)'
                    /\ \A i \in 1..Kept(f) : files'[f][i] = files[f][i]
  OBVIOUS
<1> DEFINE Goal == /\ f \in DOMAIN files'
                   /\ Kept(f) <= Kept(f)'
                   /\ \A i \in 1..Kept(f) : files'[f][i] = files[f][i]
<1>1. /\ files \in Seq(Seq(Record)) /\ f \in 1..Len(files) /\ files[f] \in Seq(Record)
      /\ f # NoFile /\ flushed \in Nat /\ cur \in Nat
      /\ f = cur => flushed <= Len(files[f])
      /\ Kept(f) \in Nat /\ Kept(f) <= Len(files[f])
  BY DEF StoreInv, StoreTypeOK, FileInv, NoFile, Kept
<1>2. CASE UNCHANGED <<files, cur, flushed>>
  BY <1>1, <1>2 DEF Kept
<1>3. Append(files, <<>>)[f] = files[f] /\ f \in DOMAIN Append(files, <<>>)
  BY <1>1
<1>4. ASSUME NEW t \in Threads, AppendRecord(t) PROVE Goal
  <2>1. UNCHANGED <<cur, flushed>> /\ \E r : files' = [files EXCEPT ![cur] = Append(@, r)]
    BY <1>4 DEF AppendRecord, LockFree
  <2>2. f \in DOMAIN files' /\ (f # cur => files'[f] = files[f])
    BY <1>1, <2>1
  <2>3. CASE f = cur
    <3>1. PICK r : files'[f] = Append(files[f], r)
      BY <1>1, <2>1, <2>3
    <3> QED
      BY <1>1, <2>1, <2>2, <2>3, <3>1 DEF Kept
  <2>4. CASE f # cur
    BY <1>1, <2>1, <2>2, <2>4 DEF Kept
  <2> QED
    BY <2>3, <2>4
<1>5. ASSUME NEW t \in Threads, Rotate(t) PROVE Goal
  <2>1. files' = Append(files, <<>>) /\ f # cur'
    BY <1>1, <1>5 DEF Rotate
  <2> QED
    BY <1>1, <1>3, <2>1 DEF Kept
<1>6. ASSUME NEW t \in Threads, RotateFails(t) PROVE Goal
  BY <1>1, <1>6 DEF RotateFails, Kept
<1>7. CASE StdioFlush
  BY <1>1, <1>7 DEF StdioFlush, Kept
<1>8. CASE ProcessDies
  <2>1. cur' = NoFile /\ Kept(f)' = Len(files'[f])
    BY <1>1, <1>8 DEF ProcessDies, Kept
  <2>2. PICK torn \in BOOLEAN : files' = Survivors(torn)
    BY <1>8 DEF ProcessDies
  <2>3. CASE f # cur \/ cur = NoFile
    <3>1. f \in DOMAIN files' /\ files'[f] = files[f]
      BY <1>1, <2>2, <2>3 DEF Survivors
    <3> QED
      BY <1>1, <2>1, <3>1
  <2>4. CASE f = cur
    <3>1. f \in DOMAIN files' /\ files'[f] = OnDisk(f) \o (IF torn THEN <<Torn>> ELSE <<>>)
      BY <1>1, <2>2, <2>4 DEF Survivors
    <3>2. PICK tail \in Seq(Record) : files'[f] = OnDisk(f) \o tail
      <4>1. <<>> \in Seq(Record) /\ <<Torn>> \in Seq(Record)
        BY DEF Record
      <4> QED
        BY <3>1, <4>1
    <3>3. /\ OnDisk(f) \in Seq(Record) /\ Len(OnDisk(f)) = Kept(f)
          /\ \A i \in 1..Kept(f) : OnDisk(f)[i] = files[f][i]
      BY <1>1, <2>4 DEF OnDisk, Kept
    <3> QED
      BY <1>1, <2>1, <3>1, <3>2, <3>3
  <2> QED
    BY <2>3, <2>4
<1>9. CASE Restart
  <2>1. cur = NoFile /\ Kept(f) = Len(files[f])
    BY <1>1, <1>9 DEF Restart, StoreInv, DeadInv, Kept
  <2>2. CASE index = <<>>
    <3>1. files' = Append(files, <<>>) /\ cur' = Len(files) + 1
      BY <1>9, <2>2 DEF Restart
    <3> QED
      BY <1>1, <1>3, <2>1, <3>1 DEF Kept
  <2>3. CASE index # <<>>
    BY <1>1, <1>9, <2>1, <2>3 DEF Restart, Opened, Kept
  <2> QED
    BY <2>2, <2>3
<1>10. ASSUME NEW t \in Threads, Request(t) PROVE UNCHANGED <<files, cur, flushed>>
  BY <1>10 DEF Request, SetValue, RemoveKey, WriteDb, Clear, logVars
<1>11. ASSUME NEW t \in Threads, ThreadStep(t) PROVE Goal
  BY <1>2, <1>4, <1>5, <1>11
  DEF ThreadStep, ClearDatabase, ClearKey, ClearDone, PublishName, TruncateIndex, SaveIndex, logVars
<1>14. ASSUME NEW t \in Threads, FileStep(t) PROVE Goal
  <2>1. CASE RotateFails(t)
    BY <1>6, <2>1
  <2>2. CASE WriteNames(t) \/ IndexFails(t)
    BY <1>2, <2>2 DEF WriteNames, IndexFails, logVars
  <2>3. CASE CutName(t)
    <3>1. files' = Append(files, <<>>) /\ UNCHANGED <<cur, flushed>>
      BY <2>3 DEF CutName
    <3> QED
      BY <1>1, <1>3, <3>1 DEF Kept
  <2> QED
    BY <1>14, <2>1, <2>2, <2>3 DEF FileStep
<1>15. CASE StartUnlogged
  BY <1>2, <1>15 DEF StartUnlogged
<1>16. CASE StartUnsaved
  <2>1. /\ cur = NoFile /\ Kept(f) = Len(files[f])
        /\ files' = Append(files, <<>>) /\ cur' = Len(files) + 1
    BY <1>1, <1>16 DEF StartUnsaved, StoreInv, DeadInv, Kept
  <2> QED
    BY <1>1, <1>3, <2>1 DEF Kept
<1>12. CASE UNCHANGED storeVars
  BY <1>2, <1>12 DEF storeVars, logVars
<1>13. CASE Crash
  BY <1>8, <1>13 DEF Crash, Killed, AppendToClosed
<1> QED
  BY <1>2, <1>7, <1>9, <1>10, <1>11, <1>12, <1>13, <1>14, <1>15, <1>16 DEF StoreNext, StoreStep

LEMMA DurableStep ==
  StoreInv /\ StoreInv' /\ [StoreNext]_storeVars =>
    \A f \in DOMAIN files :
      /\ f \in DOMAIN files'
      /\ Len(OnDisk(f)) <= Len(OnDisk(f)')
      /\ \A i \in DOMAIN OnDisk(f) : OnDisk(f)[i] = OnDisk(f)'[i]
<1> SUFFICES ASSUME StoreInv, StoreInv', [StoreNext]_storeVars, NEW f \in DOMAIN files
             PROVE  /\ f \in DOMAIN files'
                    /\ Len(OnDisk(f)) <= Len(OnDisk(f)')
                    /\ \A i \in DOMAIN OnDisk(f) : OnDisk(f)[i] = OnDisk(f)'[i]
  OBVIOUS
<1>1. /\ f \in DOMAIN files' /\ Kept(f) <= Kept(f)'
      /\ \A i \in 1..Kept(f) : files'[f][i] = files[f][i]
  BY KeptGrows
<1>2. /\ Kept(f) \in Nat /\ Len(OnDisk(f)) = Kept(f) /\ DOMAIN OnDisk(f) = 1..Kept(f)
      /\ \A i \in 1..Kept(f) : OnDisk(f)[i] = files[f][i]
  BY OnDiskIsPrefix DEF DiskPrefix
<1>3. DiskPrefix'
  BY OnDiskIsPrefix, PTL
<1>4. /\ Kept(f)' \in Nat /\ Len(OnDisk(f)') = Kept(f)'
      /\ \A i \in 1..Kept(f)' : OnDisk(f)'[i] = files'[f][i]
  BY <1>1, <1>3 DEF DiskPrefix
<1> QED
  BY <1>1, <1>2, <1>4

\* What has reached the disk stays in the binlog, at the same place.
THEOREM DurableRecords == StoreSpec => DurableRecordsStay
  BY StoreInvariant, DurableStep, PTL DEF StoreSpec, DurableRecordsStay

-----------------------------------------------------------------------------
(* The tail of the log *)

RecordAt(a) == files[a.f][a.p + 1]

Listed(f) == f \in Known

\* The records a walk may find, now or after a restart, and those no kill can take.
InLog(a)   == a \in Position /\ a.f \in DOMAIN files /\ a.f \notin forgotten /\ a.p < Len(files[a.f])
Logged(a)  == InLog(a) /\ RecordAt(a) # Torn
Durable(a) == a \in Position /\ a.f \in DOMAIN files /\ a.p < Kept(a.f)

\* BINLOG_INDEX is not what the list in memory says.
Behind == unsaved \/ \E t \in Threads : pc[t] \in {"truncate", "save"}

\* Every file with records is known or forgotten; names are missing in BINLOG_INDEX only
\* while it is rewritten or when that has failed; and what is forgotten is gone for good.
TailInv ==
  /\ \A f \in DOMAIN files : Len(files[f]) = 0 \/ f \in Known \/ f \in forgotten
  /\ \A t \in Threads : pc[t] \in Unsaved => cur \in DOMAIN files /\ Len(files[cur]) = 0
  /\ up => \A f \in Range(fileList) : f \in Range(index) \/ Behind
  /\ \A f \in forgotten : f \in DOMAIN files /\ f # cur /\ f \notin Range(fileList) /\ f \notin Range(index)

LEMMA RangeOf == \A s, f : f \in Range(s) <=> \E i \in DOMAIN s : s[i] = f
  BY DEF Range

LEMMA TailInit == StoreInit => TailInv
<1> SUFFICES ASSUME StoreInit PROVE TailInv
  OBVIOUS
<1>1. /\ DOMAIN files = {1} /\ files[1] = <<>> /\ forgotten = {} /\ fileList = index
      /\ \A t \in Threads : pc[t] = "idle"
  BY DEF StoreInit
<1> QED
  BY <1>1 DEF TailInv, Unsaved

\* Only the open file changes, and new files are empty.
LEMMA OldFilesStay ==
  ASSUME StoreInv, [StoreNext]_storeVars
  PROVE  \A f \in DOMAIN files' :
           /\ f \notin DOMAIN files => files'[f] = <<>>
           /\ f \in DOMAIN files /\ f # cur => files'[f] = files[f]
<1> SUFFICES ASSUME NEW f \in DOMAIN files'
             PROVE  /\ f \notin DOMAIN files => files'[f] = <<>>
                    /\ f \in DOMAIN files /\ f # cur => files'[f] = files[f]
  OBVIOUS
<1> DEFINE Goal == /\ f \notin DOMAIN files => files'[f] = <<>>
                   /\ f \in DOMAIN files /\ f # cur => files'[f] = files[f]
<1>1. files \in Seq(Seq(Record)) /\ cur \in 0..Len(files)
  BY DEF StoreInv, StoreTypeOK
<1>2. ASSUME files' = Append(files, <<>>) PROVE Goal
  BY <1>1, <1>2
<1>3. ASSUME NEW t \in Threads, AppendRecord(t) PROVE Goal
  BY <1>1, <1>3 DEF AppendRecord, LockFree
<1>4. ASSUME ProcessDies PROVE Goal
  BY <1>1, <1>4 DEF ProcessDies, Survivors
<1>5. ASSUME Restart PROVE Goal
  <2>1. cur = NoFile
    BY <1>5 DEF Restart, StoreInv, DeadInv
  <2> QED
    BY <1>1, <1>2, <1>5, <2>1 DEF Restart, Opened, NoFile
<1>6. CASE StdioFlush \/ UNCHANGED storeVars
  BY <1>1, <1>6 DEF StdioFlush, storeVars, logVars
<1>7. ASSUME NEW t \in Threads, Request(t) \/ FileStep(t) PROVE Goal
  BY <1>1, <1>2, <1>7
  DEF Request, SetValue, RemoveKey, WriteDb, Clear, FileStep, RotateFails, WriteNames, CutName, IndexFails,
      logVars
<1>8. ASSUME NEW t \in Threads, ThreadStep(t) PROVE Goal
  BY <1>1, <1>2, <1>3, <1>8
  DEF ThreadStep, ClearDatabase, ClearKey, ClearDone, Rotate, PublishName, TruncateIndex, SaveIndex, logVars
<1>9. CASE Crash
  BY <1>4, <1>9 DEF Crash, Killed, AppendToClosed
<1>10. CASE StartUnlogged \/ StartUnsaved
  BY <1>1, <1>2, <1>10 DEF StartUnlogged, StartUnsaved
<1> QED
  BY <1>5, <1>6, <1>7, <1>8, <1>9, <1>10 DEF StoreNext, StoreStep

\* What stands where in a concatenation of two sequences.
LEMMA Joined ==
  ASSUME NEW S, NEW s \in Seq(S), NEW t \in Seq(S)
  PROVE  /\ s \o t \in Seq(S) /\ Len(s \o t) = Len(s) + Len(t)
         /\ \A i \in 1..Len(s) : (s \o t)[i] = s[i]
         /\ \A i \in Len(s) + 1 .. Len(s) + Len(t) : (s \o t)[i] = t[i - Len(s)]
<1>1. Len(s) \in Nat /\ Len(t) \in Nat
  OBVIOUS
<1>2. s \o t \in Seq(S) /\ Len(s \o t) = Len(s) + Len(t)
  OBVIOUS
<1>3. \A i \in 1..Len(s) : (s \o t)[i] = s[i]
  OBVIOUS
<1>4. \A i \in Len(s) + 1 .. Len(s) + Len(t) : (s \o t)[i] = t[i - Len(s)]
  OBVIOUS
<1> QED
  BY <1>2, <1>3, <1>4

\* A kill makes no file longer and leaves no record in the place of another.
LEMMA DeathShortens ==
  ASSUME StoreInv, ProcessDies
  PROVE  /\ Len(files') = Len(files)
         /\ \A f \in DOMAIN files :
              /\ Len(files'[f]) <= Len(files[f])
              /\ \A i \in 1..Len(files'[f]) : files'[f][i] = files[f][i] \/ files'[f][i] = Torn
              /\ f = cur => \A i \in flushed + 1 .. Len(files'[f]) : files'[f][i] = Torn
<1>1. /\ files \in Seq(Seq(Record)) /\ cur \in 0..Len(files) /\ flushed \in Nat
      /\ cur # NoFile => flushed <= Len(files[cur])
  BY DEF StoreInv, StoreTypeOK, FileInv
<1>2. PICK torn \in BOOLEAN : /\ torn => cur # NoFile /\ flushed < Len(files[cur])
                              /\ files' = Survivors(torn)
  BY DEF ProcessDies
<1>3. CASE cur = NoFile
  BY <1>1, <1>2, <1>3 DEF Survivors, NoFile
<1>4. CASE cur # NoFile
  <2>1. cur \in DOMAIN files /\ files[cur] \in Seq(Record)
    BY <1>1, <1>4 DEF NoFile
  <2>2. PICK kept : kept = OnDisk(cur)
    OBVIOUS
  <2>3. kept \in Seq(Record) /\ Len(kept) = flushed /\ \A i \in 1..flushed : kept[i] = files[cur][i]
    BY <1>1, <1>4, <2>1, <2>2 DEF OnDisk
  <2>4. PICK tail : tail = IF torn THEN <<Torn>> ELSE <<>>
    OBVIOUS
  <2>5. /\ tail \in Seq(Record) /\ Len(tail) = IF torn THEN 1 ELSE 0
        /\ \A i \in 1..Len(tail) : tail[i] = Torn
    <3>1. CASE torn
      BY <2>4, <3>1 DEF Record
    <3>2. CASE ~torn
      BY <2>4, <3>2
    <3> QED
      BY <3>1, <3>2
  <2>6. files' = [files EXCEPT ![cur] = kept \o tail]
    BY <1>2, <1>4, <2>2, <2>4 DEF Survivors
  <2>7. /\ kept \o tail \in Seq(Record) /\ Len(kept \o tail) = flushed + Len(tail)
        /\ \A i \in 1..flushed : (kept \o tail)[i] = kept[i]
        /\ \A i \in flushed + 1 .. flushed + Len(tail) : (kept \o tail)[i] = tail[i - flushed]
    <3>1. tail \in Seq(Record) /\ Len(tail) \in Nat
      BY <2>5
    <3> QED
      BY <1>1, <2>3, <3>1, Joined
  <2>8. files' \in Seq(Seq(Record)) /\ Len(files') = Len(files)
    BY <1>1, <2>1, <2>6, <2>7
  <2>9. \A f \in DOMAIN files : files'[f] = IF f = cur THEN kept \o tail ELSE files[f]
    BY <1>1, <2>1, <2>6
  <2>10. \A i \in flushed + 1 .. flushed + Len(tail) : (kept \o tail)[i] = Torn
    <3>1. \A i \in flushed + 1 .. flushed + Len(tail) : i - flushed \in 1..Len(tail)
      BY <1>1, <2>5
    <3> QED
      BY <2>5, <2>7, <3>1
  <2>11. Len(kept \o tail) <= Len(files[cur])
    BY <1>1, <1>2, <1>4, <2>1, <2>5, <2>7
  <2>12. \A i \in 1 .. flushed + Len(tail) : i \in 1..flushed \/ i \in flushed + 1 .. flushed + Len(tail)
    BY <1>1, <2>5
  <2>13. \A f \in DOMAIN files : Len(files[f]) \in Nat
    BY <1>1
  <2>14. ASSUME NEW f \in DOMAIN files
         PROVE  /\ Len(files'[f]) <= Len(files[f])
                /\ \A i \in 1..Len(files'[f]) : files'[f][i] = files[f][i] \/ files'[f][i] = Torn
                /\ f = cur => \A i \in flushed + 1 .. Len(files'[f]) : files'[f][i] = Torn
    <3>1. CASE f = cur
      BY <2>3, <2>7, <2>9, <2>10, <2>11, <2>12, <3>1
    <3>2. CASE f # cur
      BY <2>9, <2>13, <3>2
    <3> QED
      BY <3>1, <3>2
  <2> QED
    BY <2>8, <2>14
<1> QED
  BY <1>3, <1>4

\* The open file is the last of the list.
LEMMA Latest ==
  ASSUME StoreInv, TailInv, cur # NoFile
  PROVE  /\ up /\ cur \in DOMAIN files /\ cur \notin forgotten
         /\ \A f \in Known : f \in DOMAIN files /\ f <= cur
         /\ (\A t \in Threads : pc[t] # "publish") => Listed(cur)
<1>1. up /\ Known = Range(fileList) /\ cur \in DOMAIN files /\ cur \notin forgotten
  BY DEF StoreInv, DeadInv, Known, TailInv, StoreTypeOK, NoFile
<1>2. fileList \in Seq(Nat) /\ \A i \in DOMAIN fileList : fileList[i] \in 1..Len(files)
  BY DEF StoreInv, StoreTypeOK, FileInv
<1>3. cur \in Nat /\ DOMAIN files = 1..Len(files) /\ Len(files) \in Nat
  BY DEF StoreInv, StoreTypeOK
<1>4. CASE \E t \in Threads : pc[t] = "publish"
  <2>1. \A i \in DOMAIN fileList : fileList[i] < cur
    BY <1>4 DEF StoreInv, FileInv
  <2> QED
    BY <1>1, <1>2, <1>3, <1>4, <2>1, RangeOf
<1>5. CASE \A t \in Threads : pc[t] # "publish"
  <2>1. Len(fileList) \in DOMAIN fileList /\ fileList[Len(fileList)] = cur
    BY <1>2, <1>5 DEF StoreInv, ListInv
  <2>2. \A i \in DOMAIN fileList : i = Len(fileList) \/ i < Len(fileList)
    BY <1>2
  <2>3. \A i \in DOMAIN fileList : fileList[i] <= cur
    BY <1>2, <1>3, <2>1, <2>2 DEF StoreInv, ListInv, Ascending
  <2> QED
    BY <1>1, <1>2, <1>3, <2>1, <2>3, RangeOf DEF Listed
<1> QED
  BY <1>4, <1>5

\* Behind the open file there is nothing but what is forgotten.
LEMMA NoneBehind ==
  ASSUME StoreInv, TailInv, cur # NoFile
  PROVE  \A f \in DOMAIN files : f \notin forgotten /\ Len(files[f]) # 0 => f <= cur
  BY Latest DEF TailInv

LEMMA TailStep ==
  ASSUME StoreInv, StoreInv', TailInv, [StoreNext]_storeVars
  PROVE  TailInv'
<1> USE DEF LockedStages, Unsaved
<1>1. /\ files \in Seq(Seq(Record)) /\ cur \in 0..Len(files) /\ pc \in [Threads -> Stages]
      /\ index \in Seq(Nat) /\ fileList \in Seq(Nat) /\ Len(files) \in Nat
      /\ DOMAIN files = 1..Len(files)
      /\ \A f \in DOMAIN files : files[f] \in Seq(Record) /\ Len(files[f]) \in Nat
  BY DEF StoreInv, StoreTypeOK
<1>2. \A t, u \in Threads : pc[t] \in LockedStages /\ pc[u] \in LockedStages => t = u
  BY DEF StoreInv, MutexInv
<1>3. ASSUME UNCHANGED <<up, files, cur, index, fileList, unsaved, forgotten>>,
             \A t \in Threads : pc[t] \in LockedStages \/ pc'[t] \in LockedStages => pc'[t] = pc[t]
      PROVE  TailInv'
  <2>1. Known' = Known
    BY <1>3 DEF Known
  <2>2. Behind' <=> Behind
    BY <1>3 DEF Behind
  <2>3. \A t \in Threads : pc'[t] \in Unsaved => pc[t] \in Unsaved
    BY <1>3
  <2> QED
    BY <1>3, <2>1, <2>2, <2>3 DEF TailInv
<1>4. ASSUME NEW t \in Threads, AppendRecord(t) PROVE TailInv'
  <2>1. /\ cur # NoFile /\ UNCHANGED <<up, cur, index, fileList, unsaved, forgotten>>
        /\ \A u \in Threads : pc[u] \notin LockedStages
    BY <1>4, StoreAssumption DEF AppendRecord, LockFree, StoreInv, MutexInv
  <2>2. \A u \in Threads : pc'[u] \notin Unsaved
    BY <1>1, <1>4, <2>1 DEF AppendRecord, LockFree
  <2>3. Listed(cur)
    BY <2>1, Latest
  <2>4. DOMAIN files' = DOMAIN files /\ \A f \in DOMAIN files : f # cur => files'[f] = files[f]
    BY <1>1, <1>4 DEF AppendRecord, LockFree
  <2>5. Known' = Known
    BY <2>1 DEF Known
  <2>6. \A f \in DOMAIN files' : Len(files'[f]) = 0 \/ f \in Known' \/ f \in forgotten'
    BY <2>1, <2>3, <2>4, <2>5 DEF TailInv, Listed
  <2>7. ~Behind <=> ~unsaved
    BY <2>1 DEF Behind
  <2> QED
    BY <2>1, <2>2, <2>4, <2>6, <2>7 DEF TailInv, Behind
<1>5. ASSUME NEW t \in Threads, Rotate(t) PROVE TailInv'
  <2>1. /\ files' = Append(files, <<>>) /\ cur' = Len(files) + 1
        /\ UNCHANGED <<up, index, fileList, unsaved, forgotten>>
        /\ \A u \in Threads : pc'[u] = IF u = t THEN "publish" ELSE pc[u]
        /\ pc[t] = "rotate"
    BY <1>1, <1>5 DEF Rotate, history
  <2>2. /\ DOMAIN files' = 1 .. Len(files) + 1
        /\ \A f \in DOMAIN files : files'[f] = files[f]
        /\ files'[Len(files) + 1] = <<>> /\ Len(files'[Len(files) + 1]) = 0
        /\ \A f \in DOMAIN files' : f \in DOMAIN files \/ f = Len(files) + 1
    BY <1>1, <2>1
  <2>3. Known' = Known /\ (Behind' <=> Behind)
    BY <2>1 DEF Known, Behind
  <2>4. \A f \in DOMAIN files' : Len(files'[f]) = 0 \/ f \in Known' \/ f \in forgotten'
    BY <2>1, <2>2, <2>3 DEF TailInv
  <2>5. \A f \in forgotten : f \in DOMAIN files' /\ f # cur'
    BY <1>1, <2>1, <2>2 DEF TailInv
  <2>6. cur' \in DOMAIN files' /\ Len(files'[cur']) = 0
    BY <1>1, <2>1, <2>2
  <2> QED
    BY <2>1, <2>3, <2>4, <2>5, <2>6 DEF TailInv
<1>6. ASSUME NEW t \in Threads, RotateFails(t) PROVE TailInv'
  <2>1. /\ cur' = NoFile /\ UNCHANGED <<up, files, index, fileList, unsaved, forgotten>>
        /\ \A u \in Threads : pc'[u] = IF u = t THEN "idle" ELSE pc[u]
        /\ pc[t] = "rotate"
    BY <1>1, <1>6 DEF RotateFails, history
  <2>2. \A u \in Threads : pc'[u] \notin LockedStages
    BY <1>2, <2>1
  <2>3. Known' = Known /\ (Behind' <=> Behind)
    BY <2>1 DEF Known, Behind
  <2>4. \A f \in forgotten : f # NoFile
    BY <1>1 DEF TailInv, NoFile
  <2> QED
    BY <2>1, <2>2, <2>3, <2>4 DEF TailInv
<1>7. ASSUME NEW t \in Threads, PublishName(t) PROVE TailInv'
  <2>1. /\ fileList' = Append(fileList, cur) /\ UNCHANGED <<up, files, cur, index, unsaved, forgotten>>
        /\ \A u \in Threads : pc'[u] = IF u = t THEN "truncate" ELSE pc[u]
        /\ pc[t] = "publish" /\ up
    BY <1>1, <1>7 DEF PublishName, StoreInv, DeadInv, history
  <2>2. \A f : f \in Range(fileList') <=> f \in Range(fileList) \/ f = cur
    <3>1. /\ DOMAIN fileList' = 1 .. Len(fileList) + 1 /\ DOMAIN fileList = 1..Len(fileList)
          /\ \A i \in 1..Len(fileList) : fileList'[i] = fileList[i]
          /\ fileList'[Len(fileList) + 1] = cur
          /\ Len(fileList) \in Nat
      BY <1>1, <2>1
    <3>2. \A i : i \in 1 .. Len(fileList) + 1 <=> i \in 1..Len(fileList) \/ i = Len(fileList) + 1
      BY <3>1
    <3> QED
      BY <3>1, <3>2, RangeOf
  <2>3. \A f : f \in Known' <=> f \in Known \/ f = cur
    BY <2>1, <2>2 DEF Known
  <2>4. Behind'
    BY <2>1 DEF Behind
  <2> QED
    BY <2>1, <2>2, <2>3, <2>4 DEF TailInv
<1>8. ASSUME NEW t \in Threads, TruncateIndex(t) PROVE TailInv'
  <2>1. /\ index' = <<>> /\ UNCHANGED <<up, files, cur, fileList, unsaved, forgotten>>
        /\ \A u \in Threads : pc'[u] = IF u = t THEN "save" ELSE pc[u]
        /\ pc[t] = "truncate" /\ up
    BY <1>1, <1>8 DEF TruncateIndex, StoreInv, DeadInv, history
  <2>2. Known' = Known /\ Behind'
    BY <2>1 DEF Known, Behind
  <2>3. \A f : f \notin Range(index')
    BY <2>1, RangeOf
  <2>4. \A u \in Threads : pc'[u] \in Unsaved => pc[u] \in Unsaved
    BY <2>1
  <2> QED
    BY <2>1, <2>2, <2>3, <2>4 DEF TailInv
<1>9. ASSUME NEW t \in Threads, SaveIndex(t) PROVE TailInv'
  <2>1. /\ index' = fileList /\ UNCHANGED <<up, files, cur, fileList, forgotten>>
        /\ \A u \in Threads : pc'[u] = IF u = t THEN "idle" ELSE pc[u]
        /\ pc[t] = "save" /\ up
    BY <1>1, <1>9 DEF SaveIndex, Saved, StoreInv, DeadInv
  <2>2. Known' = Known
    BY <2>1 DEF Known
  <2>3. \A u \in Threads : pc'[u] \in Unsaved => pc[u] \in Unsaved
    BY <2>1
  <2> QED
    BY <2>1, <2>2, <2>3 DEF TailInv
<1>10. ASSUME NEW t \in Threads, WriteNames(t) PROVE TailInv'
  <2>1. /\ UNCHANGED <<up, files, cur, fileList, pc, unsaved, forgotten>> /\ pc[t] = "save" /\ up
    BY <1>10 DEF WriteNames, threadVars, history, StoreInv, DeadInv
  <2>2. Known' = Known /\ Behind'
    BY <2>1 DEF Known, Behind
  <2>3. \A f : f \in Range(index') => f \in Range(fileList)
    <3>1. PICK n \in 1 .. Len(fileList) - 1 : index' = SubSeq(fileList, 1, n)
      BY <1>10 DEF WriteNames
    <3>2. PICK s : s = SubSeq(fileList, 1, n)
      OBVIOUS
    <3>3. DOMAIN s = 1..n /\ \A i \in 1..n : s[i] = fileList[i] /\ i \in DOMAIN fileList
      BY <1>1, <3>2
    <3>4. index' = s
      BY <3>1, <3>2
    <3> QED
      BY <3>3, <3>4, RangeOf
  <2> QED
    BY <2>1, <2>2, <2>3 DEF TailInv
<1>11. ASSUME NEW t \in Threads, CutName(t) PROVE TailInv'
  <2>1. /\ UNCHANGED <<up, cur, fileList, pc, unsaved, forgotten>> /\ pc[t] = "save" /\ up
        /\ files' = Append(files, <<>>)
    BY <1>11 DEF CutName, threadVars, history, StoreInv, DeadInv
  <2>2. Known' = Known /\ Behind'
    BY <2>1 DEF Known, Behind
  <2>3. /\ DOMAIN files' = 1 .. Len(files) + 1
        /\ \A f \in DOMAIN files : files'[f] = files[f] /\ f \in DOMAIN files'
        /\ Len(files'[Len(files) + 1]) = 0
        /\ \A f \in DOMAIN files' : f \in DOMAIN files \/ f = Len(files) + 1
    BY <1>1, <2>1
  <2>4. \A f : f \in Range(index') => f \in Range(fileList) \/ f = Len(files) + 1
    <3>1. PICK n \in 1 .. Len(fileList) - 1 : index' = Append(SubSeq(fileList, 1, n), Len(files) + 1)
      BY <1>11 DEF CutName
    <3>2. PICK s : s = SubSeq(fileList, 1, n)
      OBVIOUS
    <3>3. /\ s \in Seq(Nat) /\ Len(s) = n /\ DOMAIN s = 1..n
          /\ \A i \in 1..n : s[i] = fileList[i] /\ i \in DOMAIN fileList
      BY <1>1, <3>2
    <3>4. /\ DOMAIN index' = 1 .. n + 1 /\ index'[n + 1] = Len(files) + 1
          /\ \A i \in 1..n : index'[i] = s[i]
      BY <1>1, <3>1, <3>2, <3>3
    <3>5. \A i \in 1 .. n + 1 : i \in 1..n \/ i = n + 1
      BY <1>1
    <3> QED
      BY <3>3, <3>4, <3>5, RangeOf
  <2>5. Len(files) + 1 \notin forgotten
    BY <1>1 DEF TailInv
  <2>6. \A f \in DOMAIN files' : Len(files'[f]) = 0 \/ f \in Known' \/ f \in forgotten'
    BY <2>1, <2>2, <2>3 DEF TailInv
  <2>7. \A u \in Threads : pc'[u] \in Unsaved => cur' \in DOMAIN files' /\ Len(files'[cur']) = 0
    BY <2>1, <2>3 DEF TailInv
  <2> QED
    BY <2>1, <2>2, <2>3, <2>4, <2>5, <2>6, <2>7 DEF TailInv
<1>12. ASSUME NEW t \in Threads, IndexFails(t) PROVE TailInv'
  <2>1. /\ UNCHANGED <<up, files, cur, index, fileList, forgotten>> /\ unsaved'
        /\ \A u \in Threads : pc'[u] = IF u = t THEN "idle" ELSE pc[u]
    BY <1>1, <1>12 DEF IndexFails, logVars
  <2>2. Known' = Known /\ Behind'
    BY <2>1 DEF Known, Behind
  <2>3. \A u \in Threads : pc'[u] \in Unsaved => pc[u] \in Unsaved
    BY <2>1
  <2> QED
    BY <2>1, <2>2, <2>3 DEF TailInv
<1>13. ASSUME ProcessDies PROVE TailInv'
  <2>1. /\ up /\ ~up' /\ cur' = NoFile /\ index' = index /\ fileList' = <<>>
        /\ forgotten' = forgotten \cup Forgotten
        /\ \A u \in Threads : pc'[u] = "idle"
    BY <1>13 DEF ProcessDies
  <2>2. /\ DOMAIN files' = DOMAIN files
        /\ \A f \in DOMAIN files : Len(files'[f]) \in Nat /\ Len(files'[f]) <= Len(files[f])
    <3>1. files' \in Seq(Seq(Record)) /\ Len(files') = Len(files)
      BY <1>13, DeathShortens DEF StoreInv, StoreTypeOK
    <3> QED
      BY <1>1, <1>13, <3>1, DeathShortens
  <2>3. Known = Range(fileList) /\ Known' = Range(index)
    BY <2>1 DEF Known
  <2>4. Forgotten = IF Behind THEN Range(fileList) \ Range(index) ELSE {}
    BY DEF Forgotten, Behind
  <2>5. \A f \in DOMAIN files' : Len(files'[f]) = 0 \/ f \in Known' \/ f \in forgotten'
    <3> SUFFICES ASSUME NEW f \in DOMAIN files, Len(files'[f]) # 0
                 PROVE  f \in Range(index) \/ f \in forgotten \/ f \in Forgotten
      BY <2>1, <2>2, <2>3
    <3>1. Len(files[f]) # 0
      BY <1>1, <2>2
    <3>2. f \in Range(fileList) \/ f \in forgotten
      BY <2>3, <3>1 DEF TailInv
    <3>3. f \in Range(fileList) => f \in Range(index) \/ Behind
      BY <2>1 DEF TailInv
    <3> QED
      BY <2>4, <3>2, <3>3
  <2>6. \A f \in Forgotten : f \in DOMAIN files /\ f \notin Range(index)
    BY <1>1, <2>4, RangeOf DEF StoreInv, FileInv
  <2>7. \A f : f \in DOMAIN files => f # NoFile
    BY <1>1 DEF NoFile
  <2>8. \A f : f \notin Range(fileList')
    BY <2>1, RangeOf
  <2>9. \A f \in forgotten' :
          f \in DOMAIN files' /\ f # cur' /\ f \notin Range(fileList') /\ f \notin Range(index')
    BY <2>1, <2>2, <2>6, <2>7, <2>8 DEF TailInv
  <2> QED
    BY <2>1, <2>5, <2>9 DEF TailInv
<1>14. ASSUME ~up, up', UNCHANGED <<pc, forgotten>>, \A f \in Range(fileList') : f \in Range(index') \/ unsaved',
              Range(fileList') = Range(index) \/ (index = <<>> /\ Range(fileList') = {Len(files) + 1}),
              Range(index') = Range(index) \/ Range(index') = {Len(files) + 1},
              files' = files \/ files' = Append(files, <<>>),
              cur' = NoFile \/ cur' = Len(files) + 1 \/ cur' \in Range(index)
       PROVE TailInv'
  <2>1. \A u \in Threads : pc'[u] = "idle"
    BY <1>14 DEF StoreInv, DeadInv
  <2>2. /\ \A f \in DOMAIN files : files'[f] = files[f] /\ f \in DOMAIN files'
        /\ \A f \in DOMAIN files' : f \in DOMAIN files \/ (f = Len(files) + 1 /\ Len(files'[f]) = 0)
    <3>1. CASE files' = files
      BY <3>1
    <3>2. CASE files' = Append(files, <<>>)
      BY <1>1, <3>2
    <3> QED
      BY <1>14, <3>1, <3>2
  <2>3. Known = Range(index) /\ Known' = Range(fileList')
    BY <1>14 DEF Known
  <2>4. index = <<>> => \A f : f \notin Range(index)
    BY RangeOf
  <2>5. \A f \in DOMAIN files' : Len(files'[f]) = 0 \/ f \in Known' \/ f \in forgotten'
    BY <1>14, <2>2, <2>3, <2>4 DEF TailInv
  <2>6. \A f \in forgotten : f \in DOMAIN files /\ f # NoFile /\ f # Len(files) + 1 /\ f \notin Range(index)
    BY <1>1 DEF TailInv, NoFile
  <2>7. \A f \in forgotten' :
          f \in DOMAIN files' /\ f # cur' /\ f \notin Range(fileList') /\ f \notin Range(index')
    BY <1>14, <2>2, <2>6
  <2> QED
    BY <1>14, <2>1, <2>5, <2>7 DEF TailInv, Behind
<1>15. CASE Restart
  <2>1. /\ ~up /\ up' /\ UNCHANGED <<pc, forgotten>>
    BY <1>15 DEF Restart, threadVars, history
  <2>2. CASE index = <<>>
    <3>1. files' = Append(files, <<>>) /\ cur' = Len(files) + 1 /\ index' = <<cur'>> /\ fileList' = <<cur'>>
      BY <1>15, <2>2 DEF Restart
    <3>2. Range(index') = {Len(files) + 1} /\ Range(fileList') = {Len(files) + 1}
      BY <3>1 DEF Range
    <3> QED
      BY <1>14, <2>1, <2>2, <3>1, <3>2
  <2>3. CASE index # <<>>
    <3>1. Len(index) \in DOMAIN index /\ index[Len(index)] \in DOMAIN files
      BY <1>1, <2>3 DEF StoreInv, FileInv
    <3>2. cur' = index[Len(index)] /\ files' = files /\ index' = index /\ fileList' = index
      <4>1. files \in Seq(Seq(Record))
        BY <1>1
      <4> QED
        BY <1>15, <2>3, <3>1, <4>1 DEF Restart, Reopened, Opened, Last
    <3>3. cur' \in Range(index)
      BY <3>1, <3>2, RangeOf
    <3> QED
      BY <1>14, <2>1, <3>2, <3>3
  <2> QED
    BY <2>2, <2>3
<1>16. CASE StartUnlogged
  <2>1. /\ ~up /\ up' /\ UNCHANGED <<pc, forgotten, files, cur, index>> /\ fileList' = index
        /\ cur = NoFile
    BY <1>16 DEF StartUnlogged, threadVars, history, StoreInv, DeadInv
  <2> QED
    BY <1>14, <2>1
<1>17. CASE StartUnsaved
  <2>1. /\ ~up /\ up' /\ UNCHANGED <<pc, forgotten, index>> /\ index = <<>>
        /\ files' = Append(files, <<>>) /\ cur' = Len(files) + 1 /\ fileList' = <<cur'>> /\ unsaved'
    BY <1>17 DEF StartUnsaved, threadVars
  <2>2. Range(fileList') = {Len(files) + 1}
    BY <2>1 DEF Range
  <2> QED
    BY <1>14, <2>1, <2>2
<1>18. CASE StdioFlush \/ UNCHANGED storeVars
  BY <1>3, <1>18 DEF StdioFlush, storeVars, threadVars, logVars, history
<1>19. ASSUME NEW t \in Threads, \/ Request(t)
                                 \/ \E d \in Databases : ClearDatabase(t, d)
                                 \/ \E k \in Keys : ClearKey(t, k)
                                 \/ ClearDone(t)
       PROVE TailInv'
  <2>1. /\ UNCHANGED <<up, files, cur, index, fileList, unsaved, forgotten>>
        /\ pc' = pc \/ \E s \in {"append", "clear", "idle"} : pc' = [pc EXCEPT ![t] = s] /\ pc[t] \in {"idle", "clear"}
    BY <1>19 DEF Request, SetValue, RemoveKey, WriteDb, Clear, ClearDatabase, ClearKey, ClearDone, logVars, history
  <2>2. \A u \in Threads : pc[u] \in LockedStages \/ pc'[u] \in LockedStages => pc'[u] = pc[u]
    BY <1>1, <2>1
  <2> QED
    BY <1>3, <2>1, <2>2
<1>20. CASE Crash
  BY <1>13, <1>20 DEF Crash, Killed, AppendToClosed
<1> QED
  BY <1>4, <1>5, <1>6, <1>7, <1>8, <1>9, <1>10, <1>11, <1>12, <1>15, <1>16, <1>17, <1>18, <1>19, <1>20
  DEF StoreNext, StoreStep, ThreadStep, FileStep

LEMMA TailInvariant == StoreSpec => []TailInv
<1>1. StoreInv /\ StoreInv' /\ TailInv /\ [StoreNext]_storeVars => TailInv'
  BY TailStep
<1> QED
  BY <1>1, TailInit, StoreInvariant, PTL DEF StoreSpec

\* A file that holds records is in the list a start goes by, or a kill came while
\* BINLOG_INDEX was not what the list in memory said.
THEOREM RecordsListed == StoreSpec => []RecordsAreListed
<1>1. StoreInv /\ TailInv => RecordsAreListed
  <2>1. StoreInv => \A f \in DOMAIN files : files[f] # <<>> => Len(files[f]) # 0
    BY EmptySeq DEF StoreInv, StoreTypeOK
  <2> QED
    BY <2>1 DEF TailInv, RecordsAreListed
<1> QED
  BY <1>1, StoreInvariant, TailInvariant, PTL

\* What is forgotten is forgotten for good.
LEMMA ForgottenGrows == [StoreNext]_storeVars => forgotten \subseteq forgotten'
  BY DEF StoreNext, StoreStep, Request, ThreadStep, FileStep, SetValue, RemoveKey, WriteDb, Clear,
         ClearDatabase, ClearKey, ClearDone, AppendRecord, Rotate, RotateFails, PublishName, TruncateIndex,
         WriteNames, CutName, SaveIndex, IndexFails, StdioFlush, Crash, Killed, AppendToClosed, ProcessDies,
         Restart, StartUnlogged, StartUnsaved, storeVars, history

\* A listed file stays listed until a kill cuts it out of the index.
LEMMA ListedStays ==
  ASSUME StoreInv, TailInv, [StoreNext]_storeVars, NEW f, Listed(f)
  PROVE  Listed(f)' \/ f \in forgotten'
<1>1. fileList \in Seq(Nat)
  BY DEF StoreInv, StoreTypeOK
<1>2. CASE UNCHANGED <<up, fileList>> /\ up
  BY <1>2 DEF Listed, Known
<1>3. CASE up /\ up' /\ fileList' = Append(fileList, cur)
  <2>1. PICK i \in DOMAIN fileList : fileList[i] = f
    BY <1>3, RangeOf DEF Listed, Known
  <2>2. i \in DOMAIN fileList' /\ fileList'[i] = f
    BY <1>1, <1>3, <2>1
  <2> QED
    BY <1>3, <2>2, RangeOf DEF Listed, Known
<1>4. CASE ProcessDies
  <2>1. up /\ ~up' /\ index' = index /\ forgotten' = forgotten \cup Forgotten
    BY <1>4 DEF ProcessDies
  <2>2. f \in Range(fileList)
    BY <2>1 DEF Listed, Known
  <2>3. f \in Range(index) \/ Behind
    BY <2>1, <2>2 DEF TailInv
  <2> QED
    BY <2>1, <2>2, <2>3 DEF Listed, Known, Forgotten, Behind
<1>5. CASE ~up /\ up' /\ (fileList' = index \/ index = <<>>)
  <2>1. f \in Range(index) /\ index # <<>>
    BY <1>5, RangeOf DEF Listed, Known
  <2> QED
    BY <1>5, <2>1 DEF Listed, Known
<1>6. CASE UNCHANGED <<up, fileList, index>>
  BY <1>6 DEF Listed, Known
<1>7. CASE UNCHANGED storeVars
  BY <1>6, <1>7 DEF storeVars, logVars
<1>8. ASSUME NEW t \in Threads, Request(t) PROVE UNCHANGED <<up, fileList, index>>
  BY <1>8 DEF Request, SetValue, RemoveKey, WriteDb, Clear, logVars
<1>10. CASE Restart \/ StartUnlogged \/ StartUnsaved
  BY <1>5, <1>10 DEF Restart, StartUnlogged, StartUnsaved
<1>11. CASE Crash
  BY <1>4, <1>11 DEF Crash, Killed, AppendToClosed
<1>12. CASE StdioFlush
  BY <1>6, <1>12 DEF StdioFlush
<1>13. ASSUME NEW t \in Threads, ThreadStep(t) \/ FileStep(t) PROVE Listed(f)' \/ f \in forgotten'
  <2>1. pc[t] # "idle"
    BY <1>13
    DEF ThreadStep, ClearDatabase, ClearKey, ClearDone, AppendRecord, Rotate, PublishName, TruncateIndex,
        SaveIndex, FileStep, RotateFails, WriteNames, CutName, IndexFails
  <2>2. up
    BY <2>1 DEF StoreInv, DeadInv
  <2>3. up' = up /\ (fileList' = fileList \/ fileList' = Append(fileList, cur))
    BY <1>13
    DEF ThreadStep, ClearDatabase, ClearKey, ClearDone, AppendRecord, Rotate, PublishName, TruncateIndex,
        SaveIndex, FileStep, RotateFails, WriteNames, CutName, IndexFails, logVars
  <2> QED
    BY <1>2, <1>3, <2>2, <2>3
<1> QED
  BY <1>6, <1>7, <1>8, <1>10, <1>11, <1>12, <1>13 DEF StoreNext, StoreStep

\* What a record is it stays, except that a kill may tear it.
LEMMA RecordsKept ==
  ASSUME StoreInv, StoreInv', [StoreNext]_storeVars
  PROVE  \A f \in DOMAIN files, i \in Nat \ {0} :
           i <= Len(files'[f]) /\ i <= Len(files[f])
             => files'[f][i] = files[f][i] \/ files'[f][i] = Torn
<1> SUFFICES ASSUME NEW f \in DOMAIN files, NEW i \in Nat \ {0}, i <= Len(files'[f]), i <= Len(files[f])
             PROVE  files'[f][i] = files[f][i] \/ files'[f][i] = Torn
  OBVIOUS
<1>1. files \in Seq(Seq(Record)) /\ files[f] \in Seq(Record) /\ f # NoFile /\ cur \in Nat
  BY DEF StoreInv, StoreTypeOK, NoFile
<1>4. Append(files, <<>>)[f] = files[f]
  <2>1. <<>> \in Seq(Record) /\ f \in 1..Len(files) /\ Len(files) \in Nat
    BY <1>1
  <2> QED
    BY <1>1, <2>1
<1>2. CASE f # cur \/ files'[f] = files[f]
  BY <1>2, OldFilesStay, KeptGrows
<1>3. CASE f = cur /\ files'[f] # files[f]
  <2>1. /\ ~StdioFlush /\ ~UNCHANGED storeVars /\ ~StartUnlogged /\ ~StartUnsaved /\ ~Restart
        /\ \A t \in Threads : ~Request(t) /\ ~FileStep(t)
    <3>1. files' # files /\ files' # Append(files, <<>>)
      BY <1>3, <1>4
    <3>2. ~Restart /\ ~StartUnsaved /\ ~StartUnlogged
      <4>1. up
        BY <1>1, <1>3 DEF StoreInv, DeadInv
      <4> QED
        BY <4>1 DEF Restart, StartUnsaved, StartUnlogged
    <3>3. ~StdioFlush /\ ~UNCHANGED storeVars
      BY <3>1 DEF StdioFlush, storeVars, logVars
    <3>4. ASSUME NEW t \in Threads PROVE ~Request(t)
      BY <3>1 DEF Request, SetValue, RemoveKey, WriteDb, Clear, logVars
    <3>5. ASSUME NEW t \in Threads PROVE ~FileStep(t)
      BY <3>1 DEF FileStep, RotateFails, WriteNames, CutName, IndexFails, logVars
    <3> QED
      BY <3>2, <3>3, <3>4, <3>5
  <2>2. CASE \E t \in Threads : ThreadStep(t)
    <3>1. PICK t \in Threads : AppendRecord(t)
      <4>1. files' # files /\ files' # Append(files, <<>>)
        BY <1>3, <1>4
      <4> QED
        BY <2>2, <4>1
        DEF ThreadStep, ClearDatabase, ClearKey, ClearDone, Rotate, PublishName, TruncateIndex, SaveIndex, logVars
    <3>2. PICK r : files'[f] = Append(files[f], r)
      BY <1>1, <1>3, <3>1 DEF AppendRecord
    <3> QED
      BY <1>1, <3>2
  <2>3. CASE Crash
    <3>1. ProcessDies
      BY <2>3 DEF Crash, Killed, AppendToClosed
    <3>2. Len(files'[f]) \in Nat
      <4>1. files' \in Seq(Seq(Record)) /\ Len(files') = Len(files)
        BY <3>1, DeathShortens DEF StoreInv, StoreTypeOK
      <4>2. f \in DOMAIN files'
        BY <1>1, <4>1
      <4> QED
        BY <4>1, <4>2
    <3>3. i \in 1..Len(files'[f])
      BY <3>2
    <3> QED
      BY <3>1, <3>3, DeathShortens
  <2> QED
    BY <1>3, <2>1, <2>2, <2>3 DEF StoreNext, StoreStep, storeVars, logVars
<1> QED
  BY <1>2, <1>3

\* A record the log did not have comes behind what the open file held, which is listed.
LEMMA NewAtTail ==
  ASSUME StoreInv, StoreInv', TailInv, TailInv', [StoreNext]_storeVars, NEW a, Logged(a)', ~Logged(a)
  PROVE  cur # NoFile /\ a.f = cur /\ a.p >= Len(files[cur]) /\ Listed(a.f)'
<1>1. /\ a \in Position /\ a.f \in DOMAIN files' /\ a.f \notin forgotten' /\ a.p < Len(files'[a.f])
      /\ RecordAt(a)' # Torn /\ a.p \in Nat /\ a.f \in Nat
  BY DEF Logged, InLog, Position
<1>2. /\ files \in Seq(Seq(Record)) /\ DOMAIN files = 1..Len(files) /\ Len(files) \in Nat
      /\ files' \in Seq(Seq(Record))
  BY DEF StoreInv, StoreTypeOK
<1>3. forgotten \subseteq forgotten'
  BY ForgottenGrows
<1>4. Len(files'[a.f]) # 0 /\ Len(files'[a.f]) \in Nat
  BY <1>1, <1>2
<1>5. Listed(a.f)'
  BY <1>1, <1>4 DEF TailInv, Listed
<1>6. a.f \in DOMAIN files
  <2> SUFFICES ASSUME a.f \notin DOMAIN files PROVE FALSE
    OBVIOUS
  <2>1. files'[a.f] = <<>>
    BY <1>1, OldFilesStay
  <2> QED
    BY <1>4, <2>1
<1>7. a.f = cur
  <2> SUFFICES ASSUME a.f # cur PROVE FALSE
    OBVIOUS
  <2>1. files'[a.f] = files[a.f]
    BY <1>1, <1>6, OldFilesStay
  <2> QED
    BY <1>1, <1>3, <1>6, <2>1 DEF Logged, InLog, RecordAt
<1>8. ~(a.p < Len(files[a.f]))
  <2> SUFFICES ASSUME a.p < Len(files[a.f]) PROVE FALSE
    OBVIOUS
  <2>1. Len(files[a.f]) \in Nat /\ a.p + 1 \in Nat \ {0}
    BY <1>1, <1>2, <1>6
  <2>2. a.p + 1 <= Len(files'[a.f]) /\ a.p + 1 <= Len(files[a.f])
    BY <1>1, <1>4, <2>1
  <2>3. RecordAt(a)' = RecordAt(a)
    BY <1>1, <1>6, <2>1, <2>2, RecordsKept DEF RecordAt
  <2> QED
    BY <1>1, <1>3, <1>6, <2>3 DEF Logged, InLog
<1>9. Len(files[a.f]) \in Nat
  BY <1>2, <1>6
<1> QED
  BY <1>1, <1>2, <1>5, <1>6, <1>7, <1>8, <1>9 DEF NoFile

LEMMA DurableStays ==
  ASSUME StoreInv, [StoreNext]_storeVars, StoreInv', NEW a, Durable(a)
  PROVE  Durable(a)'
<1>1. a \in Position /\ a.f \in DOMAIN files /\ a.p < Kept(a.f) /\ a.p \in Nat
  BY DEF Durable, Position
<1>2. a.f \in DOMAIN files' /\ Kept(a.f) <= Kept(a.f)'
  BY <1>1, KeptGrows
<1>3. Kept(a.f) \in Nat
  BY <1>1, OnDiskIsPrefix DEF DiskPrefix
<1>4. DiskPrefix'
  BY OnDiskIsPrefix, PTL
<1>5. Kept(a.f)' \in Nat
  BY <1>2, <1>4 DEF DiskPrefix
<1> QED
  BY <1>1, <1>2, <1>3, <1>5 DEF Durable

\* What a step makes durable comes behind all that was.
LEMMA NewDurableBehind ==
  ASSUME StoreInv, StoreInv', TailInv, [StoreNext]_storeVars,
         NEW a, Durable(a), a.f \notin forgotten, NEW b, Durable(b)', ~Durable(b)
  PROVE  Before(a, b)
<1>1. /\ a \in Position /\ a.f \in DOMAIN files /\ a.p < Kept(a.f) /\ a.p \in Nat /\ a.f \in Nat
      /\ b \in Position /\ b.f \in DOMAIN files' /\ b.p < Kept(b.f)' /\ b.p \in Nat /\ b.f \in Nat
  BY DEF Durable, Position
<1>2. /\ files \in Seq(Seq(Record)) /\ DOMAIN files = 1..Len(files) /\ Len(files) \in Nat
      /\ cur \in Nat
  BY DEF StoreInv, StoreTypeOK
<1>3. DiskPrefix /\ DiskPrefix'
  BY OnDiskIsPrefix, PTL
<1>4. Kept(b.f)' \in Nat /\ Kept(b.f)' <= Len(files'[b.f])
  BY <1>1, <1>3 DEF DiskPrefix
<1>5. b.f \in DOMAIN files
  <2> SUFFICES ASSUME b.f \notin DOMAIN files PROVE FALSE
    OBVIOUS
  <2>1. files'[b.f] = <<>>
    BY <1>1, OldFilesStay
  <2>2. Len(files'[b.f]) = 0
    BY <2>1
  <2> QED
    BY <1>1, <1>4, <2>2
<1>6. b.f = cur
  <2> SUFFICES ASSUME b.f # cur PROVE FALSE
    OBVIOUS
  <2>1. files'[b.f] = files[b.f] /\ Kept(b.f) = Len(files[b.f])
    BY <1>1, <1>5, OldFilesStay DEF Kept
  <2>2. b.p < Kept(b.f)
    BY <1>1, <1>2, <1>4, <1>5, <2>1
  <2> QED
    BY <1>1, <1>5, <2>2 DEF Durable
<1>7. b.p >= Kept(b.f) /\ Kept(b.f) \in Nat
  <2>1. ~(b.p < Kept(b.f))
    BY <1>1, <1>5 DEF Durable
  <2>2. Kept(b.f) \in Nat
    BY <1>3, <1>5 DEF DiskPrefix
  <2> QED
    BY <1>1, <2>1, <2>2
<1>8. Kept(a.f) \in Nat /\ Kept(a.f) <= Len(files[a.f])
  BY <1>1, <1>3 DEF DiskPrefix
<1>9. ~(a.f > cur)
  <2> SUFFICES ASSUME a.f > cur PROVE FALSE
    OBVIOUS
  <2>1. cur # NoFile
    BY <1>2, <1>5, <1>6 DEF NoFile
  <2>2. Len(files[a.f]) = 0
    BY <1>1, <1>2, <2>1, NoneBehind
  <2> QED
    BY <1>1, <1>8, <2>2
<1> QED
  BY <1>1, <1>2, <1>6, <1>7, <1>8, <1>9 DEF Before

-----------------------------------------------------------------------------
(* What the log holds of the databases *)

\* The positions of the records of k, and what replaying them makes of it.
Mine(k) == {a \in Positions(Known) : RecordAt(a) # Torn /\ RecordAt(a).key = k}

Newest(k, v) ==
  \/ Mine(k) = {} /\ v = Absent
  \/ \E a \in Mine(k) : RecordAt(a).val = v /\ \A b \in Mine(k) : b = a \/ Before(b, a)

Pending(t, k) == pc[t] = "append" /\ op[t].key = k

\* The database is ahead of the log by at most the one record that a thread has still
\* to append.
RecordInv ==
  \A k \in Keys \ (raced \cup unlogged) :
    /\ \A t, u \in Threads : Pending(t, k) /\ Pending(u, k) => t = u
    /\ \A t \in Threads : Pending(t, k) => op[t].val = db[k]
    /\ (\A t \in Threads : ~Pending(t, k)) => Newest(k, db[k])

\* Replaying what the program knows misses nothing but what a kill has cut out of the index.
LEMMA PositionsInLog == StoreInv /\ TailInv => \A a : a \in Positions(Known) <=> InLog(a)
<1> SUFFICES ASSUME StoreInv, TailInv, NEW a PROVE a \in Positions(Known) <=> InLog(a)
  OBVIOUS
<1>1. files \in Seq(Seq(Record)) /\ DOMAIN files = 1..Len(files) /\ Len(files) \in Nat
  BY DEF StoreInv, StoreTypeOK
<1>2. \A g \in DOMAIN files : g \in Nat /\ Len(files[g]) \in Nat
  BY <1>1
<1>3. \A g \in Known : g \in DOMAIN files /\ g \notin forgotten
  <2>1. \A g \in Known : g \in DOMAIN files
    BY <1>1, RangeOf DEF Known, StoreInv, FileInv
  <2> QED
    BY <2>1 DEF TailInv, Known
<1>4. ASSUME a \in Positions(Known) PROVE InLog(a)
  <2>1. PICK g \in Known : \E j \in 1..Len(files[g]) : a = [f |-> g, p |-> j - 1]
    BY <1>4 DEF Positions
  <2>2. PICK j \in 1..Len(files[g]) : a = [f |-> g, p |-> j - 1]
    BY <2>1
  <2>3. g \in Nat /\ j - 1 \in Nat /\ j - 1 < Len(files[g])
    BY <1>2, <1>3
  <2> QED
    BY <1>3, <2>2, <2>3 DEF InLog, Position
<1>5. ASSUME InLog(a) PROVE a \in Positions(Known)
  <2>1. a.f \in DOMAIN files /\ a.p \in Nat /\ a.p < Len(files[a.f]) /\ a = [f |-> a.f, p |-> a.p]
    BY <1>5 DEF InLog, Position
  <2>2. a.p + 1 \in 1..Len(files[a.f]) /\ a = [f |-> a.f, p |-> (a.p + 1) - 1]
    BY <1>2, <2>1
  <2>3. a.f \in Known
    BY <1>2, <1>5, <2>1 DEF InLog, TailInv
  <2> QED
    BY <2>2, <2>3 DEF Positions
<1> QED
  BY <1>4, <1>5

\* What is the newest record of k stays it while the records of k stay the same.
LEMMA NewestStays ==
  ASSUME StoreInv, StoreInv', TailInv, TailInv', NEW k, NEW v, Newest(k, v),
         \A a : InLog(a) /\ RecordAt(a) # Torn /\ RecordAt(a).key = k
                  => InLog(a)' /\ RecordAt(a)' = RecordAt(a),
         \A a : InLog(a)' /\ RecordAt(a)' # Torn /\ RecordAt(a)'.key = k
                  => InLog(a) /\ RecordAt(a)' = RecordAt(a)
  PROVE  Newest(k, v)'
<1>1. \A a : a \in Positions(Known) <=> InLog(a)
  BY PositionsInLog
<1>2. \A a : a \in Positions(Known)' <=> InLog(a)'
  <2>1. (\A a : a \in Positions(Known) <=> InLog(a))'
    BY PositionsInLog, PTL
  <2> QED
    BY <2>1
<1>3. \A a : a \in Mine(k) <=> InLog(a) /\ RecordAt(a) # Torn /\ RecordAt(a).key = k
  BY <1>1 DEF Mine
<1>4. \A a : a \in Mine(k)' <=> InLog(a)' /\ RecordAt(a)' # Torn /\ RecordAt(a)'.key = k
  BY <1>2 DEF Mine
<1>5. Mine(k)' = Mine(k) /\ \A a \in Mine(k) : RecordAt(a)' = RecordAt(a)
  BY <1>3, <1>4
<1> QED
  BY <1>5 DEF Newest

\* Steps that leave the records, the databases and the pending appends alone.
LEMMA QuietStep ==
  ASSUME StoreInv, StoreInv', TailInv, TailInv', RecordInv, UNCHANGED <<db, raced, unlogged>>,
         \A a : InLog(a) <=> InLog(a)',
         \A a : InLog(a) => RecordAt(a)' = RecordAt(a),
         \A t \in Threads : pc'[t] = "append" <=> pc[t] = "append",
         \A t \in Threads : pc[t] = "append" => op'[t] = op[t]
  PROVE  RecordInv'
<1> SUFFICES ASSUME NEW k \in Keys \ (raced \cup unlogged)
             PROVE  /\ \A t, u \in Threads : Pending(t, k)' /\ Pending(u, k)' => t = u
                    /\ \A t \in Threads : Pending(t, k)' => op'[t].val = db'[k]
                    /\ (\A t \in Threads : ~Pending(t, k)') => Newest(k, db[k])'
  BY DEF RecordInv
<1>1. \A t \in Threads : Pending(t, k)' <=> Pending(t, k)
  BY DEF Pending
<1>2. \A t \in Threads : Pending(t, k) => op'[t] = op[t]
  BY DEF Pending
<1>3. PICK v : v = db[k]
  OBVIOUS
<1>4. (\A t \in Threads : ~Pending(t, k)) => Newest(k, v)
  BY <1>3 DEF RecordInv
<1>5. (\A t \in Threads : ~Pending(t, k)) => Newest(k, v)'
  BY <1>4, NewestStays
<1>6. v = db'[k]
  BY <1>3
<1> QED
  BY <1>1, <1>2, <1>5, <1>6 DEF RecordInv

\* A new file holds nothing yet.
LEMMA SameRecords ==
  ASSUME StoreInv, TailInv, forgotten' = forgotten, files' = files \/ files' = Append(files, <<>>)
  PROVE  /\ \A a : InLog(a) <=> InLog(a)'
         /\ \A a : InLog(a) => RecordAt(a)' = RecordAt(a)
<1>1. files \in Seq(Seq(Record)) /\ DOMAIN files = 1..Len(files) /\ Len(files) \in Nat
  BY DEF StoreInv, StoreTypeOK
<1>2. CASE files' = files
  BY <1>2 DEF InLog, RecordAt
<1>3. CASE files' = Append(files, <<>>)
  <2>1. /\ DOMAIN files' = 1 .. Len(files) + 1
        /\ \A g \in DOMAIN files : g \in DOMAIN files' /\ files'[g] = files[g]
        /\ Len(files'[Len(files) + 1]) = 0
    BY <1>1, <1>3
  <2>2. \A a \in Position : a.f \in DOMAIN files' => a.f \in DOMAIN files \/ a.f = Len(files) + 1
    <3> SUFFICES ASSUME NEW a \in Position, a.f \in DOMAIN files'
                 PROVE  a.f \in DOMAIN files \/ a.f = Len(files) + 1
      OBVIOUS
    <3>1. a.f \in 1 .. Len(files) + 1
      BY <2>1
    <3> QED
      BY <1>1, <3>1
  <2>3. \A a \in Position : a.p \in Nat
    BY DEF Position
  <2>4. ASSUME NEW a, InLog(a)' PROVE InLog(a)
    <3>1. a \in Position /\ a.f \in DOMAIN files' /\ a.p < Len(files'[a.f]) /\ a.p \in Nat
      BY <2>3, <2>4 DEF InLog
    <3>2. CASE a.f = Len(files) + 1
      BY <2>1, <3>1, <3>2
    <3>3. CASE a.f \in DOMAIN files
      BY <2>1, <2>4, <3>1, <3>3 DEF InLog
    <3> QED
      BY <2>2, <3>1, <3>2, <3>3
  <2>5. ASSUME NEW a, InLog(a) PROVE InLog(a)' /\ RecordAt(a)' = RecordAt(a)
    BY <2>1, <2>5 DEF InLog, RecordAt
  <2> QED
    BY <2>4, <2>5
<1> QED
  BY <1>2, <1>3

LEMMA WriteRecords ==
  ASSUME StoreInv, StoreInv', TailInv, TailInv', RecordInv,
         NEW t \in Threads, NEW k \in Keys, NEW v \in Values \cup {Absent}, WriteDb(t, k, v)
  PROVE  RecordInv'
<1>1. /\ pc[t] = "idle" /\ pc' = [pc EXCEPT ![t] = "append"]
      /\ op' = [op EXCEPT ![t] = [key |-> k, val |-> v]]
      /\ db' = [db EXCEPT ![k] = v]
      /\ raced' = IF \E u \in Threads \ {t} : pc[u] = "append" /\ op[u].key = k
                  THEN raced \cup {k} ELSE raced
      /\ unlogged' = unlogged /\ files' = files /\ forgotten' = forgotten
  BY DEF WriteDb, LogItem, logVars
<1>2. /\ pc \in [Threads -> Stages] /\ op \in [Threads -> Item \cup {NoRecord}]
      /\ db \in [Keys -> Values \cup {Absent}]
  BY DEF StoreInv, StoreTypeOK
<1>3. /\ pc'[t] = "append" /\ op'[t].key = k /\ op'[t].val = v
      /\ \A u \in Threads : u # t => pc'[u] = pc[u] /\ op'[u] = op[u]
      /\ db'[k] = v /\ \A j \in Keys : j # k => db'[j] = db[j]
  BY <1>1, <1>2
<1> SUFFICES ASSUME NEW j \in Keys \ (raced' \cup unlogged')
             PROVE  /\ \A u, w \in Threads : Pending(u, j)' /\ Pending(w, j)' => u = w
                    /\ \A u \in Threads : Pending(u, j)' => op'[u].val = db'[j]
                    /\ (\A u \in Threads : ~Pending(u, j)') => Newest(j, db[j])'
  BY DEF RecordInv
<1>4. j \in Keys \ (raced \cup unlogged)
  BY <1>1
<1>5. CASE j = k
  <2>1. \A u \in Threads : u # t => ~(pc[u] = "append" /\ op[u].key = k)
    BY <1>1, <1>5
  <2>2. \A u \in Threads : Pending(u, j)' <=> u = t
    BY <1>3, <1>5, <2>1 DEF Pending
  <2> QED
    BY <1>3, <1>5, <2>2
<1>6. CASE j # k
  <2>1. \A u \in Threads : Pending(u, j)' <=> Pending(u, j)
    BY <1>1, <1>3, <1>6 DEF Pending
  <2>2. \A u \in Threads : Pending(u, j) => op'[u] = op[u]
    BY <1>1, <1>3 DEF Pending
  <2>3. PICK x : x = db[j]
    OBVIOUS
  <2>4. (\A u \in Threads : ~Pending(u, j)) => Newest(j, x)
    BY <1>4, <2>3 DEF RecordInv
  <2>5. (\A u \in Threads : ~Pending(u, j)) => Newest(j, x)'
    BY <1>1, <2>4, NewestStays, SameRecords
  <2>6. x = db'[j]
    BY <1>3, <1>6, <2>3
  <2> QED
    BY <1>3, <1>4, <1>6, <2>1, <2>2, <2>5, <2>6 DEF RecordInv
<1> QED
  BY <1>5, <1>6

\* The record of a thread goes behind all others, readable or not.
LEMMA AppendedAt ==
  ASSUME StoreInv, TailInv, NEW t \in Threads, AppendRecord(t),
         NEW new, new = [f |-> cur, p |-> Len(files[cur])]
  PROVE  /\ InLog(new)' /\ RecordAt(new)' = AsStored(cur, op[t])
         /\ \A a : InLog(a)' <=> InLog(a) \/ a = new
         /\ \A a : InLog(a) => RecordAt(a)' = RecordAt(a) /\ a # new /\ Before(a, new)
<1>1. /\ files \in Seq(Seq(Record)) /\ DOMAIN files = 1..Len(files) /\ Len(files) \in Nat
      /\ cur \in 1..Len(files) /\ cur \in Nat /\ cur # NoFile
      /\ files[cur] \in Seq(Record) /\ Len(files[cur]) \in Nat
  <2>1. files \in Seq(Seq(Record)) /\ cur \in 0..Len(files) /\ cur # 0
    BY DEF AppendRecord, NoFile, StoreInv, StoreTypeOK
  <2>2. cur \in 1..Len(files)
    BY <2>1
  <2> QED
    BY <2>1, <2>2 DEF NoFile
<1>2. files' = [files EXCEPT ![cur] = Append(files[cur], AsStored(cur, op[t]))] /\ forgotten' = forgotten
  BY DEF AppendRecord
<1>3. /\ DOMAIN files' = DOMAIN files
      /\ files'[cur] = Append(files[cur], AsStored(cur, op[t]))
      /\ \A g \in DOMAIN files : g # cur => files'[g] = files[g]
  BY <1>1, <1>2
<1>4. /\ Len(files'[cur]) = Len(files[cur]) + 1
      /\ files'[cur][Len(files[cur]) + 1] = AsStored(cur, op[t])
      /\ \A i \in 1..Len(files[cur]) : files'[cur][i] = files[cur][i]
  BY <1>1, <1>3
<1>5. new \in Position /\ new.f = cur /\ new.p = Len(files[cur])
  BY <1>1 DEF Position
<1>6. InLog(new)' /\ RecordAt(new)' = AsStored(cur, op[t])
  BY <1>1, <1>2, <1>3, <1>4, <1>5, Latest DEF InLog, RecordAt
<1>7. \A a \in Position : a.f \in Nat /\ a.p \in Nat /\ a = [f |-> a.f, p |-> a.p]
  BY DEF Position
<1>8. ASSUME NEW a, InLog(a) PROVE InLog(a)' /\ RecordAt(a)' = RecordAt(a) /\ a # new /\ Before(a, new)
  <2>1. a \in Position /\ a.f \in DOMAIN files /\ a.p < Len(files[a.f]) /\ a.p \in Nat /\ a.f \in Nat
    BY <1>7, <1>8 DEF InLog
  <2>2. CASE a.f = cur
    <3>1. a.p + 1 \in 1..Len(files[cur])
      BY <1>1, <2>1, <2>2
    <3>2. InLog(a)' /\ RecordAt(a)' = RecordAt(a)
      BY <1>1, <1>2, <1>3, <1>4, <1>8, <2>1, <2>2, <3>1 DEF InLog, RecordAt
    <3> QED
      BY <1>1, <1>5, <2>1, <2>2, <3>2 DEF Before
  <2>3. CASE a.f # cur
    <3>1. InLog(a)' /\ RecordAt(a)' = RecordAt(a)
      BY <1>2, <1>3, <1>8, <2>1, <2>3 DEF InLog, RecordAt
    <3>2. ~(a.f > cur)
      <4> SUFFICES ASSUME a.f > cur PROVE FALSE
        OBVIOUS
      <4>1. Len(files[a.f]) = 0
        BY <1>1, <1>8, <2>1, NoneBehind DEF InLog
      <4> QED
        BY <2>1, <4>1
    <3>3. a.f < cur
      BY <1>1, <2>1, <2>3, <3>2
    <3> QED
      BY <1>5, <2>3, <3>1, <3>3 DEF Before
  <2> QED
    BY <2>2, <2>3
<1>9. ASSUME NEW a, InLog(a)', a # new PROVE InLog(a)
  <2>1. a \in Position /\ a.f \in DOMAIN files /\ a.p < Len(files'[a.f]) /\ a.p \in Nat
        /\ a = [f |-> a.f, p |-> a.p] /\ a.f \notin forgotten
    BY <1>2, <1>3, <1>7, <1>9 DEF InLog
  <2>2. CASE a.f = cur
    <3>1. a.p # Len(files[cur])
      BY <1>9, <2>1, <2>2
    <3>2. a.p < Len(files[cur])
      BY <1>1, <1>4, <2>1, <2>2, <3>1
    <3> QED
      BY <2>1, <2>2, <3>2 DEF InLog
  <2>3. CASE a.f # cur
    BY <1>3, <2>1, <2>3 DEF InLog
  <2> QED
    BY <2>2, <2>3
<1> QED
  BY <1>6, <1>8, <1>9

LEMMA AppendRecords ==
  ASSUME StoreInv, StoreInv', TailInv, TailInv', RecordInv, NEW t \in Threads, AppendRecord(t)
  PROVE  RecordInv'
<1>1. /\ pc[t] = "append" /\ cur # NoFile
      /\ op' = [op EXCEPT ![t] = NoRecord]
      /\ unlogged' = IF Damaged(cur) THEN unlogged \cup {op[t].key} ELSE unlogged
      /\ pc' = [pc EXCEPT ![t] = "rotate"] \/ pc' = [pc EXCEPT ![t] = "idle"]
      /\ UNCHANGED <<db, raced>>
  BY DEF AppendRecord
<1>2. /\ pc \in [Threads -> Stages] /\ op \in [Threads -> Item \cup {NoRecord}]
      /\ op[t] \in Item
  BY <1>1 DEF StoreInv, StoreTypeOK
<1>3. /\ pc'[t] # "append"
      /\ \A u \in Threads : u # t => pc'[u] = pc[u] /\ op'[u] = op[u]
  BY <1>1, <1>2
<1>4. op[t].key \in Keys /\ op[t] # Torn
  BY <1>2, StoreAssumption DEF Item
<1>5. PICK new : new = [f |-> cur, p |-> Len(files[cur])]
  OBVIOUS
<1>6. /\ InLog(new)' /\ RecordAt(new)' = AsStored(cur, op[t])
      /\ \A a : InLog(a)' <=> InLog(a) \/ a = new
      /\ \A a : InLog(a) => RecordAt(a)' = RecordAt(a) /\ a # new /\ Before(a, new)
  BY <1>5, AppendedAt
<1> SUFFICES ASSUME NEW j \in Keys \ (raced' \cup unlogged')
             PROVE  /\ \A u, w \in Threads : Pending(u, j)' /\ Pending(w, j)' => u = w
                    /\ \A u \in Threads : Pending(u, j)' => op'[u].val = db'[j]
                    /\ (\A u \in Threads : ~Pending(u, j)') => Newest(j, db[j])'
  BY DEF RecordInv
<1>7. j \in Keys \ (raced \cup unlogged)
  BY <1>1
<1>8. \A u \in Threads : Pending(u, j)' => u # t /\ Pending(u, j) /\ op'[u] = op[u]
  BY <1>3 DEF Pending
<1>9. PICK x : x = db[j]
  OBVIOUS
<1>10. x = db'[j]
  BY <1>1, <1>9
<1>11. (\A u \in Threads : ~Pending(u, j)') => Newest(j, x)'
  <2> SUFFICES ASSUME \A u \in Threads : ~Pending(u, j)' PROVE Newest(j, x)'
    OBVIOUS
  <2>1. CASE op[t].key = j
    <3>1. ~Damaged(cur)
      BY <1>1, <2>1
    <3>2. RecordAt(new)' = op[t]
      BY <1>6, <3>1 DEF AsStored
    <3>3. Pending(t, j)
      BY <1>1, <2>1 DEF Pending
    <3>4. op[t].val = x
      BY <1>7, <1>9, <3>3 DEF RecordInv
    <3>5. \A a : a \in Positions(Known)' <=> InLog(a)'
      <4>1. (\A a : a \in Positions(Known) <=> InLog(a))'
        BY PositionsInLog, PTL
      <4> QED
        BY <4>1
    <3>6. new \in Mine(j)' /\ RecordAt(new)'.val = x
      BY <1>4, <1>6, <2>1, <3>2, <3>4, <3>5 DEF Mine
    <3>7. \A b \in Mine(j)' : b = new \/ Before(b, new)
      BY <1>6, <3>5 DEF Mine
    <3> QED
      BY <3>6, <3>7 DEF Newest
  <2>2. CASE op[t].key # j
    <3>1. \A u \in Threads : ~Pending(u, j)
      BY <1>3, <2>2 DEF Pending
    <3>2. Newest(j, x)
      BY <1>7, <1>9, <3>1 DEF RecordInv
    <3>3. RecordAt(new)' = Torn \/ RecordAt(new)'.key # j
      BY <1>6, <2>2 DEF AsStored
    <3>4. \A a : InLog(a) => InLog(a)' /\ RecordAt(a)' = RecordAt(a)
      BY <1>6
    <3>5. \A a : InLog(a)' /\ RecordAt(a)' # Torn /\ RecordAt(a)'.key = j
                   => InLog(a) /\ RecordAt(a)' = RecordAt(a)
      BY <1>6, <3>3
    <3> QED
      BY <3>2, <3>4, <3>5, NewestStays
  <2> QED
    BY <2>1, <2>2
<1>12. \A u, w \in Threads : Pending(u, j)' /\ Pending(w, j)' => u = w
  BY <1>7, <1>8 DEF RecordInv
<1>13. \A u \in Threads : Pending(u, j)' => op'[u].val = x
  BY <1>7, <1>8, <1>9 DEF RecordInv
<1> QED
  BY <1>10, <1>11, <1>12, <1>13

\* A kill takes only records of keys that count as unlogged from then on.
LEMMA DeathRecords ==
  ASSUME StoreInv, StoreInv', TailInv, TailInv', RecordInv, [StoreNext]_storeVars, ProcessDies
  PROVE  RecordInv'
<1>1. /\ files \in Seq(Seq(Record)) /\ DOMAIN files = 1..Len(files) /\ Len(files) \in Nat
      /\ files' \in Seq(Seq(Record)) /\ DOMAIN files' = 1..Len(files')
      /\ flushed \in Nat /\ cur \in Nat
  BY DEF StoreInv, StoreTypeOK
<1>2. /\ unlogged' = unlogged \cup LostKeys /\ pc' = [t \in Threads |-> "idle"]
      /\ forgotten' = forgotten \cup Forgotten /\ UNCHANGED <<db, raced>>
  BY DEF ProcessDies
<1>3. DOMAIN files' = DOMAIN files
  BY <1>1, DeathShortens
<1>4. \A a \in Position : a.f \in Nat /\ a.p \in Nat
  BY DEF Position
<1> DEFINE Same(a) == InLog(a)' /\ RecordAt(a)' = RecordAt(a)
           Gone(a) == \/ a.f \in Forgotten /\ a.p + 1 \in DOMAIN files[a.f]
                      \/ cur # NoFile /\ a.f = cur /\ a.p + 1 \in flushed + 1 .. Len(files[cur])
<1>5. /\ \A a : InLog(a) => Same(a) \/ Gone(a)
      /\ \A a : InLog(a)' => (InLog(a) /\ RecordAt(a)' = RecordAt(a)) \/ RecordAt(a)' = Torn
  <2>1. ASSUME NEW a, InLog(a) PROVE Same(a) \/ Gone(a)
    <3>1. /\ a \in Position /\ a.f \in DOMAIN files /\ a.f \notin forgotten
          /\ a.p < Len(files[a.f]) /\ a.p \in Nat
      BY <1>4, <2>1 DEF InLog
    <3>2. files[a.f] \in Seq(Record) /\ Len(files[a.f]) \in Nat /\ a.f # NoFile
      BY <1>1, <3>1 DEF NoFile
    <3>3. CASE a.f \in Forgotten
      BY <3>1, <3>2, <3>3
    <3>4. CASE a.f \notin Forgotten /\ a.p < Kept(a.f)
      <4>1. /\ Kept(a.f) <= Kept(a.f)' /\ \A i \in 1..Kept(a.f) : files'[a.f][i] = files[a.f][i]
        BY <3>1, KeptGrows
      <4>2. Kept(a.f)' = Len(files'[a.f]) /\ Len(files'[a.f]) \in Nat
        BY <1>1, <1>3, <3>1, <3>2 DEF ProcessDies, Kept
      <4>3. Kept(a.f) \in Nat
        BY <1>1, <3>2 DEF Kept
      <4>4. a.p < Len(files'[a.f]) /\ files'[a.f][a.p + 1] = files[a.f][a.p + 1]
        <5>1. PICK q : q = a.p
          OBVIOUS
        <5>2. PICK k : k = Kept(a.f)
          OBVIOUS
        <5>3. PICK n : n = Len(files'[a.f])
          OBVIOUS
        <5>4. q \in Nat /\ k \in Nat /\ n \in Nat /\ q < k /\ k <= n
          BY <3>1, <3>4, <4>1, <4>2, <4>3, <5>1, <5>2, <5>3
        <5>5. q < n /\ q + 1 \in 1..k
          BY <5>4
        <5> QED
          BY <4>1, <5>1, <5>2, <5>3, <5>5
      <4> QED
        BY <1>2, <1>3, <3>1, <3>4, <4>4 DEF InLog, RecordAt
    <3>5. CASE ~(a.p < Kept(a.f))
      <4>1. a.f = cur /\ cur # NoFile /\ ~(a.p < flushed)
        BY <3>1, <3>2, <3>5 DEF Kept
      <4>2. a.p + 1 \in flushed + 1 .. Len(files[cur])
        BY <1>1, <3>1, <3>2, <4>1
      <4> QED
        BY <4>1, <4>2
    <3> QED
      BY <3>3, <3>4, <3>5
  <2>2. ASSUME NEW a, InLog(a)' PROVE (InLog(a) /\ RecordAt(a)' = RecordAt(a)) \/ RecordAt(a)' = Torn
    <3>1. /\ a \in Position /\ a.f \in DOMAIN files /\ a.f \notin forgotten
          /\ a.p < Len(files'[a.f]) /\ a.p \in Nat
      BY <1>2, <1>3, <1>4, <2>2 DEF InLog
    <3>2. /\ Len(files'[a.f]) <= Len(files[a.f])
          /\ \A i \in 1..Len(files'[a.f]) : files'[a.f][i] = files[a.f][i] \/ files'[a.f][i] = Torn
      BY <3>1, DeathShortens
    <3>3. Len(files[a.f]) \in Nat /\ Len(files'[a.f]) \in Nat
      BY <1>1, <1>3, <3>1
    <3>4. a.p + 1 \in 1..Len(files'[a.f]) /\ a.p < Len(files[a.f])
      BY <3>1, <3>2, <3>3
    <3> QED
      BY <3>1, <3>2, <3>4 DEF InLog, RecordAt
  <2> QED
    BY <2>1, <2>2
<1> SUFFICES ASSUME NEW j \in Keys \ (raced' \cup unlogged')
             PROVE  /\ \A u \in Threads : ~Pending(u, j)'
                    /\ Newest(j, db[j])'
  BY DEF RecordInv
<1>6. j \in Keys \ (raced \cup unlogged) /\ j \notin LostKeys
  BY <1>2
<1>7. \A u \in Threads : ~Pending(u, j)
  BY <1>6 DEF Pending, LostKeys
<1>8. \A u \in Threads : ~Pending(u, j)'
  BY <1>2 DEF Pending
<1>9. PICK x : x = db[j]
  OBVIOUS
<1>10. Newest(j, x)
  BY <1>6, <1>7, <1>9 DEF RecordInv
<1>11. \A a : Gone(a) => RecordAt(a) = Torn \/ RecordAt(a).key # j
  <2> SUFFICES ASSUME NEW a, Gone(a), RecordAt(a) # Torn PROVE RecordAt(a).key # j
    OBVIOUS
  <2>1. RecordAt(a) = files[a.f][a.p + 1]
    BY DEF RecordAt
  <2>2. CASE cur # NoFile /\ a.f = cur /\ a.p + 1 \in flushed + 1 .. Len(files[cur])
    BY <1>6, <2>1, <2>2 DEF LostKeys
  <2>3. CASE a.f \in Forgotten /\ a.p + 1 \in DOMAIN files[a.f]
    BY <1>6, <2>1, <2>3 DEF LostKeys
  <2> QED
    BY <2>2, <2>3
<1>12. \A a : InLog(a) /\ RecordAt(a) # Torn /\ RecordAt(a).key = j
                => InLog(a)' /\ RecordAt(a)' = RecordAt(a)
  BY <1>5, <1>11
<1>13. \A a : InLog(a)' /\ RecordAt(a)' # Torn /\ RecordAt(a)'.key = j
                => InLog(a) /\ RecordAt(a)' = RecordAt(a)
  BY <1>5
<1>14. Newest(j, x)'
  BY <1>10, <1>12, <1>13, NewestStays
<1>15. x = db'[j]
  BY <1>2, <1>9
<1> QED
  BY <1>8, <1>14, <1>15

LEMMA RecordStep ==
  ASSUME StoreInv, StoreInv', TailInv, TailInv', RecordInv, [StoreNext]_storeVars
  PROVE  RecordInv'
<1>1. pc \in [Threads -> Stages] /\ op \in [Threads -> Item \cup {NoRecord}]
      /\ db \in [Keys -> Values \cup {Absent}]
  BY DEF StoreInv, StoreTypeOK
<1>2. ASSUME UNCHANGED <<db, raced, unlogged, forgotten, op>>, files' = files \/ files' = Append(files, <<>>),
             \A u \in Threads : pc'[u] = "append" <=> pc[u] = "append"
      PROVE  RecordInv'
  BY <1>2, SameRecords, QuietStep
<1>3. ASSUME NEW t \in Threads, Request(t) PROVE RecordInv'
  <2>1. CASE Clear(t)
    <3>1. \A u \in Threads : pc'[u] = "append" <=> pc[u] = "append"
      BY <1>1, <2>1 DEF Clear
    <3> QED
      BY <1>2, <2>1, <3>1 DEF Clear, logVars, history
  <2>2. CASE (\E k \in Keys, v \in Values : SetValue(t, k, v)) \/ (\E k \in Keys : RemoveKey(t, k))
    BY <2>2, WriteRecords DEF SetValue, RemoveKey
  <2> QED
    BY <1>3, <2>1, <2>2 DEF Request
<1>4. ASSUME NEW t \in Threads, NEW k \in Keys, ClearKey(t, k) PROVE RecordInv'
  <2>1. /\ db' = [db EXCEPT ![k] = Absent] /\ unlogged' = unlogged \cup {k}
        /\ UNCHANGED <<pc, op, files, raced, forgotten>>
    BY <1>4 DEF ClearKey, logVars
  <2> SUFFICES ASSUME NEW j \in Keys \ (raced' \cup unlogged')
               PROVE  /\ \A u, w \in Threads : Pending(u, j)' /\ Pending(w, j)' => u = w
                      /\ \A u \in Threads : Pending(u, j)' => op'[u].val = db'[j]
                      /\ (\A u \in Threads : ~Pending(u, j)') => Newest(j, db[j])'
    BY DEF RecordInv
  <2>2. j \in Keys \ (raced \cup unlogged) /\ j # k
    BY <2>1
  <2>3. PICK x : x = db[j]
    OBVIOUS
  <2>4. x = db'[j]
    BY <1>1, <2>1, <2>2, <2>3
  <2>5. \A u \in Threads : Pending(u, j)' <=> Pending(u, j)
    BY <2>1 DEF Pending
  <2>6. (\A u \in Threads : ~Pending(u, j)) => Newest(j, x)'
    BY <2>1, <2>2, <2>3, NewestStays, SameRecords DEF RecordInv
  <2>7. \A u \in Threads : Pending(u, j) => op'[u].val = x
    BY <2>1, <2>2, <2>3 DEF RecordInv
  <2>8. \A u, w \in Threads : Pending(u, j) /\ Pending(w, j) => u = w
    BY <2>2 DEF RecordInv
  <2> QED
    BY <2>4, <2>5, <2>6, <2>7, <2>8
<1>5. ASSUME NEW t \in Threads, ThreadStep(t) \/ FileStep(t) PROVE RecordInv'
  <2>1. CASE AppendRecord(t)
    BY <2>1, AppendRecords
  <2>2. CASE \E k \in Keys : ClearKey(t, k)
    BY <1>4, <2>2
  <2>3. CASE (\E d \in Databases : ClearDatabase(t, d)) \/ ClearDone(t) \/ Rotate(t) \/ PublishName(t)
             \/ TruncateIndex(t) \/ SaveIndex(t)
    <3>1. \A u \in Threads : pc'[u] = "append" <=> pc[u] = "append"
      BY <1>1, <2>3 DEF ClearDatabase, ClearDone, Rotate, PublishName, TruncateIndex, SaveIndex
    <3>2. UNCHANGED <<db, raced, unlogged, forgotten, op>> /\ (files' = files \/ files' = Append(files, <<>>))
      BY <2>3 DEF ClearDatabase, ClearDone, Rotate, PublishName, TruncateIndex, SaveIndex, logVars, history
    <3> QED
      BY <1>2, <3>1, <3>2
  <2>4. CASE FileStep(t)
    <3>1. \A u \in Threads : pc'[u] = "append" <=> pc[u] = "append"
      BY <1>1, <2>4 DEF FileStep, RotateFails, WriteNames, CutName, IndexFails, threadVars
    <3>2. UNCHANGED <<db, raced, unlogged, forgotten, op>> /\ (files' = files \/ files' = Append(files, <<>>))
      BY <2>4 DEF FileStep, RotateFails, WriteNames, CutName, IndexFails, threadVars, logVars, history
    <3> QED
      BY <1>2, <3>1, <3>2
  <2> QED
    BY <1>5, <2>1, <2>2, <2>3, <2>4 DEF ThreadStep
<1>6. CASE Restart
  <2>1. files' = files \/ files' = Append(files, <<>>)
    <3>1. CASE index = <<>>
      BY <1>6, <3>1 DEF Restart
    <3>2. CASE index # <<>>
      <4>1. files' = [files EXCEPT ![cur'] = files[cur']]
        BY <1>6, <3>2 DEF Restart, Opened
      <4>2. files \in Seq(Seq(Record))
        BY DEF StoreInv, StoreTypeOK
      <4> QED
        BY <4>1, <4>2
    <3> QED
      BY <3>1, <3>2
  <2> QED
    BY <1>2, <1>6, <2>1 DEF Restart, threadVars, history
<1>7. CASE StdioFlush \/ StartUnlogged \/ StartUnsaved \/ UNCHANGED storeVars
  BY <1>2, <1>7 DEF StdioFlush, StartUnlogged, StartUnsaved, storeVars, threadVars, logVars, history
<1>8. CASE Crash
  BY <1>8, DeathRecords DEF Crash, Killed, AppendToClosed
<1> QED
  BY <1>3, <1>5, <1>6, <1>7, <1>8 DEF StoreNext, StoreStep

LEMMA RecordInit == StoreInit => RecordInv
<1> SUFFICES ASSUME StoreInit, NEW k \in Keys
             PROVE  /\ \A t \in Threads : ~Pending(t, k)
                    /\ Newest(k, db[k])
  BY DEF RecordInv
<1>1. /\ files = << <<>> >> /\ db = [j \in Keys |-> Absent] /\ pc = [t \in Threads |-> "idle"]
      /\ up /\ fileList = <<1>>
  BY DEF StoreInit
<1>2. \A g \in Known : 1..Len(files[g]) = {}
  <2>1. Known = {1}
    BY <1>1 DEF Known, Range
  <2> QED
    BY <1>1, <2>1
<1>3. Mine(k) = {}
  BY <1>2 DEF Mine, Positions
<1>4. db[k] = Absent
  BY <1>1
<1> QED
  BY <1>1, <1>3, <1>4 DEF Pending, Newest

LEMMA NewestIsLogged == ASSUME StoreInv, TailInv, NEW k, NEW v, Newest(k, v) PROVE LoggedValue(k) = v
<1> DEFINE Top == CHOOSE a \in Mine(k) : \A b \in Mine(k) : ~Before(a, b)
<1>1. LoggedValue(k) = IF Mine(k) = {} THEN Absent ELSE RecordAt(Top).val
  BY DEF LoggedValue, Mine, RecordAt
<1>2. CASE Mine(k) = {}
  BY <1>1, <1>2 DEF Newest
<1>3. CASE Mine(k) # {}
  <2>1. PICK a \in Mine(k) : RecordAt(a).val = v /\ \A b \in Mine(k) : b = a \/ Before(b, a)
    BY <1>3 DEF Newest
  <2>2. \A b \in Mine(k) : b.f \in Nat /\ b.p \in Nat
    BY PositionsInLog DEF Mine, InLog, Position
  <2>3. \A b \in Mine(k) : ~Before(a, b)
    BY <2>1, <2>2 DEF Before
  <2>4. Top \in Mine(k) /\ ~Before(Top, a)
    BY <2>1, <2>3
  <2>5. Top = a
    BY <2>1, <2>4
  <2> QED
    BY <1>1, <1>3, <2>1, <2>5
<1> QED
  BY <1>2, <1>3

THEOREM RecordInvariant == StoreSpec => []RecordInv
<1>1. StoreInv /\ StoreInv' /\ TailInv /\ TailInv' /\ RecordInv /\ [StoreNext]_storeVars => RecordInv'
  BY RecordStep
<1> QED
  BY <1>1, RecordInit, StoreInvariant, TailInvariant, PTL DEF StoreSpec

\* Replaying, in order, the files that the program lists -- after a kill those it will list --
\* gives the databases, for every key that no two threads wrote at once, no FLUSHDB deleted, whose
\* records no kill has caught on their way to the disk, none of which was appended behind a torn
\* one, and none of which is in a file that a kill has cut out of BINLOG_INDEX.
THEOREM LogReproduces == StoreSpec => []LogReproducesDb
<1>1. StoreInv /\ TailInv /\ RecordInv => LogReproducesDb
  BY NewestIsLogged DEF RecordInv, LogReproducesDb, Pending
<1> QED
  BY <1>1, StoreInvariant, TailInvariant, RecordInvariant, PTL
=============================================================================
