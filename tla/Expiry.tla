-------------------------------- MODULE Expiry --------------------------------
(***************************************************************************)
(* The thread that deletes expired keys (src/src/ttlmanager.cpp), beside   *)
(* the string commands, and kills of the process.                          *)
(*                                                                         *)
(* The thread goes from database to database.  In each it walks over the   *)
(* expiry records of a snapshot and removes, for every one that is due,    *)
(* first the record and then the key, whatever has become of both since    *)
(* the snapshot.  Nothing but the order of writes protects it from SETEX,  *)
(* SET EX and EXPIRE, which write the key first and the record second.     *)
(*                                                                         *)
(* fate and given are histories: whether the value of a key has been given *)
(* a time to expire, and all the times given to a key.                     *)
(***************************************************************************)
EXTENDS Strings

CONSTANTS
  Batch,         \* records after which the thread reads the clock again (100000)
  MaxFaults      \* bound: kills of the process

ASSUME ExpiryAssumption ==
  /\ Batch \in Nat \ {0}
  /\ MaxFaults \in Nat
  /\ NoValue \notin Keys

VARIABLES
  scan,          \* the thread: what it does next and in which database, the
                 \* padding of the key it has sought, the rest of its snapshot,
                 \* the clock as it has read it, the key it is about to remove
  faults,        \* kills so far (bound)
  fate,          \* "none", "due": acknowledged to expire, "stray": lost its record
  given          \* the times at which each key was to expire, all that were set

vars == <<svars, scan, faults, fate, given>>

ScanStage == {"seek", "clock", "visit", "key"}
Record    == [key : Keys, pad : Pads, at : Nat]
Scan      == [at : ScanStage, db : 0..LastDb, from : Nat, ahead : SUBSET Record,
              now : Nat, loop : 0 .. Batch - 1, key : Keys \cup {NoValue}]
Starting  == [at |-> "seek", db |-> 0, from |-> 0, ahead |-> {}, now |-> 0,
              loop |-> 0, key |-> NoValue]

\* The records of a snapshot from the key on that was sought.
RecordsBehind(d, from) ==
  {[key |-> kp[1], pad |-> kp[2], at |-> expiry[kp[1]][kp[2]]] :
     kp \in {x \in Keys \X Pads : /\ expiry[x[1]][x[2]] # NoRecord
                                  /\ RecordDb[x[1]][x[2]] = d
                                  /\ x[2] > from}}

Records(d, from) ==
  {[key |-> kp[1], pad |-> kp[2], at |-> expiry[kp[1]][kp[2]]] :
     kp \in {x \in Keys \X Pads : /\ expiry[x[1]][x[2]] # NoRecord
                                  /\ RecordDb[x[1]][x[2]] = d
                                  /\ x[2] >= from}}

\* makeExpireKey with an empty key, initIterator, seek.
Seek ==
  /\ scan.at = "seek"
  /\ \E p \in Pads :
       scan' = [scan EXCEPT !.at = "clock", !.from = p, !.ahead = Records(scan.db, p)]
  /\ UNCHANGED <<svars, faults, fate, given>>

ReadClock ==
  /\ scan.at = "clock"
  /\ scan' = [scan EXCEPT !.at = "visit", !.now = clock, !.loop = 0]
  /\ UNCHANGED <<svars, faults, fate, given>>

CountedOn(s) == [s EXCEPT !.at = "visit", !.loop = @ + 1]

\* it.next() and the clock of every Batch-th record.
Counted(s) ==
  [s EXCEPT !.at = "visit",
            !.loop = IF @ + 1 = Batch THEN 0 ELSE @ + 1,
            !.now = IF s.loop + 1 = Batch THEN clock ELSE @]

Early(r) == scan.now + 1 >= r.at
Due(r)   == scan.now >= r.at

\* The record the iterator is at: by padding first.
First(r) == r \in scan.ahead /\ \A q \in scan.ahead : r.pad <= q.pad

Skip ==
  /\ scan.at = "visit"
  /\ \E r \in scan.ahead :
       /\ First(r)
       /\ ~Due(r)
       /\ scan' = Counted([scan EXCEPT !.ahead = @ \ {r}])
  /\ UNCHANGED <<svars, faults, fate, given>>

\* The two removals.
KeyThenRecord ==
  \/ /\ scan.at = "visit"
     /\ \E r \in scan.ahead :
          /\ First(r)
          /\ Due(r)
          /\ store' = [store EXCEPT ![r.key] = NoValue]
          /\ mods' = [mods EXCEPT ![r.key] = {}]
          /\ fate' = [fate EXCEPT ![r.key] = "none"]
          /\ scan' = [scan EXCEPT !.at = "key", !.key = r.key]
     /\ UNCHANGED <<expiry, clock, threads, ops, abandoned, faults, given>>
  \/ /\ scan.at = "key"
     /\ \E r \in scan.ahead :
          /\ First(r)
          /\ r.key = scan.key
          /\ expiry' = [expiry EXCEPT ![r.key][r.pad] = NoRecord]
          /\ scan' = Counted([scan EXCEPT !.key = NoValue, !.ahead = @ \ {r}])
     /\ UNCHANGED <<store, clock, threads, ops, mods, abandoned, faults, fate, given>>

RecordThenKey ==
  \/ /\ scan.at = "visit"
     /\ \E r \in scan.ahead :
          /\ First(r)
          /\ Due(r)
          /\ expiry' = [expiry EXCEPT ![r.key][r.pad] = NoRecord]
          /\ scan' = [scan EXCEPT !.at = "key", !.key = r.key, !.ahead = @ \ {r}]
     /\ UNCHANGED <<store, clock, threads, ops, mods, abandoned, faults, fate, given>>
  \/ /\ scan.at = "key"
     /\ store' = [store EXCEPT ![scan.key] = NoValue]
     /\ mods' = [mods EXCEPT ![scan.key] = {}]
     /\ fate' = [fate EXCEPT ![scan.key] = "none"]
     /\ scan' = Counted([scan EXCEPT !.key = NoValue])
     /\ UNCHANGED <<expiry, clock, threads, ops, abandoned, faults, given>>

\* The next database; after the last one the thread sleeps and starts again.
NextDb ==
  /\ scan.at = "visit"
  /\ scan.ahead = {}
  /\ scan' = [scan EXCEPT !.at = "seek",
                          !.db = IF @ < LastDb THEN @ + 1 ELSE 0]
  /\ UNCHANGED <<svars, faults, fate, given>>

TTLThread == Seek \/ ReadClock \/ Skip \/ RecordThenKey \/ NextDb

-----------------------------------------------------------------------------
(* The string commands, with the histories *)

\* Steps that leave the keys and the expiry records alone.
Quiet(t) ==
  /\ \/ Command(t)
     \/ Refused(t) \/ Enter(t)
     \/ MergeIntoMissing(t) \/ MergeMissing(t) \/ Merge(t)
     \/ LookNX(t) \/ LookDel(t) \/ FlushDone(t)
  /\ UNCHANGED <<scan, faults, fate, given>>

WriteKey(t) ==
  /\ Write(t)
  /\ fate' = IF cmd[t].op \in Modifying THEN fate ELSE [fate EXCEPT ![Key(t)] = "none"]
  /\ UNCHANGED <<scan, faults, given>>

RemoveKey(t) ==
  /\ RemoveDel(t)
  /\ fate' = [fate EXCEPT ![Key(t)] = "none"]
  /\ UNCHANGED <<scan, faults, given>>

WriteRecord(t) ==
  /\ SetExpire(t)
  /\ fate' = [fate EXCEPT ![Key(t)] = IF store[Key(t)] = NoValue THEN "none" ELSE "due"]
  /\ given' = [given EXCEPT ![Key(t)] = @ \cup {Deadline(cmd[t].secs)}]
  /\ UNCHANGED <<scan, faults>>

FlushOneKey(t) ==
  /\ FlushKey(t)
  /\ fate' = [k \in Keys |-> IF store'[k] = NoValue THEN "none" ELSE fate[k]]
  /\ UNCHANGED <<scan, faults, given>>

\* A FLUSHDB that has passed the key may take the record of a later SETEX.
FlushOneRecord(t) ==
  /\ FlushExpiry(t)
  /\ fate' = [k \in Keys |-> IF fate[k] = "due" /\ expiry'[k] # expiry[k] THEN "stray" ELSE fate[k]]
  /\ UNCHANGED <<scan, faults, given>>

TickAll == Tick /\ UNCHANGED <<scan, faults, fate, given>>

\* The process is killed and started again; the records are what is left.
Killed ==
  /\ faults < MaxFaults
  /\ faults' = faults + 1
  /\ lock' = [s \in Stripes |-> NoThread]
  /\ pc' = [t \in Threads |-> "idle"]
  /\ cmd' = [t \in Threads |-> NoCmd]
  /\ got' = [t \in Threads |-> NoValue]
  /\ flush' = [t \in Threads |-> NoFlush]
  /\ abandoned' = {}
  /\ scan' = Starting
  /\ fate' = [k \in Keys |->
                IF scan.at = "key" /\ scan.key = k /\ fate[k] = "due" THEN "stray" ELSE fate[k]]
  /\ UNCHANGED <<data, clock, ops, mods, given>>

-----------------------------------------------------------------------------
Init ==
  /\ StringsInit
  /\ scan = Starting
  /\ faults = 0
  /\ fate = [k \in Keys |-> "none"]
  /\ given = [k \in Keys |-> {}]

Worker(t) ==
  \/ Quiet(t)
  \/ WriteKey(t) \/ RemoveKey(t) \/ WriteRecord(t)
  \/ FlushOneKey(t) \/ FlushOneRecord(t)

Next == TickAll \/ Killed \/ TTLThread \/ \E t \in Threads : Worker(t)

Spec == Init /\ [][Next]_vars

\* Worker threads and the expiry thread are scheduled, and time passes; clients
\* and kills may stop.
FairSpec ==
  /\ Spec
  /\ WF_vars(TickAll)
  /\ WF_vars(TTLThread)
  /\ \A t \in Threads : WF_vars(Worker(t) /\ pc[t] # "idle")

-----------------------------------------------------------------------------
(* Properties *)

TypeOK ==
  /\ StringsTypeOK
  /\ scan \in Scan
  /\ scan.now <= clock
  /\ scan.at = "key" <=> scan.key # NoValue
  /\ faults \in 0..MaxFaults
  /\ fate \in [Keys -> {"none", "due", "stray"}]
  /\ given \in [Keys -> SUBSET Nat]

\* The thread removes a key only when a time that was set for it has passed,
\* however old its snapshot, its clock and the record it goes by are.
NeverEarly ==
  scan.at = "key" => \E d \in given[scan.key] : d <= clock

\* A value that was acknowledged to expire has an expiry record, or the thread is
\* about to remove it, so it does not stay for ever; but for a kill between the
\* thread's two removals and a FLUSHDB that takes the record and not the key.
NoLeak ==
  \A k \in Keys : fate[k] = "due" => HasRecord(k) \/ (scan.at = "key" /\ scan.key = k)

Expired(k, p) == expiry[k][p] # NoRecord /\ expiry[k][p] <= clock

Sought(k, p) == scan.at = "clock" /\ scan.db = RecordDb[k][p] /\ scan.from <= p

\* An expiry record whose time has passed goes, or its time is put off, if the
\* thread's seeks with an uninitialised padding reach it time and again.
RecordsExpire ==
  \A k \in Keys, p \in Pads : []<>Sought(k, p) => (Expired(k, p) ~> ~Expired(k, p))

=============================================================================
