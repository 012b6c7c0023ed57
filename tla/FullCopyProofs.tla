----------------------------- MODULE FullCopyProofs -----------------------------
(***************************************************************************)
(* Proofs about FullCopy for any keys, databases, pipelines, buffers and   *)
(* bounds.                                                                 *)
(***************************************************************************)
EXTENDS FullCopy, SequenceTheorems, TLAPS

Records == [key : Keys, value : Nat]

CopyTypeOK ==
  /\ master \in [Keys -> Nat] /\ replica \in [Keys -> Nat]
  /\ log \in Seq(Records)
  /\ from \in {"none", "connected", "asked", "waiting", "done"}
  /\ reply \in {"none", "ok", "failed"}
  /\ answer \in {"none", "1", "0", "lost"}
  /\ copy \in {"none", "dial", "walk", "send", "end", "gone"}
  /\ db \in Nat
  /\ rest \in SUBSET Records
  /\ batch \in Seq(Records) /\ wire \in Seq(Records) /\ inbuf \in Seq(Records)
  /\ sync \in [Syncs -> {"off", "created", "ask", "got", "apply"}]
  /\ stream \in [Syncs -> Seq(Records)]
  /\ upto \in [Syncs -> Nat] /\ saved \in Nat
  /\ during \in SUBSET Keys /\ dropped \in SUBSET Keys
  /\ cut \in BOOLEAN /\ overlap \in BOOLEAN

\* Where the copy stands.
StageInv ==
  /\ from \in {"none", "connected"} => copy = "none"
  /\ copy = "none" => db = 0
  /\ copy \in {"none", "dial"} => rest = {} /\ batch = <<>>
  /\ copy = "send" => batch # <<>>
  /\ reply # "none" => from = "done"

\* The binlog has the last value of each key that has been written to it.
LogInv ==
  \A i \in DOMAIN log :
    (\A j \in DOMAIN log : j > i => log[j].key # log[i].key) => log[i].value = master[log[i].key]

\* What a sync thread has received is the part of the log behind its position, and one
\* thread runs at a time, or overlap says so.
SyncInv ==
  /\ saved <= Len(log) /\ \A i \in Syncs : upto[i] <= Len(log)
  /\ sync[2] # "off" => from = "done"
  /\ ~overlap =>
       /\ sync[1] = "off" \/ sync[2] = "off"
       /\ \A i \in Syncs : 
            /\ sync[i] = "got" =>
                 /\ upto[i] = saved + Len(stream[i]) /\ upto[i] <= Len(log)
                 /\ \A j \in DOMAIN stream[i] : stream[i][j] = log[saved + j]
            /\ sync[i] = "apply" =>
                 /\ Len(stream[i]) <= saved
                 /\ \A j \in DOMAIN stream[i] : stream[i][j] = log[saved - Len(stream[i]) + j]

\* The records of the copy on their way to the slave.
Unsent   == IF copy \in {"walk", "send"} THEN rest \cup Range(batch) ELSE {}
InFlight == Unsent \cup Range(wire) \cup Range(inbuf)

\* What is on its way is what the master has, unless it has been written meanwhile.
FlightInv == \A r \in InFlight : r.key \notin during => r.value = master[r.key]

\* How far the slave has applied the log.
Ahead(i) == IF sync[i] = "apply" THEN Len(stream[i]) ELSE 0
Applied  == saved - Ahead(1) - Ahead(2)

\* The copy has still to bring k.
Coming(k) ==
  \/ from \in {"none", "connected"}
  \/ copy \in {"dial", "walk", "send"} /\ DatabaseOf[k] > db
  \/ \E r \in InFlight : r.key = k

InLog(k) == \E i \in DOMAIN log : i > Applied /\ log[i].key = k

\* A key of the master is on the slave, or is still to come with the copy or in the log.
KeyInv ==
  ~cut /\ ~overlap /\ reply # "failed" =>
    \A k \in Keys \ (during \cup dropped) :
      master[k] # 0 => replica[k] = master[k] \/ Coming(k) \/ InLog(k)

FullCopyInv == CopyTypeOK /\ StageInv /\ LogInv /\ SyncInv /\ FlightInv /\ KeyInv

-----------------------------------------------------------------------------
(* Queues *)

LEMMA RangeTail ==
  ASSUME NEW S, NEW s \in Seq(S), s # <<>>
  PROVE  Range(s) = {Head(s)} \cup Range(Tail(s)) /\ Head(s) \in S /\ Tail(s) \in Seq(S)
<1>1. Len(s) \in Nat \ {0} /\ DOMAIN s = 1..Len(s)
  BY EmptySeq
<1>2. /\ Tail(s) \in Seq(S) /\ DOMAIN Tail(s) = 1..Len(s) - 1
      /\ \A i \in 1..Len(s) - 1 : Tail(s)[i] = s[i + 1]
  BY <1>1
<1>3. Head(s) = s[1] /\ s[1] \in S
  BY <1>1, ElementOfSeq
<1>4. \A x \in Range(s) : x = Head(s) \/ x \in Range(Tail(s))
  <2> SUFFICES ASSUME NEW i \in 1..Len(s), i # 1 PROVE s[i] \in Range(Tail(s))
    BY <1>1, <1>3 DEF Range
  <2>1. i - 1 \in 1..Len(s) - 1 /\ Tail(s)[i - 1] = s[i]
    BY <1>1, <1>2
  <2> QED
    BY <1>2, <2>1 DEF Range
<1>5. \A x \in Range(Tail(s)) : x \in Range(s)
  <2> SUFFICES ASSUME NEW i \in 1..Len(s) - 1 PROVE Tail(s)[i] \in Range(s)
    BY <1>2 DEF Range
  <2>1. i + 1 \in DOMAIN s /\ Tail(s)[i] = s[i + 1]
    BY <1>1, <1>2
  <2> QED
    BY <2>1 DEF Range
<1>6. Head(s) \in Range(s)
  BY <1>1, <1>3 DEF Range
<1> QED
  BY <1>2, <1>3, <1>4, <1>5, <1>6

LEMMA RangeAppend ==
  ASSUME NEW S, NEW s \in Seq(S), NEW x \in S
  PROVE  Range(Append(s, x)) = Range(s) \cup {x} /\ Append(s, x) \in Seq(S)
<1>1. Len(s) \in Nat /\ DOMAIN s = 1..Len(s)
  OBVIOUS
<1>2. /\ Append(s, x) \in Seq(S) /\ DOMAIN Append(s, x) = 1..Len(s) + 1
      /\ Append(s, x)[Len(s) + 1] = x
      /\ \A i \in 1..Len(s) : Append(s, x)[i] = s[i]
  BY <1>1
<1>3. \A y \in Range(Append(s, x)) : y \in Range(s) \cup {x}
  BY <1>1, <1>2 DEF Range
<1>4. \A y \in Range(s) \cup {x} : y \in Range(Append(s, x))
  BY <1>1, <1>2 DEF Range
<1> QED
  BY <1>2, <1>3, <1>4

LEMMA RangeCut ==
  ASSUME NEW S, NEW s \in Seq(S), NEW n \in 0..Len(s)
  PROVE  /\ SubSeq(s, 1, n) \in Seq(S) /\ SubSeq(s, n + 1, Len(s)) \in Seq(S)
         /\ Range(s) = Range(SubSeq(s, 1, n)) \cup Range(SubSeq(s, n + 1, Len(s)))
<1>1. Len(s) \in Nat /\ DOMAIN s = 1..Len(s) /\ n \in Nat /\ n <= Len(s)
  OBVIOUS
<1>2. /\ SubSeq(s, 1, n) \in Seq(S) /\ DOMAIN SubSeq(s, 1, n) = 1..n
      /\ \A i \in 1..n : SubSeq(s, 1, n)[i] = s[i]
  BY <1>1, SubSeqProperties
<1>3. /\ SubSeq(s, n + 1, Len(s)) \in Seq(S) /\ DOMAIN SubSeq(s, n + 1, Len(s)) = 1..Len(s) - n
      /\ \A i \in 1..Len(s) - n : SubSeq(s, n + 1, Len(s))[i] = s[n + i]
  BY <1>1, SubSeqProperties
<1>4. \A x \in Range(s) : x \in Range(SubSeq(s, 1, n)) \cup Range(SubSeq(s, n + 1, Len(s)))
  <2> SUFFICES ASSUME NEW i \in 1..Len(s)
               PROVE  s[i] \in Range(SubSeq(s, 1, n)) \cup Range(SubSeq(s, n + 1, Len(s)))
    BY <1>1 DEF Range
  <2>1. CASE i <= n
    <3>1. i \in DOMAIN SubSeq(s, 1, n) /\ SubSeq(s, 1, n)[i] = s[i]
      BY <1>1, <1>2, <2>1
    <3> QED
      BY <3>1 DEF Range
  <2>2. CASE i > n
    <3>1. i - n \in 1..Len(s) - n /\ SubSeq(s, n + 1, Len(s))[i - n] = s[i]
      BY <1>1, <1>3, <2>2
    <3> QED
      BY <1>3, <3>1 DEF Range
  <2> QED
    BY <1>1, <2>1, <2>2
<1>5. \A x \in Range(SubSeq(s, 1, n)) \cup Range(SubSeq(s, n + 1, Len(s))) : x \in Range(s)
  <2>1. \A x \in Range(SubSeq(s, 1, n)) : x \in Range(s)
    BY <1>1, <1>2 DEF Range
  <2>2. \A x \in Range(SubSeq(s, n + 1, Len(s))) : x \in Range(s)
    <3> SUFFICES ASSUME NEW i \in 1..Len(s) - n PROVE SubSeq(s, n + 1, Len(s))[i] \in Range(s)
      BY <1>3 DEF Range
    <3>1. n + i \in DOMAIN s
      BY <1>1
    <3> QED
      BY <1>3, <3>1 DEF Range
  <2> QED
    BY <2>1, <2>2
<1> QED
  BY <1>2, <1>3, <1>4, <1>5

LEMMA EmptyRange == Range(<<>>) = {}
BY DEF Range

-----------------------------------------------------------------------------
(* Steps that leave parts of the state alone *)

\* The log and the sync threads are as they were.
LEMMA LogSide ==
  ASSUME LogInv, SyncInv, UNCHANGED <<master, log, sync, stream, upto, saved, overlap>>,
         from = "done" => from' = "done"
  PROVE  LogInv' /\ SyncInv' /\ \A k : InLog(k) => InLog(k)'
BY DEF LogInv, SyncInv, InLog, Applied, Ahead

\* Nothing new is on its way.
LEMMA FlightShrinks ==
  ASSUME FlightInv, UNCHANGED <<master, during>>, InFlight' \subseteq InFlight
  PROVE  FlightInv'
BY DEF FlightInv

LEMMA KeysStay ==
  ASSUME KeyInv, UNCHANGED <<master, during>>,
         \A k \in Keys \ dropped' : replica'[k] = replica[k], ~cut' => ~cut, ~overlap' => ~overlap,
         reply' # "failed" => reply # "failed", dropped \subseteq dropped',
         ~cut' /\ reply' # "failed" => \A k \in Keys : Coming(k) => Coming(k)',
         ~overlap' => \A k \in Keys \ dropped' : InLog(k) => InLog(k)'
  PROVE  KeyInv'
BY DEF KeyInv

\* Steps of the copy, and of onSyncFromCommand but for its end.
LEMMA CopySide ==
  ASSUME FullCopyInv, CopyTypeOK', StageInv',
         UNCHANGED <<source, replica, threads>>, from = "done" => from' = "done",
         InFlight' \subseteq InFlight,
         ~cut' => ~cut, reply' # "failed" => reply # "failed",
         ~cut' /\ reply' # "failed" => \A k \in Keys : Coming(k) => Coming(k)'
  PROVE  FullCopyInv'
<1>1. UNCHANGED <<master, log, during, replica, sync, stream, upto, saved, dropped, overlap>>
  BY DEF source, threads
<1>2. LogInv /\ SyncInv /\ FlightInv /\ KeyInv
  BY DEF FullCopyInv
<1>3. LogInv' /\ SyncInv' /\ \A k : InLog(k) => InLog(k)'
  BY <1>1, <1>2, LogSide
<1>4. FlightInv'
  BY <1>1, <1>2, FlightShrinks
<1>5. KeyInv'
  BY <1>1, <1>2, <1>3, KeysStay
<1> QED
  BY <1>3, <1>4, <1>5 DEF FullCopyInv

\* Steps of a sync thread that apply nothing to the keys it is judged by.
LEMMA ThreadSide ==
  ASSUME FullCopyInv, CopyTypeOK', SyncInv', UNCHANGED <<source, asking, sending, taking, cut>>,
         \A k \in Keys \ dropped' : replica'[k] = replica[k],
         ~overlap' => ~overlap, dropped \subseteq dropped',
         ~overlap' => \A k \in Keys \ dropped' : InLog(k) => InLog(k)'
  PROVE  FullCopyInv'
<1>1. UNCHANGED <<master, log, during, from, reply, copy, db, rest, batch, wire, inbuf, cut>>
  BY DEF source, asking, sending, taking
<1>2. StageInv' /\ LogInv'
  BY <1>1 DEF FullCopyInv, StageInv, LogInv
<1>3. InFlight' = InFlight
  BY <1>1 DEF InFlight, Unsent
<1>4. FlightInv'
  BY <1>1, <1>3, FlightShrinks DEF FullCopyInv
<1>5. \A k \in Keys : Coming(k) => Coming(k)'
  BY <1>1, <1>3 DEF Coming
<1>6. KeyInv'
  BY <1>1, <1>5, KeysStay DEF FullCopyInv
<1> QED
  BY <1>2, <1>4, <1>6 DEF FullCopyInv

-----------------------------------------------------------------------------
(* SYNCFROM *)

LEMMA ConnectSafe == ASSUME FullCopyInv, Connect PROVE FullCopyInv'
<1>1. /\ from = "none" /\ from' \in {"connected", "done"}
      /\ reply' = IF from' = "done" THEN "failed" ELSE reply
      /\ UNCHANGED <<source, replica, answer, sending, taking, threads, cut, kills>>
  BY DEF Connect
<1>2. UNCHANGED <<copy, db, rest, batch, wire, inbuf>>
  BY <1>1 DEF sending, taking
<1>3. CopyTypeOK'
  BY <1>1 DEF FullCopyInv, CopyTypeOK, source, sending, taking, threads
<1>4. StageInv'
  BY <1>1, <1>2 DEF FullCopyInv, StageInv
<1>5. InFlight' = InFlight
  BY <1>2 DEF InFlight, Unsent
<1>6. reply' # "failed" => \A k \in Keys : Coming(k) => Coming(k)'
  BY <1>1 DEF Coming
<1>7. reply' # "failed" => reply # "failed"
  BY <1>1 DEF FullCopyInv, StageInv
<1> QED
  BY <1>1, <1>3, <1>4, <1>5, <1>6, <1>7, CopySide

\* Every database is still to be copied when the copy begins.
LEMMA SendCopySafe == ASSUME FullCopyInv, SendCopy PROVE FullCopyInv'
<1>1. /\ from = "connected" /\ from' \in {"asked", "done"}
      /\ from' = "asked" => copy' = "dial" /\ reply' = reply
      /\ from' = "done" => copy' = copy /\ reply' = "failed"
      /\ UNCHANGED <<source, replica, answer, db, rest, batch, records, taking, threads, cut, kills>>
  BY DEF SendCopy
<1>2. copy = "none" /\ db = 0 /\ rest = {} /\ batch = <<>> /\ reply = "none"
  BY <1>1 DEF FullCopyInv, StageInv, CopyTypeOK
<1>3. CopyTypeOK'
  BY <1>1, <1>2 DEF FullCopyInv, CopyTypeOK, source, taking, threads
<1>4. StageInv'
  BY <1>1, <1>2 DEF FullCopyInv, StageInv
<1>5. InFlight' = InFlight
  BY <1>1, <1>2 DEF InFlight, Unsent, taking
<1>6. reply' # "failed" => \A k \in Keys : Coming(k)'
  <2>1. \A k \in Keys : DatabaseOf[k] > 0
    BY FullCopyAssumption
  <2> QED
    BY <1>1, <1>2, <2>1 DEF Coming
<1> QED
  BY <1>1, <1>2, <1>3, <1>4, <1>5, <1>6, CopySide

LEMMA TerminateSafe == ASSUME FullCopyInv, Terminate PROVE FullCopyInv'
<1>1. /\ from = "asked" /\ from' = "waiting"
      /\ UNCHANGED <<source, replica, reply, answer, sending, taking, sync, stream, upto, saved,
                     dropped, overlap, cut, kills>>
  BY DEF Terminate
<1>2. UNCHANGED <<master, log, during, copy, db, rest, batch, wire, inbuf>>
  BY <1>1 DEF source, sending, taking
<1>3. CopyTypeOK'
  BY <1>1 DEF FullCopyInv, CopyTypeOK, source, sending, taking
<1>4. StageInv'
  BY <1>1, <1>2 DEF FullCopyInv, StageInv
<1>5. InFlight' = InFlight
  BY <1>2 DEF InFlight, Unsent
<1>6. \A k \in Keys : Coming(k) => Coming(k)'
  BY <1>1, <1>2, <1>5 DEF Coming
<1>7. LogInv' /\ SyncInv' /\ \A k : InLog(k) => InLog(k)'
  BY <1>1, <1>2, LogSide DEF FullCopyInv
<1>8. FlightInv'
  BY <1>2, <1>5, FlightShrinks DEF FullCopyInv
<1>9. KeyInv'
  BY <1>1, <1>2, <1>6, <1>7, KeysStay DEF FullCopyInv
<1> QED
  BY <1>3, <1>4, <1>7, <1>8, <1>9 DEF FullCopyInv

\* The second sync thread is started with the first one off, or overlap says so.
LEMMA RestartSafe == ASSUME FullCopyInv, Restart PROVE FullCopyInv'
<1>1. /\ from = "waiting" /\ from' = "done" /\ reply' \in {"ok", "failed"}
      /\ UNCHANGED <<source, replica, answer, sending, taking, stream, upto, saved, isRunning,
                     cancelled, dropped, cut, kills>>
  BY DEF Restart, Replies, FullCopyInv, CopyTypeOK
<1>2. UNCHANGED <<master, log, during, copy, db, rest, batch, wire, inbuf>>
  BY <1>1 DEF source, sending, taking
<1>3. sync[2] = "off" /\ reply = "none" /\ sync \in [Syncs -> {"off", "created", "ask", "got", "apply"}]
  BY <1>1 DEF FullCopyInv, SyncInv, StageInv, CopyTypeOK
<1>4. /\ overlap' \in BOOLEAN /\ (overlap => overlap')
      /\ sync' = sync \/ (sync' = [sync EXCEPT ![2] = "created"] /\ (~overlap' => sync[1] = "off"))
  <2>1. CASE isRunning
    BY <2>1 DEF Restart, FullCopyInv, CopyTypeOK
  <2>2. CASE ~isRunning
    <3>1. sync' = [sync EXCEPT ![2] = "created"] /\ overlap' = (overlap \/ sync[1] # "off")
      BY <2>2 DEF Restart
    <3>2. overlap' \in BOOLEAN /\ (overlap => overlap') /\ (~overlap' => sync[1] = "off")
      BY <3>1, Zenon
    <3> QED
      BY <3>1, <3>2
  <2> QED
    BY <2>1, <2>2
<1>5. /\ sync' \in [Syncs -> {"off", "created", "ask", "got", "apply"}]
      /\ sync'[1] = sync[1] /\ sync'[2] \in {"off", "created"}
      /\ ~overlap' => sync'[1] = "off" \/ sync'[2] = "off"
  <2>1. CASE sync' = sync
    BY <1>3, <2>1
  <2>2. CASE sync' # sync
    BY <1>3, <1>4, <2>2 DEF Syncs
  <2> QED
    BY <2>1, <2>2
<1>6. CopyTypeOK'
  BY <1>1, <1>4, <1>5 DEF FullCopyInv, CopyTypeOK, source, sending, taking
<1>7. StageInv'
  BY <1>1, <1>2 DEF FullCopyInv, StageInv
<1>8. InFlight' = InFlight
  BY <1>2 DEF InFlight, Unsent
<1>9. \A k \in Keys : Coming(k) => Coming(k)'
  BY <1>1, <1>2, <1>8 DEF Coming
<1>10. LogInv'
  BY <1>2 DEF FullCopyInv, LogInv
<1>11. SyncInv'
  BY <1>1, <1>2, <1>3, <1>4, <1>5 DEF FullCopyInv, SyncInv, Syncs
<1>12. \A k : InLog(k) => InLog(k)'
  BY <1>1, <1>2, <1>3, <1>5 DEF InLog, Applied, Ahead
<1>13. FlightInv'
  BY <1>2, <1>8, FlightShrinks DEF FullCopyInv
<1>14. KeyInv'
  BY <1>1, <1>2, <1>3, <1>4, <1>9, <1>12, KeysStay DEF FullCopyInv
<1> QED
  BY <1>6, <1>7, <1>10, <1>11, <1>13, <1>14 DEF FullCopyInv

-----------------------------------------------------------------------------
(* The copy *)

LEMMA DialSafe == ASSUME FullCopyInv, Dial PROVE FullCopyInv'
<1>1. /\ copy = "dial" /\ copy' \in {"walk", "end"} /\ answer' \in {answer, "0"}
      /\ copy' = "walk" => cut' = cut
      /\ copy' = "end" => cut' = TRUE
      /\ UNCHANGED <<source, replica, asking, db, rest, batch, records, wire, inbuf, replies,
                     threads, kills>>
  BY DEF Dial, FailCopy, Answer
<1>2. rest = {} /\ batch = <<>> /\ UNCHANGED <<from, reply>>
  BY <1>1 DEF FullCopyInv, StageInv, asking
<1>3. cut' \in BOOLEAN
  BY <1>1 DEF FullCopyInv, CopyTypeOK
<1>4. CopyTypeOK'
  BY <1>1, <1>2, <1>3 DEF FullCopyInv, CopyTypeOK, source, threads
<1>5. StageInv'
  BY <1>1, <1>2 DEF FullCopyInv, StageInv
<1>6. InFlight' = InFlight
  BY <1>1, <1>2, EmptyRange DEF InFlight, Unsent
<1>7. ~cut' => copy' = "walk" /\ ~cut
  BY <1>1
<1>8. ~cut' => \A k \in Keys : Coming(k) => Coming(k)'
  BY <1>1, <1>2, <1>6, <1>7 DEF Coming
<1> QED
  BY <1>1, <1>2, <1>4, <1>5, <1>6, <1>7, <1>8, CopySide

\* All keys of the next database that the master has are on their way.
LEMMA NextDatabaseSafe == ASSUME FullCopyInv, NextDatabase PROVE FullCopyInv'
<1>1. /\ copy = "walk" /\ rest = {} /\ batch = <<>>
      /\ UNCHANGED <<source, replica, asking, batch, taking, threads, cut, kills>>
  BY DEF NextDatabase
<1>2. /\ UNCHANGED <<master, log, during, from, reply, wire, inbuf, sync, stream, upto, saved,
                     dropped, overlap>>
      /\ from \notin {"none", "connected"}
  BY <1>1 DEF source, asking, taking, threads, FullCopyInv, StageInv
<1>3. CASE db < Databases
  <2> DEFINE found == {Record(k, master[k]) : k \in {k \in Keys : DatabaseOf[k] = db + 1 /\ master[k] # 0}}
  <2>1. db' = db + 1 /\ rest' = found /\ copy' = copy /\ answer' = answer
    BY <1>3 DEF NextDatabase, MoreDatabases
  <2>2. \A r \in found : r \in Records /\ r.value = master[r.key]
    BY DEF FullCopyInv, CopyTypeOK, Records, Record
  <2>3. \A k \in Keys : DatabaseOf[k] = db + 1 /\ master[k] # 0 => \E r \in found : r.key = k
    <3> SUFFICES ASSUME NEW k \in Keys, DatabaseOf[k] = db + 1, master[k] # 0
                 PROVE  \E r \in found : r.key = k
      OBVIOUS
    <3>1. Record(k, master[k]) \in found /\ Record(k, master[k]).key = k
      BY DEF Record
    <3> QED
      BY <3>1
  <2> HIDE DEF found
  <2>4. CopyTypeOK'
    BY <1>1, <1>2, <2>1, <2>2 DEF FullCopyInv, CopyTypeOK, source, asking, taking, threads
  <2>5. StageInv'
    BY <1>1, <1>2, <2>1 DEF FullCopyInv, StageInv
  <2>6. InFlight' = InFlight \cup found
    BY <1>1, <1>2, <2>1, EmptyRange DEF InFlight, Unsent
  <2>7. FlightInv'
    BY <1>2, <2>2, <2>6 DEF FullCopyInv, FlightInv
  <2>8. LogInv' /\ SyncInv' /\ \A k : InLog(k) => InLog(k)'
    BY <1>2, LogSide DEF FullCopyInv
  <2>9. \A k \in Keys : master[k] # 0 /\ Coming(k) => Coming(k)'
    <3>1. \A k \in Keys : DatabaseOf[k] \in Nat
      BY FullCopyAssumption
    <3>2. \A k \in Keys : DatabaseOf[k] > db => DatabaseOf[k] = db + 1 \/ DatabaseOf[k] > db + 1
      BY <3>1 DEF FullCopyInv, CopyTypeOK
    <3> SUFFICES ASSUME NEW k \in Keys, master[k] # 0, Coming(k) PROVE Coming(k)'
      OBVIOUS
    <3>3. CASE \E r \in InFlight : r.key = k
      BY <2>6, <3>3 DEF Coming
    <3>4. CASE DatabaseOf[k] > db + 1
      BY <1>1, <2>1, <3>4 DEF Coming
    <3>5. CASE DatabaseOf[k] = db + 1
      BY <2>3, <2>6, <3>5 DEF Coming
    <3> QED
      BY <1>2, <3>2, <3>3, <3>4, <3>5 DEF Coming
  <2>10. KeyInv'
    <3>1. replica' = replica /\ cut' = cut
      BY <1>1
    <3> QED
      BY <1>2, <2>8, <2>9, <3>1 DEF FullCopyInv, KeyInv
  <2> QED
    BY <2>4, <2>5, <2>7, <2>8, <2>10 DEF FullCopyInv
<1>4. CASE ~(db < Databases)
  <2>1. copy' = "end" /\ answer' = "1" /\ UNCHANGED <<db, rest>>
    BY <1>4 DEF NextDatabase, MoreDatabases, Answer
  <2>2. CopyTypeOK'
    BY <1>1, <1>2, <2>1 DEF FullCopyInv, CopyTypeOK
  <2>3. StageInv'
    BY <1>1, <1>2, <2>1 DEF FullCopyInv, StageInv
  <2>4. InFlight' = InFlight
    BY <1>1, <1>2, <2>1, EmptyRange DEF InFlight, Unsent
  <2>5. \A k \in Keys : ~(DatabaseOf[k] > db)
    BY <1>4, FullCopyAssumption DEF FullCopyInv, CopyTypeOK
  <2>6. \A k \in Keys : Coming(k) => Coming(k)'
    BY <1>2, <2>4, <2>5 DEF Coming
  <2> QED
    BY <1>1, <1>2, <2>2, <2>3, <2>4, <2>6, CopySide
<1> QED
  BY <1>3, <1>4

LEMMA MakeCommandSafe == ASSUME FullCopyInv, MakeCommand PROVE FullCopyInv'
<1>1. PICK r \in rest : batch' = Append(batch, r) /\ rest' = rest \ {r}
  BY DEF MakeCommand
<1>2. copy = "walk" /\ UNCHANGED <<source, replica, asking, answer, copy, db, taking, threads, cut, kills>>
  BY DEF MakeCommand
<1>3. UNCHANGED <<from, reply, wire, inbuf>>
  BY <1>2 DEF asking, taking
<1>4. r \in Records /\ batch \in Seq(Records)
  BY <1>1 DEF FullCopyInv, CopyTypeOK
<1>5. Range(batch') = Range(batch) \cup {r} /\ batch' \in Seq(Records)
  BY <1>1, <1>4, RangeAppend
<1>6. CopyTypeOK'
  BY <1>1, <1>2, <1>3, <1>5 DEF FullCopyInv, CopyTypeOK, source, threads
<1>7. StageInv'
  BY <1>2, <1>3 DEF FullCopyInv, StageInv
<1>8. InFlight' = InFlight
  BY <1>1, <1>2, <1>3, <1>5 DEF InFlight, Unsent
<1>9. \A k \in Keys : Coming(k) => Coming(k)'
  BY <1>2, <1>3, <1>8 DEF Coming
<1> QED
  BY <1>2, <1>3, <1>6, <1>7, <1>8, <1>9, CopySide

LEMMA FlushSafe == ASSUME FullCopyInv, Flush PROVE FullCopyInv'
<1>1. /\ copy = "walk" /\ copy' = "send"
      /\ UNCHANGED <<source, replica, asking, answer, db, rest, batch, records, taking, threads, cut, kills>>
  BY DEF Flush
<1>2. UNCHANGED <<from, reply, wire, inbuf>> /\ batch # <<>>
  BY <1>1 DEF Flush, FlushDue, asking, taking
<1>3. CopyTypeOK'
  BY <1>1, <1>2 DEF FullCopyInv, CopyTypeOK, source, threads
<1>4. StageInv'
  BY <1>1, <1>2 DEF FullCopyInv, StageInv
<1>5. InFlight' = InFlight
  BY <1>1, <1>2 DEF InFlight, Unsent
<1>6. \A k \in Keys : Coming(k) => Coming(k)'
  BY <1>1, <1>2, <1>5 DEF Coming
<1> QED
  BY <1>1, <1>2, <1>3, <1>4, <1>5, <1>6, CopySide

LEMMA SendSafe == ASSUME FullCopyInv, Send PROVE FullCopyInv'
<1>1. /\ copy = "send" /\ copy' \in {"walk", "send"}
      /\ wire' = Append(wire, Head(batch)) /\ batch' = Tail(batch)
      /\ UNCHANGED <<source, replica, asking, answer, db, rest, records, conn, inbuf, replies,
                     threads, cut, kills>>
  BY DEF Send
<1>2. UNCHANGED <<from, reply>>
  BY <1>1 DEF asking
<1>3. batch \in Seq(Records) /\ wire \in Seq(Records) /\ batch # <<>>
  BY <1>1 DEF FullCopyInv, CopyTypeOK, StageInv
<1>4. /\ Range(batch) = {Head(batch)} \cup Range(Tail(batch))
      /\ Head(batch) \in Records /\ Tail(batch) \in Seq(Records)
  BY <1>3, RangeTail
<1>5. Range(wire') = Range(wire) \cup {Head(batch)} /\ wire' \in Seq(Records)
  BY <1>1, <1>3, <1>4, RangeAppend
<1>6. CopyTypeOK'
  BY <1>1, <1>2, <1>4, <1>5 DEF FullCopyInv, CopyTypeOK, source, threads
<1>7. StageInv'
  <2>1. copy' = "send" => batch' # <<>>
    <3>1. Len(batch) # 1 => Tail(batch) # <<>>
      <4>1. Len(batch) \in Nat /\ Len(batch) # 0
        BY <1>3, EmptySeq
      <4>2. Len(Tail(batch)) = Len(batch) - 1
        BY <1>3, <4>1
      <4> QED
        BY <4>1, <4>2
    <3> QED
      BY <1>1, <3>1 DEF Send
  <2> QED
    BY <1>1, <1>2, <2>1 DEF FullCopyInv, StageInv
<1>8. InFlight' = InFlight
  BY <1>1, <1>4, <1>5 DEF InFlight, Unsent
<1>9. \A k \in Keys : Coming(k) => Coming(k)'
  BY <1>1, <1>2, <1>8 DEF Coming
<1> QED
  BY <1>1, <1>2, <1>6, <1>7, <1>8, <1>9, CopySide

LEMMA AppliedTyping ==
  ASSUME CopyTypeOK
  PROVE  Ahead(1) \in Nat /\ Ahead(2) \in Nat /\ Applied \in Int /\ Applied <= saved
<1>1. stream[1] \in Seq(Records) /\ stream[2] \in Seq(Records) /\ saved \in Nat
  BY DEF CopyTypeOK, Syncs
<1>2. Ahead(1) \in Nat /\ Ahead(2) \in Nat
  BY <1>1 DEF Ahead
<1> QED
  BY <1>1, <1>2 DEF Applied

\* Records on their way are records.
LEMMA FlightKeys ==
  ASSUME CopyTypeOK
  PROVE  \A r \in InFlight : r \in Records /\ r.key \in Keys
<1>1. \A s \in Seq(Records) : Range(s) \subseteq Records
  BY ElementOfSeq DEF Range
<1>2. InFlight \subseteq Records
  BY <1>1 DEF CopyTypeOK, InFlight, Unsent
<1> QED
  BY <1>2 DEF Records

\* A part of what was on its way is lost with the connection.
LEMMA WireLost ==
  ASSUME NEW n \in 0..Len(wire), wire \in Seq(Records), wire' = SubSeq(wire, 1, n)
  PROVE  wire' \in Seq(Records) /\ Range(wire') \subseteq Range(wire)
BY RangeCut

LEMMA SendFailsSafe == ASSUME FullCopyInv, SendFails PROVE FullCopyInv'
<1>1. /\ copy = "send" /\ copy' = "end" /\ cut' = TRUE /\ answer' = "0"
      /\ db' = 0 /\ rest' = {} /\ batch' = <<>> /\ records' = 0
      /\ UNCHANGED <<source, replica, asking, inbuf, replies, threads>>
  BY DEF SendFails, FailCopy, Answer, WalkEnds
<1>2. PICK n \in 0..Len(wire) : wire' = SubSeq(wire, 1, n)
  BY DEF SendFails, WireCut
<1>3. wire' \in Seq(Records) /\ Range(wire') \subseteq Range(wire)
  BY <1>2, WireLost DEF FullCopyInv, CopyTypeOK
<1>4. UNCHANGED <<from, reply>>
  BY <1>1 DEF asking
<1>5. CopyTypeOK'
  BY <1>1, <1>3, <1>4, EmptySeq DEF FullCopyInv, CopyTypeOK, source, threads
<1>6. StageInv'
  BY <1>1, <1>4 DEF FullCopyInv, StageInv
<1>7. InFlight' \subseteq InFlight
  BY <1>1, <1>3 DEF InFlight, Unsent
<1> QED
  BY <1>1, <1>4, <1>5, <1>6, <1>7, CopySide

\* The end of the master, with a word or without one.
LEMMA MasterEndsSafe == ASSUME FullCopyInv, MasterDies \/ HostLost PROVE FullCopyInv'
<1>1. /\ copy # "none" /\ copy' \in {"end", "gone"} /\ answer' \in {"lost", "none", answer}
      /\ db' = 0 /\ rest' = {} /\ batch' = <<>> /\ records' = 0
      /\ UNCHANGED <<source, replica, asking, inbuf, replies, threads>>
  BY DEF MasterDies, HostLost, WalkEnds
<1>2. PICK n \in 0..Len(wire) : wire' = SubSeq(wire, 1, n)
  BY DEF MasterDies, HostLost, WireCut
<1>3. wire' \in Seq(Records) /\ Range(wire') \subseteq Range(wire)
  BY <1>2, WireLost DEF FullCopyInv, CopyTypeOK
<1>4. UNCHANGED <<from, reply>>
  BY <1>1 DEF asking
<1>5. cut' \in BOOLEAN /\ (~cut' => ~cut /\ copy = "end" /\ wire = <<>>)
  <2>1. cut' = (cut \/ copy # "end" \/ wire # <<>>)
    BY DEF MasterDies, HostLost
  <2> QED
    BY <2>1, Zenon
<1>6. CopyTypeOK'
  BY <1>1, <1>3, <1>4, <1>5, EmptySeq DEF FullCopyInv, CopyTypeOK, source, threads
<1>7. StageInv'
  BY <1>1, <1>4 DEF FullCopyInv, StageInv
<1>8. InFlight' \subseteq InFlight
  BY <1>1, <1>3 DEF InFlight, Unsent
<1>9. ~cut' => \A k \in Keys : Coming(k) => Coming(k)'
  <2> SUFFICES ASSUME ~cut' PROVE \A k \in Keys : Coming(k) => Coming(k)'
    OBVIOUS
  <2>1. copy = "end" /\ wire = <<>>
    BY <1>5
  <2>2. InFlight' = InFlight
    BY <1>1, <1>3, <2>1, EmptyRange DEF InFlight, Unsent
  <2> QED
    BY <1>1, <1>4, <2>1, <2>2 DEF Coming
<1> QED
  BY <1>1, <1>4, <1>5, <1>6, <1>7, <1>8, <1>9, CopySide

LEMMA ReceiveSafe == ASSUME FullCopyInv, Receive PROVE FullCopyInv'
<1>1. PICK n \in 1..Len(wire) : /\ inbuf' = SubSeq(wire, 1, n)
                                /\ wire' = SubSeq(wire, n + 1, Len(wire))
  BY DEF Receive
<1>2. /\ inbuf = <<>>
      /\ UNCHANGED <<source, replica, asking, answer, sending, conn, replies, threads, cut, kills>>
  BY DEF Receive
<1>3. UNCHANGED <<from, reply, copy, db, rest, batch>>
  BY <1>2 DEF asking, sending
<1>4. /\ inbuf' \in Seq(Records) /\ wire' \in Seq(Records)
      /\ Range(wire) = Range(inbuf') \cup Range(wire')
  BY <1>1, RangeCut DEF FullCopyInv, CopyTypeOK
<1>5. CopyTypeOK'
  BY <1>2, <1>3, <1>4 DEF FullCopyInv, CopyTypeOK, source, threads
<1>6. StageInv'
  BY <1>3 DEF FullCopyInv, StageInv
<1>7. InFlight' = InFlight
  BY <1>2, <1>3, <1>4, EmptyRange DEF InFlight, Unsent
<1>8. \A k \in Keys : Coming(k) => Coming(k)'
  BY <1>3, <1>7 DEF Coming
<1> QED
  BY <1>2, <1>3, <1>5, <1>6, <1>7, <1>8, CopySide

\* What arrives is what the master has, unless it has been written meanwhile.
LEMMA RawSetSafe == ASSUME FullCopyInv, RawSet PROVE FullCopyInv'
<1>1. /\ inbuf # <<>> /\ inbuf' \in {inbuf, Tail(inbuf)}
      /\ replica' = [replica EXCEPT ![Head(inbuf).key] = Head(inbuf).value]
      /\ UNCHANGED <<source, asking, answer, sending, wire, conn, threads, cut, kills>>
  BY DEF RawSet
<1>2. /\ UNCHANGED <<master, log, during, from, reply, copy, db, rest, batch>>
      /\ UNCHANGED <<sync, stream, upto, saved, dropped, overlap>>
  BY <1>1 DEF source, asking, sending, threads
<1>3. /\ Range(inbuf) = {Head(inbuf)} \cup Range(Tail(inbuf))
      /\ Head(inbuf) \in Records /\ Tail(inbuf) \in Seq(Records)
  BY <1>1, RangeTail DEF FullCopyInv, CopyTypeOK
<1>4. PICK r : r = Head(inbuf)
  OBVIOUS
<1>5. r \in InFlight /\ r \in Records /\ InFlight \subseteq InFlight' \cup {r} /\ InFlight' \subseteq InFlight
  BY <1>1, <1>2, <1>3, <1>4 DEF InFlight, Unsent
<1>6. r.key \in Keys /\ r.value \in Nat /\ (r.key \notin during => r.value = master[r.key])
  BY <1>5 DEF FullCopyInv, FlightInv, Records
<1>7. /\ replica' \in [Keys -> Nat] /\ replica'[r.key] = r.value
      /\ \A k \in Keys : k # r.key => replica'[k] = replica[k]
  BY <1>1, <1>4, <1>6 DEF FullCopyInv, CopyTypeOK
<1>8. CopyTypeOK'
  BY <1>1, <1>2, <1>3, <1>7 DEF FullCopyInv, CopyTypeOK
<1>9. StageInv'
  BY <1>2 DEF FullCopyInv, StageInv
<1>10. LogInv' /\ SyncInv' /\ \A k : InLog(k) => InLog(k)'
  BY <1>2, LogSide DEF FullCopyInv
<1>11. FlightInv'
  BY <1>2, <1>5, FlightShrinks DEF FullCopyInv
<1>12. \A k \in Keys : k # r.key /\ Coming(k) => Coming(k)'
  BY <1>2, <1>5 DEF Coming
<1>13. KeyInv'
  BY <1>1, <1>2, <1>6, <1>7, <1>10, <1>12 DEF FullCopyInv, KeyInv
<1> QED
  BY <1>8, <1>9, <1>10, <1>11, <1>13 DEF FullCopyInv

-----------------------------------------------------------------------------
(* Clients *)

\* A key written while the copy is under way is one the copy is not judged by; one that
\* is written before or after it is in the log from then on.
LEMMA WriteSafe == ASSUME FullCopyInv, NEW k \in Written, Write(k) PROVE FullCopyInv'
<1>1. k \in Keys
  BY FullCopyAssumption
<1>2. PICK v \in {0, Len(log) + 2} : /\ master' = [master EXCEPT ![k] = v]
                                     /\ log' = Append(log, Record(k, v))
  BY DEF Write
<1>3. /\ UNCHANGED <<replica, asking, answer, sending, taking, threads, cut, kills>>
      /\ during' = IF UnderWay THEN during \cup {k} ELSE during \ {k}
  BY DEF Write
<1>4. /\ UNCHANGED <<from, reply, copy, db, rest, batch, wire, inbuf>>
      /\ UNCHANGED <<sync, stream, upto, saved, dropped, overlap>>
  BY <1>3 DEF asking, sending, taking, threads
<1>5. log \in Seq(Records) /\ Len(log) \in Nat /\ DOMAIN log = 1..Len(log) /\ master \in [Keys -> Nat]
  BY DEF FullCopyInv, CopyTypeOK
<1>6. v \in Nat /\ Record(k, v) \in Records /\ Record(k, v).key = k /\ Record(k, v).value = v
  BY <1>1, <1>2, <1>5 DEF Record, Records
<1>7. /\ master' \in [Keys -> Nat] /\ master'[k] = v
      /\ \A m \in Keys : m # k => master'[m] = master[m]
  BY <1>1, <1>2, <1>5, <1>6
<1>8. /\ log' \in Seq(Records) /\ Len(log') = Len(log) + 1 /\ DOMAIN log' = 1..Len(log) + 1
      /\ log'[Len(log) + 1] = Record(k, v)
      /\ \A i \in 1..Len(log) : log'[i] = log[i]
  BY <1>2, <1>5, <1>6
<1>9. CopyTypeOK'
  BY <1>1, <1>3, <1>4, <1>7, <1>8 DEF FullCopyInv, CopyTypeOK
<1>10. StageInv'
  BY <1>4 DEF FullCopyInv, StageInv
<1>11. LogInv'
  <2> SUFFICES ASSUME NEW i \in 1..Len(log) + 1,
                      \A j \in 1..Len(log) + 1 : j > i => log'[j].key # log'[i].key
               PROVE  log'[i].value = master'[log'[i].key]
    BY <1>8 DEF LogInv
  <2>1. CASE i = Len(log) + 1
    BY <1>6, <1>7, <1>8, <2>1
  <2>2. CASE i # Len(log) + 1
    <3>1. i \in 1..Len(log) /\ Len(log) + 1 > i
      BY <1>5, <2>2
    <3>2. log'[i] = log[i] /\ log[i] \in Records
      BY <1>5, <1>8, <3>1, ElementOfSeq
    <3>3. log[i].key # k /\ log[i].key \in Keys
      <4>1. Len(log) + 1 \in 1..Len(log) + 1 /\ log'[Len(log) + 1].key = k
        BY <1>5, <1>6, <1>8
      <4>2. log'[i].key # k
        BY <3>1, <4>1
      <4> QED
        BY <3>2, <4>2 DEF Records
    <3>4. \A j \in 1..Len(log) : j > i => log[j].key # log[i].key
      BY <1>5, <1>8, <3>2
    <3>5. log[i].value = master[log[i].key]
      BY <1>5, <3>1, <3>4 DEF FullCopyInv, LogInv
    <3> QED
      BY <1>7, <3>2, <3>3, <3>5
  <2> QED
    BY <2>1, <2>2
<1>12. SyncInv'
  <2>1. /\ saved <= Len(log') /\ saved \in Nat /\ upto \in [Syncs -> Nat]
        /\ \A i \in Syncs : upto[i] <= Len(log')
    BY <1>5, <1>8 DEF FullCopyInv, SyncInv, CopyTypeOK
  <2>2. (sync[2] # "off" => from = "done")'
    BY <1>4 DEF FullCopyInv, SyncInv
  <2>3. ASSUME ~overlap PROVE sync[1] = "off" \/ sync[2] = "off"
    BY <2>3 DEF FullCopyInv, SyncInv
  <2>4. ASSUME ~overlap, NEW i \in Syncs, sync[i] = "got"
        PROVE  /\ upto[i] = saved + Len(stream[i]) /\ upto[i] <= Len(log')
               /\ \A j \in DOMAIN stream[i] : stream[i][j] = log'[saved + j]
    <3>1. /\ upto[i] = saved + Len(stream[i]) /\ upto[i] <= Len(log)
          /\ \A j \in DOMAIN stream[i] : stream[i][j] = log[saved + j]
      BY <2>4 DEF FullCopyInv, SyncInv
    <3>2. DOMAIN stream[i] = 1..Len(stream[i]) /\ Len(stream[i]) \in Nat
      BY DEF FullCopyInv, CopyTypeOK
    <3>3. \A j \in DOMAIN stream[i] : saved + j \in 1..Len(log)
      BY <1>5, <2>1, <3>1, <3>2
    <3> QED
      BY <1>5, <1>8, <2>1, <3>1, <3>3
  <2>5. ASSUME ~overlap, NEW i \in Syncs, sync[i] = "apply"
        PROVE  /\ Len(stream[i]) <= saved
               /\ \A j \in DOMAIN stream[i] : stream[i][j] = log'[saved - Len(stream[i]) + j]
    <3>1. /\ Len(stream[i]) <= saved /\ saved <= Len(log)
          /\ \A j \in DOMAIN stream[i] : stream[i][j] = log[saved - Len(stream[i]) + j]
      BY <2>5 DEF FullCopyInv, SyncInv
    <3>2. DOMAIN stream[i] = 1..Len(stream[i]) /\ Len(stream[i]) \in Nat
      BY DEF FullCopyInv, CopyTypeOK
    <3>3. \A j \in DOMAIN stream[i] : saved - Len(stream[i]) + j \in 1..Len(log)
      BY <1>5, <2>1, <3>1, <3>2
    <3> QED
      BY <1>8, <3>1, <3>3
  <2> QED
    BY <1>4, <2>1, <2>2, <2>3, <2>4, <2>5 DEF SyncInv
<1>13. InFlight' = InFlight
  BY <1>4 DEF InFlight, Unsent
<1>14. FlightInv'
  <2>1. CASE UnderWay
    <3>1. \A r \in InFlight : r.key \in Keys
      BY FlightKeys DEF FullCopyInv
    <3> QED
      BY <1>3, <1>7, <1>13, <2>1, <3>1 DEF FullCopyInv, FlightInv
  <2>2. CASE ~UnderWay
    <3>1. InFlight = {}
      BY <2>2, EmptyRange DEF UnderWay, InFlight, Unsent
    <3> QED
      BY <1>13, <3>1 DEF FlightInv
  <2> QED
    BY <2>1, <2>2
<1>15. InLog(k)'
  <2>1. Applied <= saved /\ saved <= Len(log) /\ Applied \in Int /\ saved \in Nat
    BY AppliedTyping DEF FullCopyInv, SyncInv, CopyTypeOK
  <2>2. Applied' = Applied
    BY <1>4 DEF Applied, Ahead
  <2>3. Len(log) + 1 \in DOMAIN log' /\ Len(log) + 1 > Applied' /\ log'[Len(log) + 1].key = k
    BY <1>5, <1>6, <1>8, <2>1, <2>2
  <2> QED
    BY <2>3 DEF InLog
<1>16. \A m \in Keys : InLog(m) => InLog(m)'
  <2>1. Applied' = Applied
    BY <1>4 DEF Applied, Ahead
  <2> QED
    BY <1>5, <1>8, <2>1 DEF InLog
<1>17. \A m \in Keys : Coming(m) => Coming(m)'
  BY <1>4, <1>13 DEF Coming
<1>18. KeyInv'
  <2> SUFFICES ASSUME ~cut, ~overlap, reply # "failed", NEW m \in Keys \ (during' \cup dropped),
                      master'[m] # 0
               PROVE  replica[m] = master'[m] \/ Coming(m)' \/ InLog(m)'
    BY <1>3, <1>4 DEF KeyInv
  <2>1. CASE m = k
    BY <1>15, <2>1
  <2>2. CASE m # k
    <3>1. m \notin during /\ master'[m] = master[m]
      BY <1>3, <1>7, <2>2
    <3> QED
      BY <1>16, <1>17, <3>1 DEF FullCopyInv, KeyInv
  <2> QED
    BY <2>1, <2>2
<1> QED
  BY <1>9, <1>10, <1>11, <1>12, <1>14, <1>18 DEF FullCopyInv

-----------------------------------------------------------------------------
(* The sync threads *)

\* A thread that neither starts nor ends to apply a stream.
LEMMA RunSafe == ASSUME FullCopyInv, NEW i \in Syncs, Run(i) PROVE FullCopyInv'
<1>1. /\ sync[i] = "created"
      /\ sync' = [sync EXCEPT ![i] = "ask"] \/ sync' = [sync EXCEPT ![i] = "off"]
      /\ UNCHANGED <<source, replica, asking, answer, sending, taking, stream, upto, saved, cancelled,
                     dropped, overlap, cut, kills>>
  BY DEF Run
<1>2. UNCHANGED <<log, from>>
  BY <1>1 DEF source, asking
<1>3. /\ sync' \in [Syncs -> {"off", "created", "ask", "got", "apply"}]
      /\ sync'[i] \in {"off", "ask"} /\ sync[i] = "created"
      /\ \A j \in Syncs : j # i => sync'[j] = sync[j]
  BY <1>1 DEF FullCopyInv, CopyTypeOK
<1>4. CopyTypeOK'
  BY <1>1, <1>3 DEF FullCopyInv, CopyTypeOK, source, asking, sending, taking
<1>5. SyncInv'
  BY <1>1, <1>2, <1>3 DEF FullCopyInv, SyncInv, Syncs
<1>6. \A k : InLog(k) => InLog(k)'
  BY <1>1, <1>2, <1>3 DEF InLog, Applied, Ahead, Syncs
<1> QED
  BY <1>1, <1>4, <1>5, <1>6, ThreadSide

\* The only thread that is not off.
LEMMA Alone ==
  ASSUME FullCopyInv, ~overlap, NEW i \in Syncs, sync[i] # "off", NEW j \in Syncs, j # i
  PROVE  sync[j] = "off"
BY DEF FullCopyInv, SyncInv, Syncs

LEMMA AppliedBy ==
  ASSUME FullCopyInv, ~overlap, NEW i \in Syncs, sync[i] # "off"
  PROVE  Applied = saved - Ahead(i)
<1>1. \A j \in Syncs : j # i => Ahead(j) = 0
  BY Alone DEF Ahead
<1>2. Ahead(1) \in Nat /\ Ahead(2) \in Nat /\ saved \in Nat
  BY AppliedTyping DEF FullCopyInv, CopyTypeOK
<1>3. CASE i = 1
  BY <1>1, <1>2, <1>3 DEF Applied, Syncs
<1>4. CASE i = 2
  BY <1>1, <1>2, <1>4 DEF Applied, Syncs
<1> QED
  BY <1>3, <1>4 DEF Syncs

LEMMA AskSafe == ASSUME FullCopyInv, NEW i \in Syncs, Ask(i) PROVE FullCopyInv'
<1>1. PICK n \in 1..MaxStream : /\ saved + n <= Len(log)
                                /\ upto' = [upto EXCEPT ![i] = saved + n]
                                /\ stream' = [stream EXCEPT ![i] = SubSeq(log, saved + 1, saved + n)]
  BY DEF Ask
<1>2. /\ sync[i] = "ask" /\ sync' = [sync EXCEPT ![i] = "got"]
      /\ UNCHANGED <<source, replica, asking, answer, sending, taking, saved, isRunning, cancelled,
                     dropped, overlap, cut, kills>>
  BY DEF Ask
<1>3. UNCHANGED <<log, from>>
  BY <1>2 DEF source, asking
<1>4. n \in Nat /\ saved \in Nat /\ log \in Seq(Records) /\ Len(log) \in Nat /\ DOMAIN log = 1..Len(log)
  BY FullCopyAssumption DEF FullCopyInv, CopyTypeOK
<1>5. PICK s : s = SubSeq(log, saved + 1, saved + n)
  OBVIOUS
<1>6. /\ s \in Seq(Records) /\ Len(s) = n /\ DOMAIN s = 1..n
      /\ \A j \in 1..n : s[j] = log[saved + j]
  <2>1. \A j \in saved + 1..saved + n : log[j] \in Records
    BY <1>1, <1>4, ElementOfSeq
  <2>2. /\ s \in Seq(Records) /\ Len(s) = n
        /\ \A j \in 1..n : s[j] = log[saved + 1 + j - 1]
    BY <1>1, <1>4, <1>5, <2>1, SubSeqProperties
  <2> QED
    BY <1>4, <2>2
<1>7. /\ sync' \in [Syncs -> {"off", "created", "ask", "got", "apply"}]
      /\ sync'[i] = "got"
      /\ \A j \in Syncs : j # i => sync'[j] = sync[j]
  BY <1>2 DEF FullCopyInv, CopyTypeOK
<1>8. /\ stream' \in [Syncs -> Seq(Records)] /\ stream'[i] = s
      /\ \A j \in Syncs : j # i => stream'[j] = stream[j]
  BY <1>1, <1>5, <1>6 DEF FullCopyInv, CopyTypeOK
<1>9. /\ upto' \in [Syncs -> Nat] /\ upto'[i] = saved + n
      /\ \A j \in Syncs : j # i => upto'[j] = upto[j]
  BY <1>1, <1>4 DEF FullCopyInv, CopyTypeOK
<1>10. CopyTypeOK'
  BY <1>2, <1>7, <1>8, <1>9 DEF FullCopyInv, CopyTypeOK, source, asking, sending, taking
<1>11. SyncInv'
  <2>1. /\ saved <= Len(log) /\ \A j \in Syncs : upto'[j] <= Len(log)
        /\ sync'[2] # "off" => sync[2] # "off"
        /\ sync[2] # "off" => from = "done"
    BY <1>1, <1>2, <1>7, <1>9 DEF FullCopyInv, SyncInv, Syncs
  <2>2. ASSUME ~overlap PROVE \A j \in Syncs : j # i => sync'[j] = "off"
    BY <1>2, <1>7, <2>2, Alone
  <2>3. ASSUME ~overlap PROVE sync'[1] = "off" \/ sync'[2] = "off"
    BY <2>2, <2>3 DEF Syncs
  <2> QED
    BY <1>1, <1>2, <1>3, <1>4, <1>6, <1>7, <1>8, <1>9, <2>1, <2>2, <2>3 DEF SyncInv
<1>12. \A k : InLog(k) => InLog(k)'
  <2>1. \A j \in Syncs : Ahead(j)' = Ahead(j)
    BY <1>2, <1>7, <1>8 DEF Ahead
  <2>2. Applied' = Applied
    BY <1>2, <2>1 DEF Applied, Syncs
  <2> QED
    BY <1>3, <2>2 DEF InLog
<1> QED
  BY <1>2, <1>10, <1>11, <1>12, ThreadSide

LEMMA SaveInfoSafe == ASSUME FullCopyInv, NEW i \in Syncs, SaveInfo(i) PROVE FullCopyInv'
<1>1. /\ sync[i] = "got" /\ saved' = upto[i] /\ upto' = [upto EXCEPT ![i] = 0]
      /\ sync' = [sync EXCEPT ![i] = "apply"]
      /\ UNCHANGED <<source, replica, asking, answer, sending, taking, stream, isRunning, cancelled,
                     dropped, overlap, cut, kills>>
  BY DEF SaveInfo
<1>2. UNCHANGED <<log, from>>
  BY <1>1 DEF source, asking
<1>3. saved \in Nat /\ upto[i] \in Nat /\ stream[i] \in Seq(Records) /\ Len(stream[i]) \in Nat
  BY DEF FullCopyInv, CopyTypeOK
<1>4. /\ sync' \in [Syncs -> {"off", "created", "ask", "got", "apply"}]
      /\ sync'[i] = "apply"
      /\ \A j \in Syncs : j # i => sync'[j] = sync[j]
  BY <1>1 DEF FullCopyInv, CopyTypeOK
<1>5. upto' \in [Syncs -> Nat]
  BY <1>1 DEF FullCopyInv, CopyTypeOK
<1>6. CopyTypeOK'
  BY <1>1, <1>3, <1>4, <1>5 DEF FullCopyInv, CopyTypeOK, source, asking, sending, taking
<1>7. SyncInv'
  <2>1. (sync'[2] # "off" => sync[2] # "off") /\ (sync[2] # "off" => from = "done")
    BY <1>1, <1>4 DEF FullCopyInv, SyncInv, Syncs
  <2>2. ASSUME ~overlap
        PROVE  /\ \A j \in Syncs : j # i => sync'[j] = "off"
               /\ sync'[1] = "off" \/ sync'[2] = "off"
               /\ Len(stream[i]) <= saved'
               /\ \A j \in DOMAIN stream[i] : stream[i][j] = log[saved' - Len(stream[i]) + j]
    <3>1. \A j \in Syncs : j # i => sync'[j] = "off"
      BY <1>1, <1>4, <2>2, Alone
    <3>2. /\ upto[i] = saved + Len(stream[i]) /\ upto[i] <= Len(log)
          /\ \A j \in DOMAIN stream[i] : stream[i][j] = log[saved + j]
      BY <1>1, <2>2 DEF FullCopyInv, SyncInv
    <3>3. saved' - Len(stream[i]) = saved /\ Len(stream[i]) <= saved'
      <4>1. saved' = saved + Len(stream[i])
        BY <1>1, <3>2
      <4> QED
        BY <1>3, <4>1
    <3> QED
      BY <3>1, <3>2, <3>3 DEF Syncs
  <2>3. saved' <= Len(log) /\ \A j \in Syncs : upto'[j] <= Len(log)
    BY <1>1, <1>3 DEF FullCopyInv, SyncInv, CopyTypeOK
  <2> QED
    BY <1>1, <1>2, <1>4, <2>1, <2>2, <2>3 DEF SyncInv
<1>8. ASSUME ~overlap PROVE \A k : InLog(k) => InLog(k)'
  <2>1. Applied = saved
    <3>1. Ahead(i) = 0
      BY <1>1 DEF Ahead
    <3>2. Applied = saved - Ahead(i)
      BY <1>1, <1>8, AppliedBy
    <3> QED
      BY <1>3, <3>1, <3>2
  <2>2. Ahead(i)' = Len(stream[i]) /\ \A j \in Syncs : j # i => Ahead(j)' = 0
    BY <1>1, <1>4, <1>8, Alone DEF Ahead
  <2>3. saved' = saved + Len(stream[i])
    BY <1>1, <1>8 DEF FullCopyInv, SyncInv
  <2>4. Applied' = saved
    <3>1. CASE i = 1
      BY <1>3, <2>2, <2>3, <3>1 DEF Applied, Syncs
    <3>2. CASE i = 2
      BY <1>3, <2>2, <2>3, <3>2 DEF Applied, Syncs
    <3> QED
      BY <3>1, <3>2 DEF Syncs
  <2> QED
    BY <1>2, <2>1, <2>4 DEF InLog
<1> QED
  BY <1>1, <1>6, <1>7, <1>8, ThreadSide

\* The record applied is the one behind what has been applied; if it is the last of its
\* key, the slave has the value the master has.
LEMMA AppliedSafe ==
  ASSUME FullCopyInv, NEW i \in Syncs, sync[i] = "apply", stream[i] # <<>>,
         replica' = [replica EXCEPT ![Head(stream[i]).key] = Head(stream[i]).value],
         stream' = [stream EXCEPT ![i] = Tail(@)],
         UNCHANGED <<source, asking, answer, sending, taking, sync, upto, saved, dropped, overlap, cut>>
  PROVE  FullCopyInv'
<1>1. /\ sync[i] = "apply" /\ stream[i] # <<>>
      /\ replica' = [replica EXCEPT ![Head(stream[i]).key] = Head(stream[i]).value]
      /\ stream' = [stream EXCEPT ![i] = Tail(@)]
      /\ UNCHANGED <<source, asking, answer, sending, taking, sync, upto, saved, dropped, overlap, cut>>
  OBVIOUS
<1>2. UNCHANGED <<master, log, during, from, reply, copy, db, rest, batch, wire, inbuf>>
  BY <1>1 DEF source, asking, sending, taking
<1>3. PICK s : s = stream[i]
  OBVIOUS
<1>4. /\ s \in Seq(Records) /\ Len(s) \in Nat /\ Len(s) # 0 /\ DOMAIN s = 1..Len(s)
      /\ saved \in Nat /\ log \in Seq(Records) /\ DOMAIN log = 1..Len(log) /\ Len(log) \in Nat
  <2>1. s \in Seq(Records) /\ s # <<>>
    BY <1>1, <1>3 DEF FullCopyInv, CopyTypeOK
  <2> QED
    BY <2>1, EmptySeq DEF FullCopyInv, CopyTypeOK
<1>5. /\ Tail(s) \in Seq(Records) /\ Len(Tail(s)) = Len(s) - 1 /\ DOMAIN Tail(s) = 1..Len(s) - 1
      /\ Head(s) = s[1] /\ s[1] \in Records
      /\ \A j \in 1..Len(s) - 1 : Tail(s)[j] = s[j + 1]
  BY <1>4, ElementOfSeq
<1>6. /\ stream' \in [Syncs -> Seq(Records)] /\ stream'[i] = Tail(s)
      /\ \A j \in Syncs : j # i => stream'[j] = stream[j]
  BY <1>1, <1>3, <1>5 DEF FullCopyInv, CopyTypeOK
<1>7. PICK r : r = Head(s)
  OBVIOUS
<1>8. r \in Records /\ r.key \in Keys /\ r.value \in Nat
  BY <1>5, <1>7 DEF Records
<1>9. /\ replica' \in [Keys -> Nat] /\ replica'[r.key] = r.value
      /\ \A k \in Keys : k # r.key => replica'[k] = replica[k]
  BY <1>1, <1>3, <1>7, <1>8 DEF FullCopyInv, CopyTypeOK
<1>10. CopyTypeOK'
  BY <1>1, <1>2, <1>6, <1>9 DEF FullCopyInv, CopyTypeOK
<1>11. StageInv' /\ LogInv'
  BY <1>2 DEF FullCopyInv, StageInv, LogInv
<1>12. InFlight' = InFlight
  BY <1>2 DEF InFlight, Unsent
<1>13. FlightInv'
  BY <1>2, <1>12, FlightShrinks DEF FullCopyInv
<1>14. \A k \in Keys : Coming(k) => Coming(k)'
  BY <1>2, <1>12 DEF Coming
<1>15. ASSUME ~overlap
       PROVE  /\ Len(s) <= saved /\ saved <= Len(log)
              /\ \A j \in 1..Len(s) : s[j] = log[saved - Len(s) + j]
  BY <1>1, <1>3, <1>4, <1>15 DEF FullCopyInv, SyncInv
<1>16. SyncInv'
  <2>1. ASSUME ~overlap
        PROVE  /\ Len(stream'[i]) <= saved
               /\ \A j \in DOMAIN stream'[i] : stream'[i][j] = log[saved - Len(stream'[i]) + j]
    <3>1. \A j \in 1..Len(s) - 1 : Tail(s)[j] = log[saved - Len(s) + (j + 1)]
      <4> SUFFICES ASSUME NEW j \in 1..Len(s) - 1
                   PROVE  Tail(s)[j] = log[saved - Len(s) + (j + 1)]
        OBVIOUS
      <4>1. j + 1 \in 1..Len(s) /\ Tail(s)[j] = s[j + 1]
        BY <1>4, <1>5
      <4> QED
        BY <1>15, <2>1, <4>1
    <3>2. Len(stream'[i]) = Len(s) - 1 /\ DOMAIN stream'[i] = 1..Len(s) - 1
      BY <1>5, <1>6
    <3>3. Len(s) <= saved /\ saved \in Nat /\ Len(s) \in Nat
      BY <1>4, <1>15, <2>1 DEF FullCopyInv, CopyTypeOK
    <3>4. ASSUME NEW j \in DOMAIN stream'[i]
          PROVE  stream'[i][j] = log[saved - Len(stream'[i]) + j]
      <4>1. j \in 1..Len(s) - 1
        BY <3>2, <3>4
      <4>2. Tail(s)[j] = log[saved - Len(s) + (j + 1)]
        BY <3>1, <4>1
      <4>3. saved - Len(s) + (j + 1) = saved - Len(stream'[i]) + j
        <5>1. Len(stream'[i]) = Len(s) - 1 /\ j \in Int
          BY <3>2, <4>1
        <5>2. saved - Len(s) + (j + 1) = saved - (Len(s) - 1) + j
          BY <3>3, <5>1
        <5> QED
          BY <5>1, <5>2
      <4> QED
        BY <1>6, <4>2, <4>3
    <3>5. Len(stream'[i]) <= saved
      BY <3>2, <3>3
    <3> QED
      BY <3>4, <3>5
  <2> QED
    BY <1>1, <1>2, <1>6, <2>1 DEF FullCopyInv, SyncInv
<1>17. ASSUME ~overlap
       PROVE  /\ \A k : k # r.key /\ InLog(k) => InLog(k)'
              /\ InLog(r.key)' \/ r.value = master[r.key]
  <2>1. Applied = saved - Len(s)
    BY <1>1, <1>3, <1>17, AppliedBy DEF Ahead
  <2>2. Applied' = saved - (Len(s) - 1)
    <3>1. Ahead(i)' = Len(s) - 1 /\ \A j \in Syncs : j # i => Ahead(j)' = 0
      BY <1>1, <1>5, <1>6, <1>17, Alone DEF Ahead
    <3>2. CASE i = 1
      BY <1>1, <1>4, <3>1, <3>2 DEF Applied, Syncs
    <3>3. CASE i = 2
      BY <1>1, <1>4, <3>1, <3>3 DEF Applied, Syncs
    <3> QED
      BY <3>2, <3>3 DEF Syncs
  <2>3. Applied' = Applied + 1 /\ Applied \in Int
    BY <1>4, <2>1, <2>2
  <2>4. /\ Applied + 1 \in DOMAIN log
        /\ log[Applied + 1] = r
    <3>1. 1 \in 1..Len(s)
      BY <1>4
    <3>2. s[1] = log[saved - Len(s) + 1]
      BY <1>15, <1>17, <3>1
    <3>3. saved - Len(s) + 1 \in 1..Len(log)
      BY <1>4, <1>15, <1>17
    <3> QED
      BY <1>4, <1>5, <1>7, <2>1, <3>2, <3>3
  <2>5. ASSUME NEW k, k # r.key, InLog(k) PROVE InLog(k)'
    <3>1. PICK j \in DOMAIN log : j > Applied /\ log[j].key = k
      BY <2>5 DEF InLog
    <3>2. j # Applied + 1
      BY <2>4, <2>5, <3>1
    <3>3. j > Applied + 1
      BY <1>4, <2>3, <3>1, <3>2
    <3> QED
      BY <1>2, <2>3, <3>1, <3>3 DEF InLog
  <2>6. ASSUME ~InLog(r.key)' PROVE r.value = master[r.key]
    <3>1. \A j \in DOMAIN log : j > Applied + 1 => log[j].key # r.key
      BY <1>2, <2>3, <2>6 DEF InLog
    <3> QED
      BY <2>4, <3>1 DEF FullCopyInv, LogInv
  <2> QED
    BY <2>5, <2>6
<1>18. KeyInv'
  <2> SUFFICES ASSUME ~cut, ~overlap, reply # "failed", NEW k \in Keys \ (during \cup dropped),
                      master[k] # 0
               PROVE  replica'[k] = master[k] \/ Coming(k)' \/ InLog(k)'
    BY <1>1, <1>2 DEF KeyInv
  <2>1. CASE k = r.key
    BY <1>9, <1>17, <2>1
  <2>2. CASE k # r.key
    BY <1>9, <1>14, <1>17, <2>2 DEF FullCopyInv, KeyInv
  <2> QED
    BY <2>1, <2>2
<1> QED
  BY <1>10, <1>11, <1>13, <1>16, <1>18 DEF FullCopyInv

\* The record is applied, and its thread waits before the next one: it is still in the
\* part of the log that counts as not applied.
LEMMA HaltedSafe ==
  ASSUME FullCopyInv, NEW i \in Syncs, sync[i] = "apply", stream[i] # <<>>,
         replica' = [replica EXCEPT ![Head(stream[i]).key] = Head(stream[i]).value],
         UNCHANGED <<source, asking, answer, sending, taking, sync, stream, upto, saved, dropped, overlap,
                     cut>>
  PROVE  FullCopyInv'
<1>1. /\ UNCHANGED <<master, log, during, from, reply, copy, db, rest, batch, wire, inbuf>>
      /\ UNCHANGED <<sync, stream, upto, saved, dropped, overlap, cut>>
  BY DEF source, asking, sending, taking
<1>2. PICK s : s = stream[i]
  OBVIOUS
<1>3. /\ s \in Seq(Records) /\ Len(s) \in Nat /\ Len(s) # 0 /\ DOMAIN s = 1..Len(s)
      /\ saved \in Nat /\ log \in Seq(Records) /\ DOMAIN log = 1..Len(log) /\ Len(log) \in Nat
  <2>1. s \in Seq(Records) /\ s # <<>>
    BY <1>2 DEF FullCopyInv, CopyTypeOK
  <2> QED
    BY <2>1, EmptySeq DEF FullCopyInv, CopyTypeOK
<1>4. PICK r : r = Head(s)
  OBVIOUS
<1>5. r = s[1] /\ r \in Records /\ r.key \in Keys /\ r.value \in Nat
  <2>1. Head(s) = s[1] /\ s[1] \in Records
    BY <1>3, ElementOfSeq
  <2> QED
    BY <1>4, <2>1 DEF Records
<1>6. replica' \in [Keys -> Nat] /\ \A k \in Keys : k # r.key => replica'[k] = replica[k]
  BY <1>2, <1>4, <1>5 DEF FullCopyInv, CopyTypeOK
<1>7. CopyTypeOK' /\ StageInv'
  BY <1>1, <1>6 DEF FullCopyInv, CopyTypeOK, StageInv
<1>8. LogInv' /\ SyncInv' /\ \A k : InLog(k) => InLog(k)'
  BY <1>1, LogSide DEF FullCopyInv
<1>9. InFlight' = InFlight
  BY <1>1 DEF InFlight, Unsent
<1>10. FlightInv'
  BY <1>1, <1>9, FlightShrinks DEF FullCopyInv
<1>11. \A k \in Keys : Coming(k) => Coming(k)'
  BY <1>1, <1>9 DEF Coming
<1>12. ASSUME ~overlap PROVE InLog(r.key)
  <2>1. Applied = saved - Len(s)
    BY <1>2, <1>12, AppliedBy DEF Ahead
  <2>2. /\ Len(s) <= saved /\ saved <= Len(log)
        /\ \A j \in DOMAIN s : s[j] = log[saved - Len(s) + j]
    BY <1>2, <1>12 DEF FullCopyInv, SyncInv
  <2>3. 1 \in DOMAIN s /\ s[1] = log[saved - Len(s) + 1]
    <3>1. 1 \in DOMAIN s
      BY <1>3
    <3> QED
      BY <2>2, <3>1
  <2>4. saved - Len(s) + 1 \in DOMAIN log /\ saved - Len(s) + 1 > Applied
    BY <1>3, <2>1, <2>2
  <2> QED
    BY <1>5, <2>3, <2>4 DEF InLog
<1>13. KeyInv'
  BY <1>1, <1>6, <1>8, <1>11, <1>12 DEF FullCopyInv, KeyInv
<1> QED
  BY <1>7, <1>8, <1>10, <1>13 DEF FullCopyInv

LEMMA ApplySafe == ASSUME FullCopyInv, NEW i \in Syncs, Apply(i) PROVE FullCopyInv'
<1>1. /\ sync[i] = "apply" /\ stream[i] # <<>>
      /\ replica' = [replica EXCEPT ![Head(stream[i]).key] = Head(stream[i]).value]
      /\ UNCHANGED <<source, asking, answer, sending, taking, sync, upto, saved, dropped, overlap, cut>>
  BY DEF Apply
<1>2. stream' = [stream EXCEPT ![i] = Tail(@)] \/ stream' = stream
  BY DEF Apply
<1> QED
  BY <1>1, <1>2, AppliedSafe, HaltedSafe

LEMMA SleepSafe == ASSUME FullCopyInv, NEW i \in Syncs, Sleep(i) PROVE FullCopyInv'
<1>1. /\ sync[i] = "apply" /\ stream[i] = <<>> /\ sync' = [sync EXCEPT ![i] = "ask"]
      /\ UNCHANGED <<source, replica, asking, answer, sending, taking, stream, upto, saved, isRunning,
                     cancelled, dropped, overlap, cut, kills>>
  BY DEF Sleep
<1>2. UNCHANGED <<log, from>>
  BY <1>1 DEF source, asking
<1>3. /\ sync' \in [Syncs -> {"off", "created", "ask", "got", "apply"}]
      /\ sync'[i] = "ask"
      /\ \A j \in Syncs : j # i => sync'[j] = sync[j]
  BY <1>1 DEF FullCopyInv, CopyTypeOK
<1>4. CopyTypeOK'
  BY <1>1, <1>3 DEF FullCopyInv, CopyTypeOK, source, asking, sending, taking
<1>5. SyncInv'
  BY <1>1, <1>2, <1>3 DEF FullCopyInv, SyncInv, Syncs
<1>6. \A k : InLog(k) => InLog(k)'
  <2>1. Ahead(i) = 0 /\ Ahead(i)' = 0
    BY <1>1, <1>3 DEF Ahead
  <2>2. \A j \in Syncs : Ahead(j)' = Ahead(j)
    BY <1>1, <1>3, <2>1 DEF Ahead
  <2>3. Applied' = Applied
    BY <1>1, <2>2 DEF Applied, Syncs
  <2> QED
    BY <1>2, <2>3 DEF InLog
<1> QED
  BY <1>1, <1>4, <1>5, <1>6, ThreadSide

\* The keys a cancelled thread has still to apply are named in dropped.
LEMMA CancelledSafe == ASSUME FullCopyInv, NEW i \in Syncs, Cancelled(i) PROVE FullCopyInv'
<1>1. /\ sync[i] # "off"
      /\ sync' = [sync EXCEPT ![i] = "off"]
      /\ stream' = [stream EXCEPT ![i] = <<>>]
      /\ upto' = [upto EXCEPT ![i] = 0]
      /\ UNCHANGED <<source, asking, answer, sending, taking, overlap, cut>>
      /\ LeavesNothing(i) \/ LeavesInfo(i) \/ LeavesLocked(i)
  BY DEF Cancelled
<1>2. UNCHANGED <<log, from>>
  BY <1>1 DEF source, asking
<1>3. PICK s : s = stream[i]
  OBVIOUS
<1>4. /\ s \in Seq(Records) /\ Len(s) \in Nat /\ DOMAIN s = 1..Len(s)
      /\ saved \in Nat /\ upto[i] \in Nat /\ DOMAIN log = 1..Len(log) /\ Len(log) \in Nat
      /\ replica \in [Keys -> Nat] /\ dropped \in SUBSET Keys
  BY <1>3 DEF FullCopyInv, CopyTypeOK
<1>5. Rest(i) \in SUBSET Keys /\ \A j \in 1..Len(s) : s[j].key \in Rest(i)
  <2>1. \A j \in 1..Len(s) : s[j] \in Records
    BY <1>4, ElementOfSeq
  <2>2. ToSet(s) = {s[j] : j \in 1..Len(s)}
    BY <1>4 DEF ToSet
  <2> QED
    BY <1>3, <2>1, <2>2 DEF Rest, Records
<1>6. /\ dropped' \in SUBSET Keys /\ dropped \subseteq dropped'
      /\ saved' = saved \/ (sync[i] = "got" /\ saved' = upto[i] /\ Rest(i) \subseteq dropped')
      /\ sync[i] = "apply" => s = <<>> \/ Rest(i) \subseteq dropped'
  BY <1>1, <1>3, <1>4, <1>5 DEF LeavesNothing, LeavesInfo, LeavesLocked
<1>7. replica' \in [Keys -> Nat] /\ \A k \in Keys \ dropped' : replica'[k] = replica[k]
  <2>1. CASE replica' = replica
    BY <1>4, <2>1
  <2>2. CASE replica' # replica
    <3>1. LeavesLocked(i) /\ s # <<>>
      BY <1>1, <1>3, <2>2 DEF LeavesNothing, LeavesInfo, LeavesLocked
    <3>2. PICK r : r = Head(s)
      OBVIOUS
    <3>3. replica' = [replica EXCEPT ![r.key] = r.value] /\ Rest(i) \subseteq dropped'
      BY <1>3, <2>2, <3>1, <3>2 DEF LeavesLocked
    <3>4. r = s[1] /\ 1 \in 1..Len(s) /\ r \in Records
      <4>1. Len(s) # 0
        BY <1>4, <3>1, EmptySeq
      <4> QED
        BY <1>4, <3>2, <4>1, ElementOfSeq
    <3>5. r.key \in Rest(i) /\ r.key \in Keys /\ r.value \in Nat
      BY <1>5, <3>4 DEF Records
    <3> QED
      BY <1>4, <3>3, <3>5
  <2> QED
    BY <2>1, <2>2
<1>8. /\ sync' \in [Syncs -> {"off", "created", "ask", "got", "apply"}]
      /\ sync'[i] = "off"
      /\ \A j \in Syncs : j # i => sync'[j] = sync[j]
  BY <1>1 DEF FullCopyInv, CopyTypeOK
<1>9. /\ stream' \in [Syncs -> Seq(Records)]
      /\ \A j \in Syncs : j # i => stream'[j] = stream[j]
  <2>1. <<>> \in Seq(Records)
    BY EmptySeq
  <2> QED
    BY <1>1, <2>1 DEF FullCopyInv, CopyTypeOK
<1>10. /\ upto' \in [Syncs -> Nat] /\ upto'[i] = 0
       /\ \A j \in Syncs : j # i => upto'[j] = upto[j]
  BY <1>1 DEF FullCopyInv, CopyTypeOK
<1>11. CopyTypeOK'
  <2>1. saved' \in Nat
    BY <1>4, <1>6
  <2> QED
    BY <1>1, <1>6, <1>7, <1>8, <1>9, <1>10, <2>1 DEF FullCopyInv, CopyTypeOK, source, asking, sending, taking
<1>12. SyncInv'
  <2>1. saved' <= Len(log) /\ \A j \in Syncs : upto'[j] <= Len(log)
    BY <1>4, <1>6, <1>10 DEF FullCopyInv, SyncInv
  <2>2. ~overlap => \A j \in Syncs : sync'[j] = "off"
    BY <1>1, <1>8, Alone
  <2>3. (sync[2] # "off" => from = "done")'
    BY <1>2, <1>8 DEF FullCopyInv, SyncInv, Syncs
  <2> QED
    BY <1>1, <1>2, <2>1, <2>2, <2>3 DEF SyncInv, Syncs
<1>13. ASSUME ~overlap, NEW k \in Keys \ dropped', InLog(k) PROVE InLog(k)'
  <2>1. Applied = saved - Ahead(i)
    BY <1>1, <1>13, AppliedBy
  <2>2. Applied' = saved'
    <3>1. \A j \in Syncs : Ahead(j)' = 0
      BY <1>1, <1>8, <1>13, Alone DEF Ahead
    <3>2. saved' \in Nat
      BY <1>4, <1>6
    <3> QED
      BY <3>1, <3>2 DEF Applied, Syncs
  <2>3. PICK j \in DOMAIN log : j > Applied /\ log[j].key = k
    BY <1>13 DEF InLog
  \* What lies between the two positions is in the thread's stream.
  <2>4. ASSUME NEW p \in Nat, saved' <= p + Len(s), p <= Applied, Rest(i) \subseteq dropped',
               \A m \in 1..Len(s) : s[m] = log[p + m]
        PROVE  j > saved'
    <3> SUFFICES ASSUME j <= saved' PROVE FALSE
      BY <1>4, <1>6
    <3>1. j - p \in 1..Len(s) /\ p + (j - p) = j
      <4>1. j \in Int /\ saved' \in Int /\ Applied \in Int
        BY <1>4, <1>6, AppliedTyping DEF FullCopyInv
      <4> QED
        BY <1>4, <2>3, <2>4, <4>1
    <3>2. s[j - p] = log[j]
      BY <2>4, <3>1
    <3> QED
      BY <1>5, <1>13, <2>3, <2>4, <3>1, <3>2
  <2>5. j > saved'
    <3>1. CASE saved' # saved
      <4>1. /\ upto[i] = saved + Len(s)
            /\ \A m \in 1..Len(s) : s[m] = log[saved + m]
            /\ saved' = upto[i] /\ Rest(i) \subseteq dropped' /\ Ahead(i) = 0
        BY <1>3, <1>4, <1>6, <1>13, <3>1 DEF FullCopyInv, SyncInv, Ahead
      <4>2. saved' <= saved + Len(s) /\ saved <= Applied
        BY <1>4, <2>1, <4>1
      <4> QED
        BY <1>4, <2>4, <4>1, <4>2
    <3>2. CASE saved' = saved /\ sync[i] = "apply" /\ s # <<>>
      <4>1. /\ Len(s) <= saved /\ Applied = saved - Len(s) /\ Rest(i) \subseteq dropped'
            /\ \A m \in 1..Len(s) : s[m] = log[saved - Len(s) + m]
        BY <1>3, <1>4, <1>6, <1>13, <2>1, <3>2 DEF FullCopyInv, SyncInv, Ahead
      <4>2. saved - Len(s) \in Nat /\ saved' <= saved - Len(s) + Len(s) /\ saved - Len(s) <= Applied
        BY <1>4, <3>2, <4>1
      <4> QED
        BY <2>4, <4>1, <4>2
    <3>3. CASE saved' = saved /\ ~(sync[i] = "apply" /\ s # <<>>)
      <4>1. Ahead(i) = 0
        BY <1>3, <3>3, EmptySeq DEF Ahead
      <4> QED
        BY <1>4, <2>1, <2>3, <3>3, <4>1
    <3> QED
      BY <3>1, <3>2, <3>3
  <2> QED
    BY <1>2, <2>2, <2>3, <2>5 DEF InLog
<1> QED
  BY <1>1, <1>6, <1>7, <1>11, <1>12, <1>13, ThreadSide

-----------------------------------------------------------------------------
(* The invariant *)

LEMMA FullCopyStart == Init => FullCopyInv
<1> SUFFICES ASSUME Init PROVE FullCopyInv
  OBVIOUS
<1>1. <<>> \in Seq(Records) /\ Len(<<>>) = 0 /\ DOMAIN <<>> = {}
  BY EmptySeq
<1>2. CopyTypeOK
  <2>1. master \in [Keys -> Nat]
    BY FullCopyAssumption DEF Init
  <2> QED
    BY <1>1, <2>1 DEF Init, CopyTypeOK, NoKeys
<1>3. StageInv /\ LogInv
  BY <1>1 DEF Init, StageInv, LogInv
<1>4. SyncInv
  BY <1>1 DEF Init, SyncInv, Syncs
<1>5. InFlight = {}
  BY EmptyRange DEF Init, InFlight, Unsent
<1>6. FlightInv /\ KeyInv
  BY <1>5 DEF Init, FlightInv, KeyInv, Coming
<1> QED
  BY <1>2, <1>3, <1>4, <1>6 DEF FullCopyInv

LEMMA FullCopyStep == FullCopyInv /\ [Next]_vars => FullCopyInv'
<1> SUFFICES ASSUME FullCopyInv, [Next]_vars PROVE FullCopyInv'
  OBVIOUS
<1>1. ASSUME NEW k \in Written, Write(k) PROVE FullCopyInv'
  BY <1>1, WriteSafe
<1>2. CASE SyncFrom
  BY <1>2, ConnectSafe, SendCopySafe, TerminateSafe, RestartSafe DEF SyncFrom
<1>3. CASE Copy
  BY <1>3, DialSafe, NextDatabaseSafe, MakeCommandSafe, FlushSafe, SendSafe DEF Copy
<1>4. CASE Loop
  BY <1>4, ReceiveSafe, RawSetSafe DEF Loop
<1>5. ASSUME NEW i \in Syncs, Sync(i) PROVE FullCopyInv'
  BY <1>5, RunSafe, AskSafe, SaveInfoSafe, ApplySafe, SleepSafe, CancelledSafe DEF Sync
<1>6. CASE SendFails \/ MasterDies \/ HostLost
  BY <1>6, SendFailsSafe, MasterEndsSafe
<1>7. CASE UNCHANGED vars
  <2>1. /\ UNCHANGED <<source, replica, asking, answer, sending, taking, threads, cut, kills>>
        /\ UNCHANGED <<from, reply, copy, db, rest, batch, wire, inbuf>>
    BY <1>7 DEF vars, asking, sending, taking
  <2>2. CopyTypeOK'
    BY <2>1 DEF FullCopyInv, CopyTypeOK, source, threads
  <2>3. StageInv'
    BY <2>1 DEF FullCopyInv, StageInv
  <2>4. InFlight' = InFlight
    BY <2>1 DEF InFlight, Unsent
  <2>5. \A k \in Keys : Coming(k) => Coming(k)'
    BY <2>1, <2>4 DEF Coming
  <2> QED
    BY <2>1, <2>2, <2>3, <2>4, <2>5, CopySide
<1> QED
  BY <1>1, <1>2, <1>3, <1>4, <1>5, <1>6, <1>7 DEF Next

\* While a copy runs, every key of the master is on the slave, on its way, or in the part of
\* the log not applied yet (onSyncFromCommand, DBCopy::start, Sync::run).
THEOREM FullCopyInvariant == Spec => []FullCopyInv
<1>1. Init => FullCopyInv
  BY FullCopyStart
<1>2. FullCopyInv /\ [Next]_vars => FullCopyInv'
  BY FullCopyStep
<1> QED
  BY <1>1, <1>2, PTL DEF Spec

\* A copy in full that was answered with success is one: when all is quiet again, the slave
\* has every key the master has, but for those written meanwhile and those a cancelled
\* sync thread had begun to apply (onSyncFromCommand's reply).
THEOREM FullCopyComplete == Spec => []CopyIsComplete
<1>1. FullCopyInv => CopyIsComplete
  <2> SUFFICES ASSUME FullCopyInv, reply = "ok", ~cut, ~overlap, Quiet,
                      NEW k \in Keys \ (during \cup dropped), master[k] # 0
               PROVE  replica[k] = master[k]
    BY DEF CopyIsComplete
  <2>1. /\ from = "done" /\ copy \notin {"dial", "walk", "send"} /\ wire = <<>> /\ inbuf = <<>>
        /\ saved = Len(log) /\ \A i \in Syncs : sync[i] \in {"off", "ask"}
    BY DEF Quiet, UnderWay
  <2>2. InFlight = {}
    BY <2>1, EmptyRange DEF InFlight, Unsent
  <2>3. ~Coming(k)
    BY <2>1, <2>2 DEF Coming
  <2>4. ~InLog(k)
    <3>1. Ahead(1) = 0 /\ Ahead(2) = 0
      BY <2>1 DEF Ahead, Syncs
    <3>2. log \in Seq(Records)
      BY DEF FullCopyInv, CopyTypeOK
    <3>3. Len(log) \in Nat /\ DOMAIN log = 1..Len(log)
      BY <3>2
    <3>4. Applied = Len(log)
      BY <2>1, <3>1, <3>3 DEF Applied
    <3> QED
      BY <3>3, <3>4 DEF InLog
  <2> QED
    BY <2>3, <2>4 DEF FullCopyInv, KeyInv
<1> QED
  BY <1>1, FullCopyInvariant, PTL

=============================================================================
