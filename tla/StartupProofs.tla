----------------------------- MODULE StartupProofs -----------------------------
(***************************************************************************)
(* Proofs about Startup for every set of documents, table size and number  *)
(* of threads: whatever configuration the checker lets through, commands   *)
(* are served only while each hash value leads to the database of the one  *)
(* db_node it belongs to, and only threads that looked before the mapping  *)
(* was cleared find a database by a key.                                   *)
(***************************************************************************)
EXTENDS Startup, TLAPS

\* Before a server process, and after one, there is nothing of it.
Fresh ==
  main \in {"load", "check", "refused", "none", "begin", "pool", "dead"} =>
    /\ opened = 0 /\ deleted = 0 /\ node = 1 /\ mapping = Unmapped
    /\ \A t \in Threads : at[t] = "off"

\* Only an accepted configuration gets past the check.
Accepted ==
  /\ main \notin {"load", "check", "refused"} => RangesOK(cfg)
  /\ main \in {"load", "check", "refused"} => guard = "none"
  /\ guard = "fork" => main \in {"none", "dead"}

Opened ==
  /\ main \in {"map", "run", "loop"} => opened = Len(cfg.nodes)
  /\ main = "open" => node = 1 /\ mapping = Unmapped
  /\ main \notin {"delete", "leave", "return"} => deleted = 0
  /\ main \in {"terminate", "delete", "leave", "return"} => mapping = Unmapped
  /\ main \in {"run", "loop"} => node = Len(cfg.nodes) + 1

\* What the nodes mapped so far have left in the table.
Mapped ==
  main \in {"map", "run", "loop"} =>
    \A h \in Mapping :
      /\ mapping[h] # 0 => mapping[h] < node /\ h \in Slots(cfg.nodes[mapping[h]])
      /\ mapping[h] = 0 => \A i \in 1 .. node - 1 : h \notin Slots(cfg.nodes[i])

Early == \A t \in Threads : at[t] = "using" /\ by[t] = "key" => t \in early

StartupInv == StartupTypeOK /\ Fresh /\ Accepted /\ Opened /\ Mapped /\ Early

-----------------------------------------------------------------------------
(* The operators *)

\* The databases of the configuration are found by their names.
LEMMA DatabaseFound ==
  ASSUME StartupTypeOK, RangesOK(cfg), opened = Len(cfg.nodes), node <= Len(cfg.nodes)
  PROVE  Database(cfg.nodes[node].name) = node
<1>1. /\ cfg.nodes \in Seq(Node) /\ node \in 1..Len(cfg.nodes) /\ opened \in Nat
      /\ DOMAIN cfg.nodes = 1..Len(cfg.nodes)
  BY DEF StartupTypeOK, Cfg
<1>2. \A i, k \in 1..Len(cfg.nodes) : k < i => cfg.nodes[k].name # cfg.nodes[i].name
  BY <1>1 DEF RangesOK, Named
<1>3. \A i \in 1..opened : cfg.nodes[i].name = cfg.nodes[node].name <=> i = node
  BY <1>1, <1>2
<1> QED
  BY <1>1, <1>3 DEF Database

\* No slot belongs to two nodes.
LEMMA NodesApart ==
  ASSUME NEW c \in Cfg, RangesOK(c),
         NEW i \in DOMAIN c.nodes, NEW k \in DOMAIN c.nodes, NEW h,
         h \in Slots(c.nodes[i]), h \in Slots(c.nodes[k])
  PROVE  i = k
<1>1. DOMAIN c.nodes \subseteq Int
  BY DEF Cfg
<1>2. Apart(c, i) /\ Apart(c, k)
  BY DEF RangesOK
<1>3. CASE i < k
  BY <1>1, <1>2, <1>3, DOMAIN c.nodes = 1..Len(c.nodes) DEF Apart, Cfg
<1>4. CASE k < i
  BY <1>1, <1>2, <1>4, DOMAIN c.nodes = 1..Len(c.nodes) DEF Apart, Cfg
<1> QED
  BY <1>1, <1>3, <1>4

-----------------------------------------------------------------------------
LEMMA InitHolds == Init => StartupInv
<1> SUFFICES ASSUME Init PROVE StartupInv
  OBVIOUS
<1>1. Defaults \in Cfg
  BY ConfigAssumption DEF Defaults, Cfg
<1>2. Unmapped \in [Mapping -> 0..0]
  BY DEF Unmapped
<1>3. Len(Defaults.nodes) = 0
  BY DEF Defaults
<1>4. /\ mapping \in [Mapping -> 0..opened]
      /\ held \in [Threads -> 0..opened]
      /\ opened \in 0..Len(cfg.nodes) /\ deleted \in 0..opened /\ node \in 1..Len(cfg.nodes) + 1
  BY <1>2, <1>3 DEF Init
<1> MaxSignals \in Nat /\ MaxKills \in Nat
  BY StartupAssumption
<1>5. /\ cfg \in Cfg /\ guard = "none" /\ main = "load" /\ status = 0 /\ early = {} /\ cancelled = {}
      /\ started = FALSE /\ listening = FALSE /\ exit = FALSE /\ clients = FALSE
      /\ signals \in 0..MaxSignals /\ kills \in 0..MaxKills
  BY <1>1 DEF Init
<1>6. at \in [Threads -> {"off", "created", "idle", "using"}] /\ by \in [Threads -> {"key", "list"}]
  BY DEF Init
<1>8. /\ step \in [Signals -> {"off", "remove", "close", "exit", "log"}]
      /\ within \in [Signals -> Threads \cup {Main}] /\ stuck \subseteq Threads \cup {Main}
  BY DEF Init
<1>7. StartupTypeOK
  BY <1>4, <1>5, <1>6, <1>8 DEF StartupTypeOK, MainStage
<1> QED
  BY <1>7 DEF Init, StartupInv, Fresh, Accepted, Opened, Mapped, Early

\* A process that dies leaves nothing but what it was started with.
LEMMA DiesHolds ==
  ASSUME StartupInv, NEW code \in Nat \cup {-1}, Dies(code),
         RangesOK(cfg), guard # "fork",
         cfg' = cfg, guard' = guard, signals' \in 0..MaxSignals, kills' \in 0..MaxKills
  PROVE  StartupInv'
<1>1. Unmapped \in [Mapping -> 0..0]
  BY DEF Unmapped
<1>2. cfg \in Cfg /\ Len(cfg.nodes) \in Nat
  BY DEF StartupInv, StartupTypeOK, Cfg
<1>3. /\ mapping' \in [Mapping -> 0..opened']
      /\ held' \in [Threads -> 0..opened']
      /\ opened' \in 0..Len(cfg'.nodes) /\ deleted' \in 0..opened' /\ node' \in 1..Len(cfg'.nodes) + 1
  BY <1>1, <1>2 DEF Dies
<1>5. /\ step' \in [Signals -> {"off", "remove", "close", "exit", "log"}]
      /\ within' \in [Signals -> Threads \cup {Main}] /\ stuck' \subseteq Threads \cup {Main}
  BY DEF Dies
<1>4. StartupTypeOK'
  BY <1>3, <1>5 DEF Dies, StartupInv, StartupTypeOK, MainStage
<1> QED
  BY <1>4 DEF Dies, StartupInv, Fresh, Accepted, Opened, Mapped, Early, RangesOK

LEMMA MapNodeHolds ==
  ASSUME StartupInv, MapNode
  PROVE  StartupInv'
<1>1. /\ StartupTypeOK /\ RangesOK(cfg) /\ opened = Len(cfg.nodes)
      /\ node \in 1..Len(cfg.nodes) /\ Len(cfg.nodes) \in Nat /\ main = "map"
  BY DEF StartupInv, Accepted, Opened, MapNode, StartupTypeOK, Cfg
<1>2. Database(cfg.nodes[node].name) = node
  BY <1>1, DatabaseFound
<1>3. mapping' = [h \in Mapping |-> IF h \in Slots(cfg.nodes[node]) THEN node ELSE mapping[h]]
  BY <1>2 DEF MapNode
<1>4. mapping' \in [Mapping -> 0..opened]
  BY <1>1, <1>3 DEF StartupTypeOK
<1>5. StartupTypeOK'
  BY <1>1, <1>4 DEF MapNode, StartupTypeOK, server, threads, uses, handlers, bounds
<1>6. Mapped'
  <2> SUFFICES ASSUME NEW h \in Mapping
               PROVE  /\ mapping'[h] # 0 => mapping'[h] < node + 1 /\ h \in Slots(cfg.nodes[mapping'[h]])
                      /\ mapping'[h] = 0 => \A i \in 1..node : h \notin Slots(cfg.nodes[i])
    BY <1>1 DEF MapNode, Mapped, Slots
  <2>1. /\ mapping[h] \in 0..opened
        /\ mapping[h] # 0 => mapping[h] < node /\ h \in Slots(cfg.nodes[mapping[h]])
        /\ mapping[h] = 0 => \A i \in 1 .. node - 1 : h \notin Slots(cfg.nodes[i])
    BY <1>1 DEF StartupInv, Mapped, StartupTypeOK
  <2>2. CASE h \in Slots(cfg.nodes[node])
    BY <1>1, <1>3, <2>2
  <2>3. CASE h \notin Slots(cfg.nodes[node])
    <3>1. mapping'[h] = mapping[h]
      BY <1>3, <2>3
    <3>2. \A i \in 1..node : i \in 1 .. node - 1 \/ i = node
      BY <1>1
    <3> QED
      BY <1>1, <2>1, <2>3, <3>1, <3>2
  <2> QED
    BY <2>2, <2>3
<1> QED
  BY <1>1, <1>5, <1>6 DEF StartupInv, Fresh, Accepted, Opened, Early, MapNode, RangesOK, threads, uses

\* The steps of the main thread and of the guard that leave the threads and the
\* mapping alone.
LEMMA MainHolds ==
  ASSUME StartupInv,
         \/ Load \/ Check \/ Fork \/ ForkFails \/ Waited \/ Begin \/ OpenDb \/ Listen
         \/ LoopExits \/ Accept \/ DeleteDb \/ Stopped \/ SignalGuard
  PROVE  StartupInv'
<1> cfg \in Cfg /\ Len(cfg.nodes) \in Nat
  BY DEF StartupInv, StartupTypeOK, Cfg
<1> USE DEF databases, server, threads, uses, handlers, bounds
<1>1. CASE Load
  <2>1. cfg' \in Cfg /\ Len(cfg'.nodes) \in Nat
    BY <1>1, StartupAssumption DEF Load, Cfg
  <2>2. StartupTypeOK'
    BY <1>1, <2>1 DEF Load, StartupInv, Fresh, StartupTypeOK, MainStage, Unmapped
  <2> QED
    BY <1>1, <2>2 DEF Load, StartupInv, Fresh, Accepted, Opened, Mapped, Early
<1>2. CASE Check
  <2>1. main' # "refused" => RangesOK(cfg)
    BY <1>2 DEF Check, IsValid
  <2>2. StartupTypeOK'
    BY <1>2 DEF Check, StartupInv, StartupTypeOK, MainStage
  <2> QED
    BY <1>2, <2>1, <2>2 DEF Check, StartupInv, Fresh, Accepted, Opened, Mapped, Early, RangesOK
<1>3. CASE Fork \/ ForkFails \/ Waited \/ SignalGuard
  <2>1. /\ guard' \in {"none", "fork", "wait", "done", "failed", "killed"}
        /\ main' = main \/ main' = "begin"
        /\ signals' \in 0..MaxSignals
    BY <1>3, StartupAssumption DEF Fork, ForkFails, Waited, SignalGuard, StartupInv, StartupTypeOK
  <2>2. StartupTypeOK'
    BY <1>3, <2>1 DEF Fork, ForkFails, Waited, SignalGuard, StartupInv, StartupTypeOK, MainStage
  <2> QED
    BY <1>3, <2>2 DEF Fork, ForkFails, Waited, SignalGuard, StartupInv, Fresh, Accepted, Opened,
                      Mapped, Early, RangesOK
<1>4. CASE Begin \/ Listen \/ LoopExits \/ Accept \/ Stopped
  <2>1. StartupTypeOK'
    BY <1>4 DEF Begin, Listen, LoopExits, Accept, Stopped, StartupInv, StartupTypeOK, MainStage
  <2> QED
    BY <1>4, <2>1 DEF Begin, Listen, LoopExits, Accept, Stopped, StartupInv, Fresh, Accepted, Opened,
                      Mapped, Early, RangesOK, Slots
<1>5. CASE OpenDb
  <2>1. opened' \in 0..Len(cfg.nodes) /\ opened <= opened'
    BY <1>5 DEF OpenDb, StartupInv, StartupTypeOK
  <2>2. mapping' \in [Mapping -> 0..opened'] /\ held' \in [Threads -> 0..opened'] /\ deleted' \in 0..opened'
    BY <1>5, <2>1 DEF OpenDb, StartupInv, StartupTypeOK
  <2>3. StartupTypeOK'
    BY <1>5, <2>1, <2>2 DEF OpenDb, StartupInv, StartupTypeOK, MainStage
  <2> QED
    BY <1>5, <2>3 DEF OpenDb, StartupInv, Fresh, Accepted, Opened, Mapped, Early, RangesOK
<1>6. CASE DeleteDb
  <2>1. StartupTypeOK'
    BY <1>6 DEF DeleteDb, StartupInv, StartupTypeOK, MainStage
  <2> QED
    BY <1>6, <2>1 DEF DeleteDb, StartupInv, Fresh, Accepted, Opened, Mapped, Early, RangesOK
<1> QED
  BY <1>1, <1>2, <1>3, <1>4, <1>5, <1>6

\* The steps that change what threads do, and the stop of the cluster.
LEMMA ThreadsHold ==
  ASSUME StartupInv,
         \/ StartPool \/ ClusterStarted \/ StartServices \/ StopPool \/ ClearMapping \/ Terminate
         \/ \E t \in Threads : Runs(t) \/ Used(t) \/ Cancelled(t)
  PROVE  StartupInv'
<1> cfg \in Cfg /\ Len(cfg.nodes) \in Nat
  BY DEF StartupInv, StartupTypeOK, Cfg
<1> USE DEF databases, server, threads, uses, handlers, bounds
<1>1. CASE StartPool \/ ClusterStarted \/ StartServices \/ StopPool
  <2>1. at' \in [Threads -> {"off", "created", "idle", "using"}]
    BY <1>1 DEF StartPool, ClusterStarted, StartServices, StopPool, StartupInv, StartupTypeOK
  <2>2. \A t \in Threads : at'[t] = "using" => at[t] = "using"
    BY <1>1 DEF StartPool, ClusterStarted, StartServices, StopPool, StartupInv, StartupTypeOK
  <2>3. StartupTypeOK'
    BY <1>1, <2>1 DEF StartPool, ClusterStarted, StartServices, StopPool, StartupInv, StartupTypeOK, MainStage
  <2>4. Early'
    BY <1>1, <2>2 DEF StartPool, ClusterStarted, StartServices, StopPool, StartupInv, Early
  <2>5. Mapped'
    BY <1>1 DEF StartPool, ClusterStarted, StartServices, StopPool, StartupInv, StartupTypeOK, Mapped,
                Opened, Unmapped, Slots
  <2>6. Accepted' /\ Fresh'
    BY <1>1 DEF StartPool, ClusterStarted, StartServices, StopPool, StartupInv, Fresh, Accepted, RangesOK
  <2>7. Opened'
    <3>1. CASE StartPool
      BY <3>1 DEF StartPool, StartupInv, Fresh, Opened
    <3>2. CASE ClusterStarted
      BY <3>2 DEF ClusterStarted, StartupInv, Opened
    <3>3. CASE StartServices
      BY <3>3 DEF StartServices, StartupInv, StartupTypeOK, Opened
    <3>4. CASE StopPool
      BY <3>4 DEF StopPool, StartupInv, Opened
    <3> QED
      BY <1>1, <3>1, <3>2, <3>3, <3>4
  <2> QED
    BY <2>3, <2>4, <2>5, <2>6, <2>7 DEF StartupInv
<1>2. CASE ClearMapping \/ Terminate
  <2>1. mapping' \in [Mapping -> 0..opened] /\ cancelled' \subseteq {TTL}
    BY <1>2 DEF ClearMapping, Terminate, StartupInv, StartupTypeOK, Unmapped
  <2>2. StartupTypeOK'
    BY <1>2, <2>1 DEF ClearMapping, Terminate, StartupInv, StartupTypeOK, MainStage
  <2> QED
    BY <1>2, <2>2 DEF ClearMapping, Terminate, StartupInv, Fresh, Accepted, Opened, Mapped, Early, RangesOK
<1>3. CASE \E t \in Threads : Runs(t) \/ Used(t) \/ Cancelled(t)
  <2> PICK t \in Threads : Runs(t) \/ Used(t) \/ Cancelled(t)
    BY <1>3
  <2>1. /\ at' \in [Threads -> {"off", "created", "idle", "using"}]
        /\ held' \in [Threads -> 0..opened]
        /\ early' \subseteq Threads
    <3>1. CASE Runs(t)
      BY <3>1 DEF Runs, StartupInv, StartupTypeOK
    <3>2. CASE Used(t)
      BY <3>2 DEF Used, StartupInv, StartupTypeOK
    <3>3. CASE Cancelled(t)
      BY <3>3 DEF Cancelled, StartupInv, StartupTypeOK
    <3> QED
      BY <3>1, <3>2, <3>3
  <2>2. StartupTypeOK'
    BY <2>1 DEF Runs, Used, Cancelled, StartupInv, StartupTypeOK
  <2>3. Early'
    BY DEF Runs, Used, Cancelled, StartupInv, StartupTypeOK, Early
  <2> QED
    BY <2>2, <2>3 DEF Runs, Used, Cancelled, StartupInv, Fresh, Accepted, Opened, Mapped, RangesOK, Slots
<1> QED
  BY <1>1, <1>2, <1>3

\* A thread finds a database by a key only while there is a mapping.
LEMMA UsesHolds ==
  ASSUME StartupInv, NEW t \in Threads, MapToDatabase(t) \/ WalkDatabases(t)
  PROVE  StartupInv'
<1>1. /\ cfg \in Cfg /\ Len(cfg.nodes) \in Nat
      /\ RangesOK(cfg) /\ main \notin {"load", "check", "refused"}
  BY DEF StartupInv, StartupTypeOK, Cfg, Accepted, Fresh, MapToDatabase, WalkDatabases, Works
<1>2. PICK i \in 1..opened, how \in {"key", "list"} :
        /\ Uses(t, i, how)
        /\ how = "key" => mapping # Unmapped
  <2>1. CASE MapToDatabase(t)
    <3>1. PICK h \in 0 .. cfg.hash_value_max - 1 : mapping[h] # 0 /\ Uses(t, mapping[h], "key")
      BY <2>1 DEF MapToDatabase
    <3>2. h \in Mapping
      BY <1>1, ConfigAssumption DEF RangesOK, Cfg, Mapping
    <3>3. mapping # Unmapped /\ mapping[h] \in 1..opened
      BY <3>1, <3>2 DEF Unmapped, StartupInv, StartupTypeOK
    <3> QED
      BY <3>1, <3>3
  <2> QED
    BY <2>1 DEF WalkDatabases
<1>3. how = "key" => main \notin {"terminate", "delete", "leave", "return"}
  BY <1>2 DEF StartupInv, Opened
<1>4. /\ at' \in [Threads -> {"off", "created", "idle", "using"}]
      /\ held' \in [Threads -> 0..opened] /\ by' \in [Threads -> {"key", "list"}]
      /\ early' \subseteq Threads
  BY <1>2 DEF Uses, StartupInv, StartupTypeOK
<1>5. UNCHANGED <<cfg, guard, main, status, databases, server, cancelled, handlers, bounds>>
  BY DEF MapToDatabase, WalkDatabases
<1>6. StartupTypeOK'
  BY <1>4, <1>5 DEF StartupInv, StartupTypeOK, databases, server, handlers, bounds
<1>7. Early'
  BY <1>2, <1>3, <1>5 DEF Uses, StartupInv, StartupTypeOK, Early
<1> QED
  BY <1>1, <1>5, <1>6, <1>7 DEF StartupInv, Fresh, Accepted, Opened, Mapped, RangesOK, Slots, databases

\* The ends of the process, and a signal that finds the handler installed.
LEMMA EndsHold ==
  ASSUME StartupInv, \/ Return \/ Killed \/ Signal
                     \/ \E t \in Threads : MapToNothing(t)
  PROVE  StartupInv'
<1>1. main \notin {"none", "dead", "load", "check", "refused"} => guard # "fork" /\ RangesOK(cfg)
  BY DEF StartupInv, Accepted
<1>2. CASE Return
  BY <1>1, <1>2, DiesHolds DEF Return, StartupInv, StartupTypeOK, bounds
<1>3. CASE Killed
  <2>1. /\ Dies(-1) /\ cfg' = cfg /\ guard' = guard /\ signals' = signals
        /\ main \notin {"none", "dead", "load", "check", "refused"}
        /\ kills < MaxKills /\ kills' = kills + 1
    BY <1>3 DEF Killed, Alive
  <2>2. signals' \in 0..MaxSignals /\ kills' \in 0..MaxKills
    BY <2>1, StartupAssumption DEF StartupInv, StartupTypeOK
  <2>3. RangesOK(cfg) /\ guard # "fork" /\ -1 \in Nat \cup {-1}
    BY <1>1, <2>1
  <2> QED
    BY <2>1, <2>2, <2>3, DiesHolds
<1>4. CASE \E t \in Threads : MapToNothing(t)
  <2>1. PICK t \in Threads : MapToNothing(t)
    BY <1>4
  <2>2. main \notin {"none", "dead", "load", "check", "refused"}
    BY <2>1 DEF MapToNothing, Works, StartupInv, Fresh
  <2> QED
    BY <1>1, <2>1, <2>2, DiesHolds DEF MapToNothing, StartupInv, StartupTypeOK, bounds
<1>5. CASE Signal /\ main = "begin"
  <2>1. /\ Dies(-1) /\ cfg' = cfg /\ guard' = guard /\ kills' = kills
        /\ signals < MaxSignals /\ signals' = signals + 1
    BY <1>5 DEF Signal
  <2>2. signals' \in 0..MaxSignals /\ kills' \in 0..MaxKills
    BY <2>1, StartupAssumption DEF StartupInv, StartupTypeOK
  <2>3. RangesOK(cfg) /\ guard # "fork" /\ -1 \in Nat \cup {-1}
    BY <1>1, <1>5
  <2> QED
    BY <2>1, <2>2, <2>3, DiesHolds
<1>6. CASE Signal /\ main # "begin"
  <2>1. signals' \in Signals /\ signals' \in 0..MaxSignals
    BY <1>6, StartupAssumption DEF Signal, Signals, StartupInv, StartupTypeOK
  <2>2. PICK t \in Threads \cup {Main} :
          /\ within' = [within EXCEPT ![signals'] = t]
          /\ step' = [step EXCEPT ![signals'] = "remove"]
    BY <1>6 DEF Signal
  <2>3. /\ step' \in [Signals -> {"off", "remove", "close", "exit", "log"}]
        /\ within' \in [Signals -> Threads \cup {Main}]
    BY <2>1, <2>2 DEF StartupInv, StartupTypeOK
  <2>4. UNCHANGED <<cfg, guard, main, status, databases, server, threads, stuck, kills>>
    BY <1>6 DEF Signal
  <2>5. StartupTypeOK'
    BY <2>1, <2>3, <2>4 DEF StartupInv, StartupTypeOK, databases, server, threads, uses
  <2> QED
    BY <2>4, <2>5 DEF StartupInv, Fresh, Accepted, Opened, Mapped, Early, RangesOK, Slots, databases, threads, uses
<1> QED
  BY <1>2, <1>3, <1>4, <1>5, <1>6

\* The handler changes what the main thread listens to, and nothing of the databases.
LEMMA HandlersHold ==
  ASSUME StartupInv, \/ \E s \in Signals : Handler(s)
                     \/ \E t \in Threads \cup {Main} : Blocks(t)
  PROVE  StartupInv'
<1>1. /\ UNCHANGED <<cfg, guard, main, status, databases, clients, threads, within, bounds>>
      /\ listening' \in BOOLEAN /\ exit' \in BOOLEAN
      /\ step' \in [Signals -> {"off", "remove", "close", "exit", "log"}]
      /\ stuck' \subseteq Threads \cup {Main}
  <2>1. /\ listening \in BOOLEAN /\ exit \in BOOLEAN /\ stuck \subseteq Threads \cup {Main}
        /\ step \in [Signals -> {"off", "remove", "close", "exit", "log"}]
        /\ within \in [Signals -> Threads \cup {Main}]
    BY DEF StartupInv, StartupTypeOK
  <2>2. ASSUME NEW s \in Signals, NEW here, NEW next \in {"off", "close", "exit", "log"},
               Goes(s, here, next)
        PROVE  /\ UNCHANGED <<cfg, guard, main, status, databases, clients, threads, within, stuck, bounds>>
               /\ step' \in [Signals -> {"off", "remove", "close", "exit", "log"}]
    BY <2>1, <2>2 DEF Goes
  <2>3. ASSUME NEW s \in Signals, RemoveListener(s) \/ CloseListener(s) \/ ExitLoop(s) \/ LogStop(s)
        PROVE  \E here : \E next \in {"off", "close", "exit", "log"} :
                 Goes(s, here, next) /\ listening' \in BOOLEAN /\ exit' \in BOOLEAN
    BY <2>1, <2>3 DEF RemoveListener, CloseListener, ExitLoop, LogStop
  <2>4. CASE \E s \in Signals : RemoveListener(s) \/ CloseListener(s) \/ ExitLoop(s) \/ LogStop(s)
    BY <2>1, <2>2, <2>3, <2>4
  <2>5. CASE \E s \in Signals : Sticks(s)
    BY <2>1, <2>5 DEF Sticks, server
  <2>6. CASE \E t \in Threads \cup {Main} : Blocks(t)
    BY <2>1, <2>6 DEF Blocks, server
  <2> QED
    BY <2>4, <2>5, <2>6 DEF Handler
<1>2. StartupTypeOK'
  BY <1>1 DEF StartupInv, StartupTypeOK, databases, threads, uses, bounds
<1> QED
  BY <1>1, <1>2 DEF StartupInv, Fresh, Accepted, Opened, Mapped, Early, RangesOK, Slots, databases, threads, uses

\* The inductive invariant: before the check nothing runs; behind it the ranges are
\* sound, the table holds what the nodes mapped so far say, and all databases are
\* open and mapped before the server listens.
THEOREM StartupInvariant == Spec => []StartupInv
<1>1. StartupInv /\ [Next]_vars => StartupInv'
  <2> SUFFICES ASSUME StartupInv, [Next]_vars PROVE StartupInv'
    OBVIOUS
  <2>1. CASE UNCHANGED vars
    BY <2>1 DEF vars, databases, server, threads, uses, handlers, bounds, StartupInv, StartupTypeOK, Fresh, Accepted,
                Opened, Mapped, Early, RangesOK, Slots
  <2>2. CASE Next
    BY <2>2, MainHolds, MapNodeHolds, ThreadsHold, UsesHolds, EndsHold, HandlersHold
       DEF Next, MainThread, Guard, Thread
  <2> QED
    BY <2>1, <2>2
<1> QED
  BY InitHolds, <1>1, PTL DEF Spec

\* Type correctness, for every configuration and every number of threads.
THEOREM StartupTyping == Spec => []StartupTypeOK
<1>1. StartupInv => StartupTypeOK
  BY DEF StartupInv
<1> QED
  BY StartupInvariant, <1>1, PTL

\* While commands are served, every hash value leads to the open database of the one
\* db_node it belongs to: any ranges and names the checker accepts are as good as
\* the documented ones.
THEOREM StartupMapping == Spec => []KeysFindTheirDatabase
<1>1. StartupInv => KeysFindTheirDatabase
  <2> SUFFICES ASSUME StartupInv, Serving, NEW h \in 0 .. cfg.hash_value_max - 1
               PROVE  /\ mapping[h] \in 1..opened /\ mapping[h] > deleted
                      /\ \A i \in DOMAIN cfg.nodes : h \in Slots(cfg.nodes[i]) <=> i = mapping[h]
    BY DEF KeysFindTheirDatabase
  <2>1. /\ cfg \in Cfg /\ RangesOK(cfg) /\ deleted = 0 /\ Len(cfg.nodes) \in Nat
        /\ opened = Len(cfg.nodes) /\ node = Len(cfg.nodes) + 1 /\ DOMAIN cfg.nodes = 1..Len(cfg.nodes)
    BY DEF Serving, StartupInv, Accepted, Opened, StartupTypeOK, Cfg
  <2>2. h \in Mapping
    BY <2>1, ConfigAssumption DEF RangesOK, Cfg, Mapping
  <2>3. /\ mapping[h] \in 0..opened
        /\ mapping[h] # 0 => h \in Slots(cfg.nodes[mapping[h]])
        /\ mapping[h] = 0 => \A i \in 1..Len(cfg.nodes) : h \notin Slots(cfg.nodes[i])
    BY <2>1, <2>2 DEF Serving, StartupInv, Mapped, StartupTypeOK
  <2>4. \E i \in DOMAIN cfg.nodes : h \in Slots(cfg.nodes[i])
    BY <2>1 DEF RangesOK, Complete
  <2>5. mapping[h] \in 1..opened /\ h \in Slots(cfg.nodes[mapping[h]])
    BY <2>1, <2>3, <2>4
  <2>6. \A i \in DOMAIN cfg.nodes : h \in Slots(cfg.nodes[i]) => i = mapping[h]
    BY <2>1, <2>5, NodesApart
  <2> QED
    BY <2>1, <2>5, <2>6
<1> QED
  BY StartupInvariant, <1>1, PTL

\* Whoever uses a deleted database that it has found by a key found it before stop()
\* cleared the mapping.
THEOREM StartupLookups == Spec => []LookedUpBefore
<1>1. StartupInv => LookedUpBefore
  BY DEF StartupInv, Early, LookedUpBefore
<1> QED
  BY StartupInvariant, <1>1, PTL

=============================================================================
