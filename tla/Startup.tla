-------------------------------- MODULE Startup --------------------------------
(***************************************************************************)
(* Start and stop of the server (src/src/main.cpp, leveldb.cpp,            *)
(* redisproxy.cpp, util/tcpserver.cpp, eventloop.cpp, util/thread.cpp) and *)
(* the guard that starts it again (non-portable.cpp).                      *)
(*                                                                         *)
(* startOneValue keeps everything on its stack and leaves it to the        *)
(* destructors, which run in the reverse order: the databases are deleted  *)
(* while the event loops, the slave thread and, as pthread_cancel does not *)
(* wait, the expiry thread may still use them.                             *)
(*                                                                         *)
(* The handler of SIGTERM and SIGINT does its work in whatever thread is   *)
(* interrupted: it stops the listener, allocates an event and writes a log *)
(* line.  A thread that is itself inside libevent, malloc or localtime     *)
(* may then wait for its own lock.                                         *)
(***************************************************************************)
EXTENDS Config

CONSTANTS
  Documents,           \* the files the program may be started with
  MaxThreadCount, DefaultThreadCount,
  ExitKey,             \* APP_EXIT_KEY
  TTL, SyncThread, TopKeyThread,
  MaxSignals, MaxKills \* bounds

ASSUME StartupAssumption ==
  /\ \A d \in Documents : LoadCfg(d) \in Cfg
  /\ MaxThreadCount \in Nat
  /\ DefaultThreadCount \in 1..MaxThreadCount
  /\ Cardinality({TTL, SyncThread, TopKeyThread}) = 3
  /\ {TTL, SyncThread, TopKeyThread} \cap Int = {}
  /\ ExitKey \in Nat \ {0}
  /\ MaxSignals \in Nat /\ MaxKills \in Nat

Loops   == 1..MaxThreadCount
Threads == Loops \cup {TTL, SyncThread, TopKeyThread}
Main    == 0   \* the main thread
Signals == 1..MaxSignals

VARIABLES
  cfg,
  guard,       \* the guarding process: "none", "fork", "wait", or why it has ended
  main,        \* where the main thread is
  status,      \* how the server process ended: an exit code, or -1 for a signal
  opened,      \* m_dbs.size()
  deleted,     \* databases deleted by stop(), the first ones
  started,     \* m_started
  node,        \* the next db_node to map
  mapping,     \* m_hashMapping: a position in m_dbs, or 0
  listening,   \* isRunning() of the TcpServer
  exit,        \* event_base_loopexit was called for the main loop
  clients,     \* some connection has been accepted
  at,          \* threads: "off", "created", "idle", "using" a database
  held,        \* the database a thread uses
  by,          \* found it by the "key", or in the "list" of databases
  early,       \* threads that found it before the mapping was cleared (history)
  cancelled,   \* threads that pthread_cancel was called for
  step, within, \* the handler's next step for a signal, and the interrupted thread
  stuck,       \* threads that wait for a lock of a library for ever
  signals, kills

databases == <<opened, deleted, started, node, mapping>>
server    == <<listening, exit, clients>>
uses      == <<held, by, early>>
threads   == <<at, uses, cancelled>>
handlers  == <<step, within, stuck>>
bounds    == <<signals, kills>>
vars      == <<cfg, guard, main, status, databases, server, threads, handlers, bounds>>

Mapping == 0 .. HashLimit - 1
Unmapped == [h \in Mapping |-> 0]

-----------------------------------------------------------------------------
(* main *)

Load ==
  /\ main = "load"
  /\ \E d \in Documents : cfg' = LoadCfg(d)
  /\ main' = "check"
  /\ UNCHANGED <<guard, status, databases, server, threads, handlers, bounds>>

Check ==
  /\ main = "check"
  /\ \E ok \in IsValid(cfg) :
       IF ~ok THEN main' = "refused" /\ guard' = guard
       ELSE IF cfg.guard THEN main' = "none" /\ guard' = "fork"
       ELSE main' = "begin" /\ guard' = guard
  /\ UNCHANGED <<cfg, status, databases, server, threads, handlers, bounds>>

-----------------------------------------------------------------------------
(* NonPortable::guard *)

Fork ==
  /\ guard = "fork"
  /\ guard' = "wait"
  /\ main' = "begin"
  /\ UNCHANGED <<cfg, status, databases, server, threads, handlers, bounds>>

ForkFails ==
  /\ guard = "fork"
  /\ guard' = "failed"
  /\ UNCHANGED <<cfg, main, status, databases, server, threads, handlers, bounds>>

ForExit(code) == code # -1   \* plausible mistake
ForKey(code)  == code = ExitKey

Waited ==
  /\ guard = "wait" /\ main = "dead"
  /\ guard' = IF ForKey(status) THEN "done" ELSE "fork"
  /\ UNCHANGED <<cfg, main, status, databases, server, threads, handlers, bounds>>

-----------------------------------------------------------------------------
(* startOneValue *)

Begin ==
  /\ main = "begin"
  /\ main' = "pool"
  /\ UNCHANGED <<cfg, guard, status, databases, server, threads, handlers, bounds>>

PoolSize == IF cfg.thread_num \in Loops THEN cfg.thread_num ELSE DefaultThreadCount

StartPool ==
  /\ main = "pool"
  /\ main' = "open"
  /\ at' = [t \in Threads |-> IF t \in 1..PoolSize THEN "created" ELSE at[t]]
  /\ UNCHANGED <<cfg, guard, status, databases, server, uses, cancelled, handlers, bounds>>

\* LeveldbCluster::start; what has been opened when one fails is not closed.
OpenDb ==
  /\ main = "open" /\ opened < Len(cfg.nodes)
  /\ \/ opened' = opened + 1 /\ main' = main
     \/ opened' = opened /\ main' = "leave"
  /\ UNCHANGED <<cfg, guard, status, deleted, started, node, mapping, server, threads, handlers, bounds>>

ClusterStarted ==
  /\ main = "open" /\ opened = Len(cfg.nodes)
  /\ started' = TRUE
  /\ at' = [at EXCEPT ![TTL] = "created"]
  /\ main' = "map"
  /\ UNCHANGED <<cfg, guard, status, opened, deleted, node, mapping, server, uses, cancelled, handlers, bounds>>

\* setMapping for the slots of a node.
Database(name) == CHOOSE i \in 1..opened : cfg.nodes[i].name = name

MapNode ==
  /\ main = "map" /\ node <= Len(cfg.nodes)
  /\ mapping' = [h \in Mapping |-> IF h \in Slots(cfg.nodes[node]) THEN Database(cfg.nodes[node].name)
                                   ELSE mapping[h]]
  /\ node' = node + 1
  /\ UNCHANGED <<cfg, guard, main, status, opened, deleted, started, server, threads, handlers, bounds>>

StartServices ==
  /\ main = "map" /\ node > Len(cfg.nodes)
  /\ at' = [t \in Threads |-> IF \/ t = SyncThread /\ cfg.ip # NoText
                                 \/ t = TopKeyThread /\ cfg.top_key
                              THEN "created" ELSE at[t]]
  /\ main' = "run"
  /\ UNCHANGED <<cfg, guard, status, databases, server, uses, cancelled, handlers, bounds>>

\* TcpServer::run, up to exec.
Listen ==
  /\ main = "run"
  /\ \/ listening' = TRUE /\ main' = "loop"
     \/ listening' = listening /\ main' = "clear"
  /\ UNCHANGED <<cfg, guard, status, databases, exit, clients, threads, handlers, bounds>>

Accept ==
  /\ main = "loop" /\ listening /\ ~clients /\ \A s \in Signals : step[s] # "close"
  /\ clients' = TRUE
  /\ UNCHANGED <<cfg, guard, main, status, databases, listening, exit, threads, handlers, bounds>>

LoopExits ==
  /\ main = "loop" /\ exit
  /\ main' = "clear"
  /\ UNCHANGED <<cfg, guard, status, databases, server, threads, handlers, bounds>>
-----------------------------------------------------------------------------
(* The destructors of what startOneValue has on its stack *)

\* Plausible mistakes: the mapping is left, a database too many is deleted.
LeaveMapping ==
  /\ main = "clear"
  /\ main' = "terminate"
  /\ UNCHANGED <<cfg, guard, status, databases, server, threads, handlers, bounds>>

DeleteOneMore ==
  /\ main = "delete"
  /\ deleted <= opened
  /\ deleted' = deleted + 1
  /\ UNCHANGED <<cfg, guard, main, status, opened, started, node, mapping, server, threads, handlers, bounds>>

\* LeveldbCluster::stop, which does nothing if start has failed:
ClearMapping ==
  /\ main = "clear"
  /\ mapping' = Unmapped
  /\ main' = "terminate"
  /\ UNCHANGED <<cfg, guard, status, opened, deleted, started, node, server, threads, handlers, bounds>>

\* Thread::terminate only cancels a thread that has come to say it runs,
Terminate ==
  /\ main = "terminate"
  /\ cancelled' = IF at[TTL] \in {"idle", "using"} THEN cancelled \cup {TTL} ELSE cancelled
  /\ main' = "delete"
  /\ UNCHANGED <<cfg, guard, status, databases, server, at, uses, handlers, bounds>>

\* and nothing waits for it.
DeleteDb ==
  /\ main = "delete"
  /\ deleted < opened
  /\ deleted' = deleted + 1
  /\ UNCHANGED <<cfg, guard, main, status, opened, started, node, mapping, server, threads, handlers, bounds>>

Stopped ==
  /\ main = "delete" /\ deleted = opened
  /\ started' = FALSE
  /\ main' = "leave"
  /\ UNCHANGED <<cfg, guard, status, opened, deleted, node, mapping, server, threads, handlers, bounds>>

\* EventLoopThreadPool::stop: loops that are idle may come to their end.
StopPool ==
  /\ main = "leave"
  /\ main' = "return"
  /\ \E left \in SUBSET {t \in Loops : at[t] = "idle"} :
       at' = [t \in Threads |-> IF t \in left THEN "off" ELSE at[t]]
  /\ UNCHANGED <<cfg, guard, status, databases, server, uses, cancelled, handlers, bounds>>

\* The process ends, and with it all its threads.
Dies(code) ==
  /\ main' = "dead"
  /\ status' = code
  /\ opened' = 0 /\ deleted' = 0 /\ started' = FALSE /\ node' = 1 /\ mapping' = Unmapped
  /\ listening' = FALSE /\ exit' = FALSE /\ clients' = FALSE
  /\ at' = [t \in Threads |-> "off"]
  /\ held' = [t \in Threads |-> 0]
  /\ by' = [t \in Threads |-> "key"]
  /\ early' = {} /\ cancelled' = {}
  /\ step' = [s \in Signals |-> "off"] /\ within' = [s \in Signals |-> Main] /\ stuck' = {}

Return ==
  /\ main = "return"
  /\ Dies(0)
  /\ UNCHANGED <<cfg, guard, bounds>>

-----------------------------------------------------------------------------
(* SIGTERM and SIGINT, and other ends of the process *)

Alive == main \notin {"load", "check", "refused", "none", "dead"}

\* Before main has installed the handler, a signal ends the process.
Signal ==
  /\ Alive /\ signals < MaxSignals
  /\ signals' = signals + 1
  /\ \/ main = "begin" /\ Dies(-1)
     \/ /\ main # "begin"
        /\ step' = [step EXCEPT ![signals'] = "remove"]
        /\ \E t \in {Main} \cup {x \in Threads : at[x] # "off"} : within' = [within EXCEPT ![signals'] = t]
        /\ UNCHANGED <<main, status, databases, server, threads, stuck>>
  /\ UNCHANGED <<cfg, guard, kills>>

\* The handler's next step; an interrupted thread may itself hold the lock that the
\* step needs: of the event base, of malloc, of localtime.
Goes(s, here, next) ==
  /\ step[s] = here /\ within[s] \notin stuck
  /\ step' = [step EXCEPT ![s] = next]
  /\ UNCHANGED <<cfg, guard, main, status, databases, clients, threads, within, stuck, bounds>>

Sticks(s) ==
  /\ step[s] \in {"remove", "exit", "log"} /\ within[s] \notin stuck
  /\ stuck' = stuck \cup {within[s]}
  /\ UNCHANGED <<cfg, guard, main, status, databases, server, threads, step, within, bounds>>

\* TcpServer::stop: event_del, if isRunning() says so,
RemoveListener(s) ==
  /\ Goes(s, "remove", IF listening THEN "close" ELSE "log")
  /\ UNCHANGED <<listening, exit>>

\* close,
CloseListener(s) ==
  /\ Goes(s, "close", "exit")
  /\ listening' = FALSE /\ exit' = exit

\* Plausible mistake: the loop is not told to leave.
ExitUnheard(s) ==
  /\ Goes(s, "exit", "log")
  /\ UNCHANGED <<listening, exit>>

\* and event_base_loopexit, which wakes the main loop.
ExitLoop(s) ==
  /\ Goes(s, "exit", "log")
  /\ listening' = listening /\ exit' = TRUE

\* RedisProxy::stop logs in any case.
LogStop(s) ==
  /\ Goes(s, "log", "off")
  /\ UNCHANGED <<listening, exit>>

Handler(s) == RemoveListener(s) \/ CloseListener(s) \/ ExitLoop(s) \/ LogStop(s) \/ Sticks(s)

\* A thread goes on when the handler is done with it.
Interrupted(t) == t \in stuck \/ \E s \in Signals : within[s] = t /\ step[s] # "off"

\* malloc or localtime wait for a lock that a stuck thread holds.
Blocks(t) ==
  /\ stuck # {} /\ t \notin stuck
  /\ t # Main => at[t] # "off"
  /\ stuck' = stuck \cup {t}
  /\ UNCHANGED <<cfg, guard, main, status, databases, server, threads, step, within, bounds>>

\* The guard has no handler; the server outlives it.
SignalGuard ==
  /\ guard \in {"fork", "wait"} /\ signals < MaxSignals
  /\ signals' = signals + 1
  /\ guard' = "killed"
  /\ UNCHANGED <<cfg, main, status, databases, server, threads, handlers, kills>>

Killed ==
  /\ Alive /\ kills < MaxKills
  /\ kills' = kills + 1
  /\ Dies(-1)
  /\ UNCHANGED <<cfg, guard, signals>>

-----------------------------------------------------------------------------
(* The threads *)

Runs(t) ==
  /\ at[t] = "created"
  /\ at' = [at EXCEPT ![t] = "idle"]
  /\ UNCHANGED <<cfg, guard, main, status, databases, server, uses, cancelled, handlers, bounds>>

\* An event loop works for the connections, the others always.
Works(t) == at[t] = "idle" /\ (t \in Loops => clients) /\ t # TopKeyThread

Uses(t, i, how) ==
  /\ at' = [at EXCEPT ![t] = "using"]
  /\ held' = [held EXCEPT ![t] = i]
  /\ by' = [by EXCEPT ![t] = how]
  /\ early' = IF main \in {"terminate", "delete", "leave", "return"} THEN early \ {t} ELSE early \cup {t}

\* mapToDatabase for a key; without a database the command fails.
MapToDatabase(t) ==
  /\ Works(t) /\ cfg.hash_value_max > 0
  /\ \E h \in 0 .. cfg.hash_value_max - 1 : mapping[h] # 0 /\ Uses(t, mapping[h], "key")
  /\ UNCHANGED <<cfg, guard, main, status, databases, server, cancelled, handlers, bounds>>

\* Without hash values, hash_val % m_option.maxhash divides by zero, or its
\* result is beyond the table.
MapToNothing(t) ==
  /\ Works(t) /\ cfg.hash_value_max <= 0
  /\ Dies(-1)
  /\ UNCHANGED <<cfg, guard, bounds>>

\* The expiry thread, FLUSHDB and SYNCFROM go through m_dbs.
WalkDatabases(t) ==
  /\ Works(t) /\ t # SyncThread
  /\ \E i \in 1..opened : Uses(t, i, "list")
  /\ UNCHANGED <<cfg, guard, main, status, databases, server, cancelled, handlers, bounds>>

Used(t) ==
  /\ at[t] = "using"
  /\ at' = [at EXCEPT ![t] = "idle"]
  /\ held' = [held EXCEPT ![t] = 0]
  /\ early' = early \ {t}
  /\ UNCHANGED <<cfg, guard, main, status, databases, server, by, cancelled, handlers, bounds>>

\* Thread::sleep and the reads and writes of LevelDB are cancellation points.
Cancelled(t) ==
  /\ t \in cancelled /\ at[t] \in {"idle", "using"}
  /\ at' = [at EXCEPT ![t] = "off"]
  /\ held' = [held EXCEPT ![t] = 0]
  /\ early' = early \ {t}
  /\ UNCHANGED <<cfg, guard, main, status, databases, server, by, cancelled, handlers, bounds>>

Thread(t) ==
  /\ ~Interrupted(t)
  /\ \/ Runs(t) \/ MapToDatabase(t) \/ MapToNothing(t) \/ WalkDatabases(t)
     \/ Used(t) \/ Cancelled(t)

-----------------------------------------------------------------------------
Init ==
  /\ cfg = Defaults
  /\ guard = "none"
  /\ main = "load"
  /\ status = 0
  /\ opened = 0 /\ deleted = 0 /\ started = FALSE /\ node = 1 /\ mapping = Unmapped
  /\ listening = FALSE /\ exit = FALSE /\ clients = FALSE
  /\ at = [t \in Threads |-> "off"]
  /\ held = [t \in Threads |-> 0]
  /\ by = [t \in Threads |-> "key"]
  /\ early = {} /\ cancelled = {}
  /\ step = [s \in Signals |-> "off"] /\ within = [s \in Signals |-> Main] /\ stuck = {}
  /\ signals = 0 /\ kills = 0

MainThread ==
  /\ ~Interrupted(Main)
  /\ \/ Load \/ Check
     \/ Begin \/ StartPool \/ OpenDb \/ ClusterStarted \/ MapNode \/ StartServices
     \/ Listen \/ LoopExits
     \/ ClearMapping \/ Terminate \/ DeleteDb \/ Stopped \/ StopPool \/ Return

Guard == Fork \/ ForkFails \/ Waited

Next ==
  \/ MainThread
  \/ Guard
  \/ Accept
  \/ Signal \/ SignalGuard \/ Killed
  \/ \E s \in Signals : Handler(s)
  \/ \E t \in Threads \cup {Main} : Blocks(t)
  \/ \E t \in Threads : Thread(t)

Spec == Init /\ [][Next]_vars

\* The main thread, handlers and the guard are scheduled; clients, signals and kills
\* need not come.
FairSpec ==
  /\ Spec
  /\ WF_vars(MainThread) /\ WF_vars(Guard)
  /\ \A s \in Signals : WF_vars(Handler(s))

-----------------------------------------------------------------------------
(* Properties *)

MainStage == {"load", "check", "refused", "none", "begin", "pool", "open", "map", "run",
              "loop", "clear", "terminate", "delete", "leave", "return", "dead"}

StartupTypeOK ==
  /\ cfg \in Cfg
  /\ guard \in {"none", "fork", "wait", "done", "failed", "killed"}
  /\ main \in MainStage
  /\ status \in Nat \cup {-1}
  /\ opened \in 0..Len(cfg.nodes)
  /\ deleted \in 0..opened
  /\ started \in BOOLEAN
  /\ node \in 1..Len(cfg.nodes) + 1
  /\ mapping \in [Mapping -> 0..opened]
  /\ listening \in BOOLEAN /\ exit \in BOOLEAN /\ clients \in BOOLEAN
  /\ at \in [Threads -> {"off", "created", "idle", "using"}]
  /\ held \in [Threads -> 0..opened]
  /\ by \in [Threads -> {"key", "list"}]
  /\ early \subseteq Threads
  /\ cancelled \subseteq {TTL}
  /\ step \in [Signals -> {"off", "remove", "close", "exit", "log"}]
  /\ within \in [Signals -> Threads \cup {Main}]
  /\ stuck \subseteq Threads \cup {Main}
  /\ signals \in 0..MaxSignals
  /\ kills \in 0..MaxKills

\* Commands of clients, and what comes from a master.
Serving == main = "loop" \/ (main = "run" /\ at[SyncThread] # "off")

\* Whatever ranges the checker lets through: as long as commands are served, each
\* hash value belongs to one db_node, and leads to its database, which is open.
KeysFindTheirDatabase ==
  Serving =>
    \A h \in 0 .. cfg.hash_value_max - 1 :
      /\ mapping[h] \in 1..opened /\ mapping[h] > deleted
      /\ \A i \in DOMAIN cfg.nodes : h \in Slots(cfg.nodes[i]) <=> i = mapping[h]

\* stop() clears the mapping first.  So a thread that uses a deleted database has
\* found it before, or goes through the list of databases, which is never cleared.
LookedUpBefore ==
  \A t \in Threads : at[t] = "using" /\ held[t] <= deleted /\ by[t] = "key" => t \in early

\* A server that is told to stop once it listens comes to its end; before that the
\* signal is lost.  It does not if the handler has interrupted a thread inside malloc or
\* localtime and waits there for the thread's own lock: the listener is closed by then,
\* and the main loop may never be told, or main may come to wait for that lock.
StopsWhenTold == main = "loop" /\ ~listening ~> main = "dead" \/ stuck # {}

\* The guard starts the server again, however it has ended, unless the guard itself
\* is killed or cannot fork.
ComesBack == guard = "wait" /\ main = "dead" ~> Alive \/ guard \in {"killed", "failed"}

\* "stop the ttl manager before the database shutdown, else it may coredumped"
\* (src/src/leveldb.cpp:359).
TTLStopsBefore == at[TTL] = "using" => held[TTL] > deleted

=============================================================================
