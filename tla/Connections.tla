------------------------------- MODULE Connections -------------------------------
(***************************************************************************)
(* Client connections (src/src/redisproxy.cpp, util/tcpserver.cpp,         *)
(* eventloop.cpp) and what the monitor counts of them (monitor.cpp).       *)
(*                                                                         *)
(* The main thread accepts and gives each connection to an event loop,     *)
(* whose thread runs one handler at a time: it receives, parses, runs the  *)
(* commands of all complete requests, sends their replies and waits for    *)
(* more.  A connection has at most one event, for reading or for writing,  *)
(* and none while it is being handled.                                     *)
(***************************************************************************)
EXTENDS RedisProto, TopKeys

CONSTANTS
  Clients,
  Addresses, AddressOf,  \* the address each client connects from
  Loops,                 \* 1..n, the event loop threads
  Commands,              \* from the names of commands to what their handlers do
  Scenarios,             \* requests, places where TCP may cut them, topKeyEnable
  None, NoType, Garbage,
  MaxAgains,             \* bound: sends that find the socket full
  MaxHangups             \* bound: clients that hang up

ASSUME ConnectionAssumption ==
  /\ IsFiniteSet(Clients) /\ IsFiniteSet(DOMAIN Commands)
  /\ AddressOf \in [Clients -> Addresses]
  /\ Loops = 1..Cardinality(Loops) /\ Loops # {}
  /\ \A name \in DOMAIN Commands : Commands[name] \in {"replies", "refuses", "blocks"}
  /\ None \notin Clients

VARIABLES
  scenario,
  at,            \* where a connection is
  loopOf,        \* its event loop
  accepted,      \* m_threadPoolRefCount
  running,       \* the connection whose handler a loop runs
  taken,         \* bytes received
  parsed,        \* bytes parsed, recvBufferOffset
  request,       \* the request to run, recvParseResult
  key,           \* its second token
  sendBuff, sendBytes,
  lastType,      \* commandType
  clientLock,    \* m_clientLock
  seen,          \* request_num as read under it
  requestNum, connectNum, commandNum,  \* m_clientRecMap
  agains, hungup,
  topKeyLock,    \* m_topKeyLock
  torn,          \* two threads were in one container of the library at once
  handled, answered, batches, unlucky  \* history

buffers  == <<taken, parsed, request, key>>
replies  == <<sendBuff, sendBytes, answered>>
records  == <<clientLock, seen, requestNum, commandNum, batches>>
rest     == <<scenario, loopOf, accepted, connectNum>>
races    == <<topKeyLock, torn>>
vars     == <<rest, at, running, buffers, replies, records, lastType, agains, hungup,
              handled, unlucky, topVars, races>>

-----------------------------------------------------------------------------
\* What the parser says of every part of what a client sends, whatever byte is behind.
Scripts    == UNION {{s.script[c] : c \in Clients} : s \in Scenarios}
StreamOf   == [script \in Scripts |-> Stream(script)]
StaleBytes == {"LF", "other"}
Parts      == (UNION {{SubSeq(StreamOf[s], i, j) : i \in 1..Len(StreamOf[s]), j \in 1..Len(StreamOf[s])}
                       : s \in Scripts}) \ {<<>>}
ParseOf    == [part \in Parts |-> {Parse(part, stale) : stale \in StaleBytes}]

\* Requests of up to nine tokens of up to nine bytes, so that a number is one digit.
ASSUME ScenarioAssumption ==
  /\ \A s \in Scenarios :
       /\ \A c \in Clients : s.cuts[c] \subseteq 1..Len(StreamOf[s.script[c]])
       /\ s.topKey \in BOOLEAN
  /\ Scripts \subseteq Seq(Seq(Seq(STRING)))
  /\ \A script \in Scripts : \A i \in DOMAIN script :
       /\ Len(script[i]) \in 1..9
       /\ \A j \in DOMAIN script[i] : Len(script[i][j]) \in 0..9

Script(c)  == scenario.script[c]
Bytes(c)   == StreamOf[Script(c)]

\* The two halves of a reply, so that a send may end between them.
Reply(i)   == <<<<i, 1>>, <<i, 2>>>>
Replies(n) == FlattenSeq([i \in 1..n |-> Reply(i)])

\* Where the parser goes wrong if what has been received ends there: at the CR of a
\* number, and behind the length of an empty bulk that ends a request.
Unlucky(c, i) ==
  LET s == Bytes(c)
  IN \/ s[i] = "CR" /\ s[i - 2] \in {"*", "$"}
     \/ /\ i >= 4 /\ SubSeq(s, i - 3, i) = <<"$", "0", "CR", "LF">>
        /\ i + 2 = Len(s) \/ s[i + 3] = "*"

Leaves(l)    == running' = [running EXCEPT ![l] = None]
Takes(l, c)  == running' = [running EXCEPT ![l] = c]
Moves(c, to) == at' = [at EXCEPT ![c] = to]

\* What follows from a parse of the bytes behind from, up to the one at to.
Parses(l, c, from, to) ==
  \E r \in ParseOf[SubSeq(Bytes(c), from + 1, to)] :
       CASE r.next = Error -> /\ Moves(c, "closed") /\ Leaves(l)
                              /\ UNCHANGED <<parsed, request, key>>
         [] r.next = Again -> /\ Moves(c, "read") /\ Leaves(l)
                              /\ UNCHANGED <<parsed, request, key>>
         [] OTHER          -> /\ Moves(c, "handle") /\ Takes(l, c)
                              /\ parsed' = [parsed EXCEPT ![c] = from + r.next - 1]
                              /\ request' = [request EXCEPT ![c] = r.tokens]
                              /\ key' = [key EXCEPT ![c] =
                                   IF Len(r.tokens) > 1 /\ r.tokens[2] # Unset THEN r.tokens[2] ELSE Garbage]

-----------------------------------------------------------------------------
(* The main thread *)

\* The loops take turns.
CreateContextObject(c) ==
  /\ loopOf' = [loopOf EXCEPT ![c] = (accepted % Cardinality(Loops)) + 1]
  /\ accepted' = accepted + 1

\* m_clientRecMap[ip] of a new address is put in without m_clientLock.
ClientConnected(c) ==
  /\ connectNum' = [connectNum EXCEPT ![AddressOf[c]] = @ + 1]
  /\ torn' \in IF connectNum[AddressOf[c]] = 0 /\ clientLock # None THEN BOOLEAN ELSE {FALSE}

Accept(c) ==
  /\ at[c] = "new" /\ Script(c) # <<>>
  /\ CreateContextObject(c) /\ ClientConnected(c)
  /\ Moves(c, "read")
  /\ UNCHANGED <<scenario, running, buffers, replies, records, lastType, agains, hungup,
                 handled, unlucky, topVars, topKeyLock>>

-----------------------------------------------------------------------------
(* The event loop threads *)

Idle(l, c, event) == running[l] = None /\ loopOf[c] = l /\ at[c] = event
Busy(l, c, where) == running[l] = c /\ at[c] = where

\* onReadClientHandler.
Receive(l, c) ==
  /\ Idle(l, c, "read")
  /\ \E to \in scenario.cuts[c] :
       /\ to > taken[c]
       /\ taken' = [taken EXCEPT ![c] = to]
       /\ unlucky' = IF Unlucky(c, to) THEN unlucky \cup {c} ELSE unlucky
       /\ Parses(l, c, parsed[c], to)
  /\ UNCHANGED <<rest, replies, records, lastType, agains, hungup, handled, topVars, races>>

ReceiveEnd(l, c) ==
  /\ Idle(l, c, "read") /\ c \in hungup
  /\ Moves(c, "closed")
  /\ UNCHANGED <<rest, running, buffers, replies, records, lastType, agains, hungup,
                 handled, unlucky, topVars, races>>

KindOf(name) == IF name \in DOMAIN Commands THEN Commands[name] ELSE "unknown"

\* readRequestFinished, the command's handler and setFinishedState; writeReply goes on
\* with the bytes behind the request, if there are any.
AnswerFirst(l, c) == Moves(c, "send") /\ UNCHANGED <<running, parsed, request, key>>
WaitForMore(l, c) ==
  /\ Moves(c, IF parsed[c] # taken[c] THEN "read" ELSE "send")
  /\ IF parsed[c] # taken[c] THEN Leaves(l) ELSE UNCHANGED running
  /\ UNCHANGED <<parsed, request, key>>

NextRequest(l, c) ==
  IF parsed[c] # taken[c] THEN Parses(l, c, parsed[c], taken[c])
  ELSE /\ Moves(c, "send")
       /\ UNCHANGED <<running, parsed, request, key>>

Handle(l, c) ==
  /\ Busy(l, c, "handle")
  /\ LET name == request[c][1]
     IN /\ handled' = [handled EXCEPT ![c] = Append(@, request[c])]
        /\ lastType' = IF KindOf(name) = "unknown" THEN lastType
                       ELSE [lastType EXCEPT ![c] = name]
        /\ sendBuff' = IF KindOf(name) = "blocks" THEN sendBuff
                       ELSE [sendBuff EXCEPT ![c] = @ \o Reply(Len(handled[c]) + 1)]
        /\ CASE KindOf(name) \in {"replies", "unknown"} -> NextRequest(l, c)
             [] KindOf(name) = "refuses" -> /\ Moves(c, "stuck") /\ Leaves(l)
                                            /\ UNCHANGED <<parsed, request, key>>
             [] KindOf(name) = "blocks"  -> /\ Moves(c, "blocked")
                                            /\ UNCHANGED <<running, parsed, request, key>>
  /\ UNCHANGED <<rest, taken, sendBytes, answered, records, agains, hungup, unlucky, topVars, races>>

\* onWriteClientHandler: a send that goes on until all is sent,
Send(l, c) ==
  /\ Busy(l, c, "send")
  /\ \E n \in 1..Len(sendBuff[c]) - sendBytes[c] :
       /\ sendBytes' = [sendBytes EXCEPT ![c] = @ + n]
       /\ answered' = [answered EXCEPT ![c] = @ \o SubSeq(sendBuff[c], sendBytes[c] + 1, sendBytes[c] + n)]
       /\ Moves(c, IF sendBytes[c] + n = Len(sendBuff[c]) THEN "finish" ELSE "send")
  /\ UNCHANGED <<rest, running, buffers, sendBuff, records, lastType, agains, hungup,
                 handled, unlucky, topVars, races>>

AwaitInput(l, c) ==
  /\ Busy(l, c, "send") /\ agains < MaxAgains
  /\ agains' = agains + 1
  /\ Moves(c, "read") /\ Leaves(l)
  /\ UNCHANGED <<rest, buffers, replies, records, lastType, hungup, handled, unlucky, topVars, races>>

\* or finds the socket full,
SendAgain(l, c) ==
  /\ Busy(l, c, "send") /\ agains < MaxAgains
  /\ agains' = agains + 1
  /\ Moves(c, "write") /\ Leaves(l)
  /\ UNCHANGED <<rest, buffers, replies, records, lastType, hungup, handled, unlucky, topVars, races>>

Writable(l, c) ==
  /\ Idle(l, c, "write")
  /\ Moves(c, "send") /\ Takes(l, c)
  /\ UNCHANGED <<rest, buffers, replies, records, lastType, agains, hungup, handled, unlucky, topVars, races>>

\* or finds the client gone.
SendFails(l, c) ==
  /\ Busy(l, c, "send") /\ c \in hungup
  /\ Moves(c, "closed") /\ Leaves(l)
  /\ UNCHANGED <<rest, buffers, replies, records, lastType, agains, hungup, handled, unlucky, topVars, races>>

\* writeReplyFinished: replyClientFinished gives the key of the last request to the
\* top keys; without one it is what an earlier request has left there.  Under
\* m_topKeyLock it looks whether the recorder is up, which then drops the key,
RecordKey(l, c) ==
  /\ Busy(l, c, "finish")
  /\ \/ /\ ~scenario.topKey \/ key[c] = Garbage \/ (topKeyLock = None /\ processTopKey)
        /\ Moves(c, "count") /\ UNCHANGED topKeyLock
     \/ /\ scenario.topKey /\ topKeyLock = None /\ ~processTopKey
        /\ \E k \in TopNames : key[c] \in {k, Garbage}
        /\ topKeyLock' = c
        /\ Moves(c, "push")
  /\ UNCHANGED <<rest, running, buffers, replies, records, lastType, agains, hungup, handled,
                 unlucky, topVars, torn>>

\* and puts it in the queue, which has no lock of its own,
PushKey(l, c) ==
  /\ Busy(l, c, "push")
  /\ \E k \in TopNames : key[c] \in {k, Garbage} /\ KeyToList(k)
  /\ torn' \in IF processTopKey THEN BOOLEAN ELSE {FALSE}
  /\ topKeyLock' = None
  /\ Moves(c, "count")
  /\ UNCHANGED <<rest, running, buffers, replies, records, lastType, agains, hungup, handled, unlucky>>

\* and counts the batch of replies as one request of the address, under m_clientLock.
NoLock   == TRUE
LockFree == clientLock = None

CountBegin(l, c) ==
  /\ Busy(l, c, "count")
  /\ LockFree
  /\ clientLock' = c
  /\ seen' = [seen EXCEPT ![c] = requestNum[AddressOf[c]]]
  /\ Moves(c, "counting")
  /\ UNCHANGED <<rest, running, buffers, replies, requestNum, commandNum, batches, lastType,
                 agains, hungup, handled, unlucky, topVars, races>>

AddCnt(c) ==
  commandNum' = IF lastType[c] = NoType THEN commandNum
                ELSE [commandNum EXCEPT ![AddressOf[c]][lastType[c]] = @ + 1]

CountEnd(l, c) ==
  /\ Busy(l, c, "counting")
  /\ requestNum' = [requestNum EXCEPT ![AddressOf[c]] = seen[c] + 1]
  /\ AddCnt(c)
  /\ batches' = [batches EXCEPT ![c] = @ + 1]
  /\ clientLock' = None
  /\ seen' = [seen EXCEPT ![c] = 0]
  /\ lastType' = [lastType EXCEPT ![c] = NoType]
  /\ sendBuff' = [sendBuff EXCEPT ![c] = <<>>]
  /\ sendBytes' = [sendBytes EXCEPT ![c] = 0]
  /\ parsed' = [parsed EXCEPT ![c] = taken[c]]
  /\ Moves(c, "read") /\ Leaves(l)
  /\ UNCHANGED <<rest, taken, request, key, answered, agains, hungup, handled, unlucky, topVars, races>>

-----------------------------------------------------------------------------
Hangup(c) ==
  /\ at[c] \notin {"new", "closed"} /\ c \notin hungup
  /\ Cardinality(hungup) < MaxHangups
  /\ hungup' = hungup \cup {c}
  /\ UNCHANGED <<rest, at, running, buffers, replies, records, lastType, agains, handled, unlucky, topVars, races>>

Monitor ==
  /\ scenario.topKey
  /\ TopKeyThread
  /\ UNCHANGED <<rest, at, running, buffers, replies, records, lastType, agains, hungup,
                 handled, unlucky, races>>

Init ==
  /\ scenario \in Scenarios
  /\ at = [c \in Clients |-> "new"]
  /\ loopOf = [c \in Clients |-> 0]
  /\ accepted = 0
  /\ running = [l \in Loops |-> None]
  /\ taken = [c \in Clients |-> 0]
  /\ parsed = [c \in Clients |-> 0]
  /\ request = [c \in Clients |-> <<>>]
  /\ key = [c \in Clients |-> Garbage]
  /\ sendBuff = [c \in Clients |-> <<>>]
  /\ sendBytes = [c \in Clients |-> 0]
  /\ lastType = [c \in Clients |-> NoType]
  /\ clientLock = None
  /\ seen = [c \in Clients |-> 0]
  /\ requestNum = [a \in Addresses |-> 0]
  /\ connectNum = [a \in Addresses |-> 0]
  /\ commandNum = [a \in Addresses |-> [n \in DOMAIN Commands |-> 0]]
  /\ agains = 0
  /\ hungup = {}
  /\ topKeyLock = None /\ torn = FALSE
  /\ handled = [c \in Clients |-> <<>>]
  /\ answered = [c \in Clients |-> <<>>]
  /\ batches = [c \in Clients |-> 0]
  /\ unlucky = {}
  /\ TopInit

Serve(c) ==
  \E l \in Loops :
    \/ Receive(l, c) \/ ReceiveEnd(l, c) \/ Handle(l, c)
    \/ Send(l, c) \/ SendFails(l, c) \/ Writable(l, c)
    \/ RecordKey(l, c) \/ PushKey(l, c) \/ CountBegin(l, c) \/ CountEnd(l, c)

Activity ==
  \/ \E c \in Clients : Accept(c) \/ Hangup(c) \/ Serve(c) \/ \E l \in Loops : SendAgain(l, c)
  \/ Monitor

\* Nothing is said of a process whose memory is torn.
Next == ~torn /\ Activity

\* Loops handle every event that is ready, and clients send all of their requests.
Spec == /\ Init /\ [][Next]_vars
        /\ \A c \in Clients : WF_vars(~torn /\ Accept(c)) /\ WF_vars(~torn /\ Serve(c))

-----------------------------------------------------------------------------
(* Properties *)

\* However TCP cuts the requests and however many come at once, they are run once
\* each, whole and in order, their replies arrive in that order, and the server
\* closes no connection its client keeps; a cut the parser cannot stand excepted.
AnsweredInOrder ==
  \A c \in Clients \ unlucky :
    /\ IsPrefix(handled[c], Script(c))
    /\ IsPrefix(answered[c], Replies(Len(handled[c])))
    /\ at[c] = "closed" => c \in hungup

\* A connection that waits for input has run every request that has come in whole,
\* and holds replies back only while it has the beginning of another one.
NoneForgotten ==
  \A c \in Clients \ unlucky :
    at[c] = "read" =>
      /\ Len(handled[c]) < Len(Script(c)) =>
           Len(Stream(SubSeq(Script(c), 1, Len(handled[c]) + 1))) > taken[c]
      /\ parsed[c] = taken[c] => answered[c] = Replies(Len(handled[c]))

Total(f) == FoldSet(LAMBDA x, n : f[x] + n, 0, DOMAIN f)
From(a)  == {c \in Clients : AddressOf[c] = a}

\* No request is lost to the counts though loops count for one address at once:
\* they count the batches of replies, and not more than one command of each.
RequestsCounted ==
  \A a \in Addresses :
    /\ requestNum[a] = Total([c \in From(a) |-> batches[c]])
    /\ connectNum[a] = Cardinality({c \in From(a) : at[c] # "new"})
    /\ Total(commandNum[a]) <= requestNum[a]
    /\ \A c \in From(a) : batches[c] <= Len(handled[c])

\* Every request is answered, unless the client hangs up, sends a command that never
\* finishes, or has its loop's thread blocked by another one's; commands that block
\* hurt no connection of another loop.  Two threads in one container end all this.
Hopeless(c) ==
  \/ torn \/ c \in hungup \cup unlucky
  \/ at[c] = "stuck"
  \/ \E d \in Clients : at[d] = "blocked" /\ loopOf[d] = loopOf[c]

EveryRequestAnswered ==
  \A c \in Clients : <>[](Hopeless(c) \/ answered[c] = Replies(Len(Script(c))))

=============================================================================
