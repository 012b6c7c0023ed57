# OneValue in TLA+

OneValue is a server that speaks the Redis protocol and keeps its keys in a
number of leveldb databases.  A pool of event-loop threads serves the clients;
every write may also go to a binlog, which slaves pull from their master.  This
directory holds TLA+ models of that program, the TLC configurations that check
them on small instances, and proofs that TLAPS checks.  Paths below are relative
to the repository (`src/leveldb.cpp` is `src/src/leveldb.cpp` in `PROJECT.json`,
which also names the source lines of every definition).

## The system

| Component | State it keeps | Operations | Talks to |
|---|---|---|---|
| Write path (`leveldb.cpp`, `LeveldbCluster`) | N leveldb databases, hash mapping, open binlog, list of binlog names | `setValue`, `remove`, `clear`, `start`, `stop` | leveldb, binlog, TTL thread |
| Binlog (`binlog.cpp`) | files of records behind one stdio buffer; `BINLOG_INDEX` | `open`, `append*Record`, `sync`, `close`; list load/save; `BinlogParser` | file system |
| Master side of replication (`cmdhandler.cpp`, `onSyncCommand`) | locals of one walk over the files | `__SYNC file pos` -> stream | binlog list, open binlog, client connection |
| Slave side (`sync.cpp`, `Sync`) | cursor, `MASTER_INFO`, received batch | connect, request, receive, save cursor, apply | master over TCP, its own write path |
| Process guard (`non-portable.cpp`) | child pid | fork, wait, restart | server process |
| String commands (`cmdhandler.cpp`) | 128 striped mutexes (`StringMutex`) | SET, SETNX, INCR, APPEND, MSET, PFMERGE, ... | write path, TTL |
| Lists (`t_list.cpp`, `listcmdhandler.cpp`) | a meta record (left, right) and one record per element; striped `ListMutex` | LPUSH, RPOP, LSET, LTRIM, RPOPLPUSH, ... | write path |
| Hashes, sets, sorted sets (`t_hash.cpp`, `t_zset.cpp`, handlers) | one record per field, no lock | HSET, HINCRBY, SADD, SMOVE, SUNIONSTORE, ZINCRBY, ... | write path |
| Key expiry (`ttlmanager.cpp`) | expiry records, one thread that scans | `setExpire`, scan and delete | write path |
| Connections (`redisproxy.cpp`, `redisproto.cpp`, `tcpserver.cpp`) | per-client receive and send buffers, parse result, finished state | read, parse, dispatch, reply, close | event loops, handlers |
| Full copy (`dbcopy.cpp`, `SYNCFROM`) | iterators, one connection | send every record as RAWSET | another server |
| Configuration (`onevaluecfg.cpp`), start and stop (`main.cpp`, `thread.cpp`, `eventloop.cpp`) | hash ranges, threads | validate, start, SIGTERM | all |
| Monitor and top keys (`monitor.cpp`, `top-key.cpp`) | counters, key lists | count, report | connections |

What is hard in it: a write touches leveldb and the binlog in two steps and only
the second is under a mutex; the binlog list is read without any lock; files are
rewritten in place (`BINLOG_INDEX`, `MASTER_INFO`) and processes may die at any
step; the slave saves its cursor before it applies what it received; commands
read, change and write back under a striped mutex, or under none; list commands
write several records, and so do those on hashes, sets and sorted sets; threads are
cancelled without being joined, and databases deleted under them; SYNCFROM blocks a
thread that other connections need; requests come cut and joined as TCP likes, and a
loop's only thread runs whatever they ask for; a thread may be cancelled in the middle
of a write, with what it held; a signal handler runs inside of whatever a thread was
doing; some containers that several threads use have no lock.

## What makes each component correct

* Write path and binlog: replaying the files of the binlog that the program knows
  gives the databases; what is on disk stays there; a restart finds every file with
  records, but for names that the rewriting of `BINLOG_INDEX` has lost.
* Replication: records are applied in log order and none twice; it is known what has
  become of each record the slave has passed; the slave gets to the end of the log.
* Lists: the meta record and the element records agree; a command acts like
  one on a sequence.
* Hashes, sets, sorted sets: a command that meets no other one does what Redis
  defines for it; members that are moved are not lost; the reads agree with each
  other and send as much as they announce.
* Expiry: no key is deleted before a time set for it, and none that was to expire
  is forgotten.
* String commands: read-modify-write commands of one key are atomic, and every
  return unlocks; a count misses no element; bytes are where they were put.
* Connections: every request runs once, in order, and gets one reply, in order.
* Monitor and top keys: no request is lost to the counts; the list and the map of
  keys agree, and the keys asked for last are in them.
* Full copy: a copy in full holds what the master holds; SYNCFROM ends.
* Configuration, start and stop: every hash value leads to the one database that
  holds it while commands are served; a server told to stop stops, and one that
  has ended is started again.

## Modules

| Module | What it is |
|---|---|
| `BinlogStore` | write path, binlog, index file, kill and restart of one server |
| `BinlogStoreProofs` | inductive invariant and theorems about `BinlogStore` |
| `LogShipping` | what replication promises, without processes, files or messages |
| `Replication` | `BinlogStore` as a master, one slave, the connection between them |
| `ReplicationProofs` | inductive invariants of `Replication`, and that it implements `LogShipping` |
| `Lists` | list commands over meta and element records, their mutex, FLUSHDB, kills |
| `ListsProofs` | inductive invariant and theorems about `Lists` |
| `Strings` | string commands, `StringMutex`, expiry records, FLUSHDB |
| `Expiry` | `Strings` with the expiry thread and kills of the process |
| `KeyProofs` | inductive invariants and theorems about `Strings` and `Expiry`, and a theorem about `StringBytes` |
| `HyperLogLogs` | `Strings` with the registers of PFADD, PFMERGE, PFCOUNT |
| `StringBytes` | `Strings` with the bytes that APPEND, SETRANGE and the reads handle |
| `SetOps`, `SortedSets` | what reads of sets and sorted sets return, as operators |
| `RedisCollections` | what a command on hashes, sets and sorted sets is to do, in one step |
| `Replies` | what the reads of hashes, sets and sorted sets send |
| `Collections` | the commands on them, record by record, on several threads, with kills |
| `CollectionsProofs` | inductive invariant and theorems about `Collections`; what the reads of `SetOps`, `SortedSets` and `Replies` return |
| `RedisProto` | the parser of requests |
| `TopKeys` | the queue, the list and the map of the top keys |
| `Connections` | clients, event loops, requests, replies and what is counted of them |
| `ConnectionsProofs` | theorem about `RedisProto`, inductive invariants and theorems about `Connections` |
| `FullCopy` | SYNCFROM on the slave, `__COPY` on the master, the sync thread beside them |
| `FullCopyProofs` | inductive invariant and theorem about `FullCopy` |
| `Config` | loading and checking of the configuration |
| `Startup` | start, stop, signals and guard of the server with such a configuration |
| `StartupProofs` | inductive invariant and theorems about `Startup` |
| `MCBinlogStore`, `MCReplication`, `MCLists`, `MCStrings`, `MCExpiry`, `MCCollections`, `MCConnections`, `MCFullCopy`, `MCStartup` | instances for TLC |

### BinlogStore

`db` is what the leveldb databases hold together: which database a key lives in
is a fixed function of the key.  A thread passes through the stages of `pc`:
`WriteDb` is the leveldb `Put`/`Delete`; `AppendRecord` takes `m_binlogMutex`,
appends and tests the size; if the file is full the thread keeps the mutex
through `Rotate` (close, open the next file), `PublishName` (`appendFileName`),
`TruncateIndex` (`fopen("w")` of `BINLOG_INDEX`), `WriteNames` or `CutName` (stdio
writes out names before the end, the last one perhaps in part) and `SaveIndex`, because
a kill, and the unlocked readers of the list, can come between any two of these.
`RotateFails` is the same rotation with a failing `fopen`; the following append
dereferences a NULL `FILE*` (`AppendToClosed`).  `IndexFails` is a failing `fopen` or
`fclose` of `BINLOG_INDEX`, which nobody looks at.  `Clear`, `ClearDatabase`,
`ClearKey`, `ClearDone` are FLUSHDB, which works on the databases directly, on a
snapshot of each when its turn comes.

A binlog file is a sequence of records; `flushed` says how many of the open one
have left the stdio buffer.  A kill (`ProcessDies`) drops the rest and may leave
one torn record behind; leveldb hands its own log to the kernel at every write,
so `db` survives.  A record appended behind a torn one is read from a wrong
offset, hence stored as `Torn`.  `Restart` is the next child of the guard: no
request is served before `LeveldbCluster::start` is complete, so it is one step
(a kill inside it before the index is written equals a kill after it with a new
file nobody has used).  `StartUnlogged` and `StartUnsaved` are the starts in which
`initBinlog` fails, of which `start` takes no notice: one leaves no file open, the
other a file that `BINLOG_INDEX` does not name.

`Known` are the files that a replay or a slave can get at: those in the list, and after
a kill those in `BINLOG_INDEX`.  A kill while `BINLOG_INDEX` is rewritten, or at any
time after it could not be written (`unsaved`), leaves less of it on the disk than the
list had; the next start takes that for the whole list.  `Forgotten` says which files
go so, and the history `forgotten` keeps them.  The histories `raced` and `unlogged`
name the keys for which the code gives no guarantee: keys written by two threads at
once, keys of FLUSHDB, keys whose record a crash has taken or has left in a forgotten
file.

### Replication

A cursor `[f, p]` is the pair of lines in `MASTER_INFO`: file and index of the
last record.  `SyncRequest`, `WalkFile`, `WalkFails`, `SyncReply` are
`onSyncCommand`: one step per file of the walk, since writers run in between;
the file list is read afresh in every round as the code does.  `Slave*` are the
steps of `Sync::run`; the two steps of rewriting `MASTER_INFO` are apart.
`Disconnect`, `SlaveCrash` and the master's crash drop what is in flight.  The
connection is FIFO and loses nothing while it is up (TCP), so requests and
replies are one message each.

`WalkFile` reads what can be read.  From a torn record on, `BinlogParser::nextItem`
takes sizes from the wrong bytes: `WalkGarbage` sends what can be read and then items
nobody wrote, any number of which stand as one `Torn`, with a cursor at the
fragment, and goes on to the next file or ends the stream; `WalkLoops` is an item of
size 0, at which the walk stays for ever.  A size that leads out of the mapping is a
kill.  `Effect` lets a torn record decode as anything, or as nothing.

### Lists

`meta[n]` is the meta record of list `n` (`left_pos`, `right_pos`, both
exclusive), `elem[n]` its element records by id.  A command of `t_list.cpp` reads
the meta record, writes or removes element records, and writes the meta record;
these writes are steps of their own, because a kill and FLUSHDB can come between
them.  `Enter` is `ListMutex::lock` with the read of the meta record (one step:
all writers of the record hold the mutex, FLUSHDB excepted, and its deletions may
come before or after).  A command that is refused (`Refused`, the early
returns) writes nothing, and is no step.  `PushElement`/`PushMeta` are `lpush`,
`rpush`, `lpushx`, `rpushx`, once for each value; `PopElement`/`PopMeta` are
`lpop`, `rpop`; `PopMeta` goes on to the push of RPOPLPUSH with the popped value in
`got`, after it has let go of the first mutex.  `SetElement` is `lset`,
`RemoveElement`, `TrimMeta`, `ClearMeta` are `ltrim` and `lclear`.  `Stripe` says
which names share a mutex of the 128.  `FlushStart`, `FlushDatabase`, `FlushRecord`,
`FlushDone` are FLUSHDB: it takes no mutex and goes from one database to the next
(`Database` says in which one a record lies), over a snapshot of each when its turn
comes.  The order of its deletions, by key in each database, is left open.

`seq[n]` is what list `n` should hold, changed where a command writes its last
record; a kill before that write must leave the list as it was.  `broken` names
lists that a kill between a removal and the meta record, or a FLUSHDB, may have
damaged; `inverted` those an LTRIM has left with a negative size; `strays` those
that may have element records outside of their bounds.  LCLEAR, or a FLUSHDB that
finds the list gone altogether, ends the first two.

### Strings

A value is a record of the commands that have contributed to it (`marks`, each
command has a number) and of whether it reads as a number, which is all the
commands ask of it.  `store[k]` is the record of key `k`, `expiry[k][p]` the
expiry records of the key: `ExpireKey` (`ttlmanager.cpp:123`) has padding bytes
that nobody initialises and that are part of the leveldb key, so a record is
known by its padding `p`, which is chosen freely at each write, and may lie in
another database than the key (`RecordDb`).

A command is started by an action of its group (`LockedCommand`, `SetExCommand`,
`PFMergeCommand`, `SetCommand`, `MSetNXCommand`, `DelCommand`, `ExpireCommand`,
`FlushStart`) and then goes through the stages of `pc`.  `Enter` is
`string_mutex.lock` with the read that follows.  `Write` is `setValue`, one step for each
key of MSET and MSETNX, and releases the mutex where the handler does: SETEX
only after `SetExpire`.  `Refused` are the early returns that unlock.
`MergeIntoMissing` and `MergeMissing` are the two returns of PFMERGE that do not:
the mutex stays locked until the process ends (`abandoned`).
`LookNX` is the loop of MSETNX that looks for existing keys, `LookDel` and
`RemoveDel` are the two halves of DEL.  `FlushStart`, `FlushKey`, `FlushExpiry`,
`FlushDone` walk over a snapshot of each database, keys before expiry records.
"incr" stands for INCR, DECR, INCRBY, DECRBY and INCRBYFLOAT (integers and floats
are not told apart), "append" for APPEND and SETRANGE, "set" for SET, SET EX and RAWSET (whose key
is mapped by the sender).  Reads change nothing and have no step; a failing
`setValue` is left out.

`mods[k]` is the history `NoLostUpdate` is about: the locked commands whose effect
the value of `k` must show since it was last replaced or removed.

### Expiry

`Expiry` extends `Strings` by `TTLThread::run`.  `Seek` takes the snapshot of one
database behind the key that was sought, whose padding is arbitrary too; `ReadClock`,
`Skip` and the two steps of `RecordThenKey` are the loop over the records, with
the clock read again every `Batch`-th record (100000 in the code); `NextDb` goes on to the next
database, and from the last one round to the first.  `Killed` is a kill and the restart behind it.

`given[k]` holds all times set for `k`.  `fate[k]` is `"due"` while the value of `k` has been
acknowledged to expire, and `"stray"` once its record is lost in one of the two
ways the code allows: a kill between the removal of the record and that of the
key, and a FLUSHDB that has passed the key and takes the record of a later SETEX.
A key that an expired or deleted value has come back to through a
read-modify-write command counts as one that is not to expire.

### HyperLogLogs and StringBytes

Both extend `Strings` and share its run.  `HyperLogLogs` gives each key the registers
that its value holds and each thread those of its `THyperLogLog`: `Reading`,
`Merging`, `Adding`, `StoringMerged`, `WritingText` say what the steps of `Strings`
do to them, every other step leaves them alone (`Others`).  An element is its register
and the zero bits of its hash.  `Merged` joins the bits of two registers as the code
does; a value that another command wrote reads as `Foreign`.

`StringBytes` has no state of its own: `AppendTo` and `SetRange` are what a value
becomes, `Get`, `MGet`, `GetRange`, `StrLen`, `Exists` what is sent of it, with the
NUL that ends a text where the code hands on a C string.

### SetOps, SortedSets, RedisCollections, Replies, Collections

A field, member or element is a record of its own, `store[n][f]`.  Strings are
numbered in lexicographic order; `Width` gives their lengths, since leveldb keeps the
records of a name by length first (`StoredBefore`), and by the bytes of an `int`, the
lowest one first, at that (`LengthBefore`: 256 comes before 1); `std::set_difference`
and `std::set_intersection` compare lists that come in that order by the other one.
`kind` says which of the three types the names of a behaviour are: their keys differ,
so commands of two types never meet.

A command (`HMSet`, `SMove`, `ZIncrBy`, ...) starts with a program, the calls of
`THash` it makes, each of which reads or writes leveldb once: `Hset`, `Hdel`,
`Hexists`, the `hget`s of HINCRBY, SMOVE and ZINCRBY, `Hgetall` for the walks of
HCLEAR, SPOP and the ranges, `Gather` for the sets that SUNION and its kin read,
`Fill` for what they store.  A call may end the command early (HSETNX of a field that
is there, SINTERSTORE without members left).  There is no mutex, so the calls of two
threads interleave freely, and `Killed` may come between any two.  SADD is
HMSET of members to themselves, ZADD of elements to scores.

`RedisCollections` states in one step and in terms of sets what a command is to do
(`Effect`), and where the code deviates even alone (`Deviates`).  `before` and
`disturbed` are the histories that `AloneLikeRedis` is about: the records when a
command came, and the threads whose command has met another one.  `kept` are the
members that some set must hold.

`Replies` are the reads as operators on the records of a name: how many elements a
reply announces and which it sends.  A string printed by `%s` ends at its first NUL.
ZREVRANK asks for its element with a length that an earlier request has left in the
token (`zsetcmdhandler.cpp:673`): `Cuts` are the strings that begin the element, or that
it begins, and the reply may be the rank of any of these.

### RedisProto, TopKeys, Connections

`Parse` is `RedisProto::parse` on named bytes.  The byte behind those received, at
which the parser looks when they end at a CR, is a parameter: it may be anything the
buffer holds.  `Rounds` says how often its loop over the tokens goes round, for a
negative count too; no client of the runs sends one.

`TopKeys` is the queue replies put their keys in (`KeyToList`) and the thread that
counts them (`KeyRecorder`), with the nodes it throws out when the list is full.

In `Connections`, `at[c]` says where a connection is: waiting for an event, in a
stage of the handler that `running` gives its loop, blocked, stuck or closed.
`Accept` is `TcpServer::onAccept` with the round of loops; `Receive` takes as many
bytes as TCP gives (`cuts` of the scenario) and parses; `Handle` runs one request and
parses on; `Send`, `SendAgain`, `Writable`, `AwaitInput`, `SendFails` are the ways of
`onSend`; `RecordKey` and `PushKey` are `keyToList` under `m_topKeyLock`, which first looks
whether the recorder is at work and then pushes, `CountBegin` and `CountEnd` the monitor's
record of the address, read under `m_clientLock` and written there.  The queue of keys is
popped by the recorder without the lock, and `clientConnected` inserts into `m_clientRecMap`
without `m_clientLock`: two threads in one container may leave memory of which nothing can be
said (`torn`), and there the model stops.  A command replies, refuses (appends an
error and never finishes, as INCRBYFLOAT of a text) or blocks its thread.  `unlucky`
names clients whose bytes TCP has cut where the parser goes wrong.

### FullCopy

`from` is the slave's `onSyncFromCommand` (`Connect`, `SendCopy`, `Terminate`,
`Restart`): it cancels the sync thread and waits for one byte in a blocking `recv`, on
the thread of its event loop.  `copy` is the master's `onCopyCommand` with
`DBCopy::start` (`Dial`, `NextDatabase`, `MakeCommand`, `Flush`, `Send`): an iterator
per database, a RAWSET per record, a pipeline flushed every so many.  `Receive` and
`RawSet` are the loop of the slave that serves the copy's connection, its "own" one,
which SYNCFROM blocks, or an "other"; replies nobody reads fill the buffers
(`RepliesStuck`).  `Sync(i)` are the two sync threads, the cancelled one and its
successor, as in `Replication` with a log and a cursor only.  A value is the number of the write it
comes from.

`Cancelled` takes effect wherever the thread is.  In a send, a receive or a sleep it
leaves nothing behind (`LeavesNothing`); while it writes `MASTER_INFO`, an empty file, with
which no sync thread starts, or a position whose records are not applied (`LeavesInfo`); in a
write, what it held for good (`LeavesLocked`): leveldb's queue of writers of that
database, or `m_binlogMutex` (`held`).  A thread that comes to `m_binlogMutex` then stays
there (`halted`), and so does a write to that database.  `SendFails`, `MasterDies`
and `HostLost` end the copy and its locals with it (`WalkEnds`); nobody tells a slave
whose master's host is lost, and `recv` has no timeout.

### Config and Startup

`LoadCfg` folds the elements of a document into a `Cfg`, `RangesOK` and its
neighbours are `OneValueCfgChecker`, comparisons as the code has them.  `Startup` takes any
of a set of documents.  `main` is the main thread from `main()` to the destructors of
`startOneValue`'s locals, `guard` the process in front of it.  `StartPool`,
`OpenDb`, `MapNode`, `StartServices`, `Listen`, `LoopExits`, `ClearMapping`,
`Terminate`, `DeleteDb`, `StopPool` go one after the other; event loops, the slave's
sync thread and the expiry thread meanwhile look a database up by a key
(`MapToDatabase`) or walk over the list (`WalkDatabases`), use it and come back
(`Used`); `pthread_cancel` takes effect at some later step (`Cancelled`).  `Signal` is
the arrival of SIGTERM or SIGINT in some thread, which does not go on while the handler
runs inside of it (`Interrupted`); the handler goes from `RemoveListener` (`event_del`) to
`CloseListener`, `ExitLoop` (`event_base_loopexit`) and `LogStop`.  Three of these take locks,
of the event base, of `malloc`, of `localtime`: if the thread below holds one of
them, it waits for itself (`Sticks`), and whoever needs that lock next waits too
(`Blocks`).  `Killed` is any other end, `Waited` the guard's `wait` with what
it makes of the exit status.  `early` are threads that looked before the mapping was
cleared.

## Checks

| Run | Instance | Question |
|---|---|---|
| `binlog_store` | 2 threads, 2 keys in 2 databases, 2 values, files of 2 records, 4 requests, 2 faults | `LogReproducesDb`, `RecordsAreListed`, `DurableRecordsStay` under racing writers, rotation, files that cannot be opened or written, kill and restart |
| `replication` | 1 thread, 1 key, 2 values, files and streams of 2 records, 3 requests, 1 master fault, 1 pull fault | `EveryRecordAccounted`, `CursorOnDisk`, `ReplicaEqualsMaster`, refinement to `LogShipping` (order, none twice), and `CatchesUp` under fairness |
| `replication_gap` | no faults | finds that `onSyncCommand` can pass a record over |
| `lists` | 2 threads, 2 lists that share a mutex, in 2 databases, 2 values, indexes -2, 0, 1, 1 value in a push, 3 commands, 1 kill | `Contents`, `ReadsAgree`, `NoOrphans` under racing commands, FLUSHDB and a kill; `CommandsEnd` under fairness |
| `lists_trim` | 1 thread, 1 list, pushes of 3 values, no kill | finds that LTRIM with `start > stop` hides elements |
| `strings` | 2 threads, 2 keys that share a mutex, 13 commands, 3 of them, clock to 1, hashes of 4 bits, texts of 3 bytes | `NoLostUpdate`, `MutexesReleased`, `CountsWhatWasAdded`, and `BytesAgree` for all texts |
| `expiry` | 2 threads, 1 key, 2 paddings, the records in another database than the key, SETEX, PFMERGE, DEL, EXPIRE, FLUSHDB, 2 of them, clock to 1, batch of 2, 1 kill | `NeverEarly`, `NoLeak` with stale snapshots; `RecordsExpire`, `CommandsEnd` under fairness |
| `collections` | 2 threads, 2 names, strings of 0, 1 and 256 bytes, every store at the start, 2 commands, 1 kill | `AloneLikeRedis`, `MembersKept`; `SortedReadsAgree`, `SetReadsAgree`, `RepliesAgree` on every store reached |
| `connections` | 3 clients from 2 addresses, 2 loops, 5 scenarios, 1 full socket, 1 client that hangs up, 3 top keys with a slack of 2 | `AnsweredInOrder`, `NoneForgotten`, `RequestsCounted`, `TopKeysKept`; `EveryRequestAnswered` under fairness |
| `full_copy` | 2 or 4 keys in 2 databases, pipelines of 2, sockets that hold 1 RAWSET and 1 reply, 2 writes, 1 fault | `CopyIsComplete`; `SyncFromEnds` under fairness |
| `startup` | 10 documents, tables of 4 hash values, 2 loops, 1 signal, 1 kill | `KeysFindTheirDatabase`, `LookedUpBefore`; `StopsWhenTold`, `ComesBack` under fairness |
| `startup_ttl` | the same | finds the expiry thread in a database that `stop()` has deleted |

The bounds: two threads are enough for every order of `Put` and append of one
key; files of two records make every second write rotate, so that three or four
writes cross a rotation with an open file behind it; streams of two records end
a reply inside a file, at its end and across two files; two faults give a crash
during recovery from a crash or from a failed rotation.  For lists, an index of
-2, 0 or 1 is before, at and behind the ends of lists of zero to three elements;
three commands give one to fill a list and two that race on it; the mutex makes
a third thread wait like the second.  For strings, one command writes the value and two
race on it; for expiry, two commands give a record and its renewal, removal or merge, two
paddings give a key two records, a batch of 2 a clock that is older than the
record.  For collections, two commands on any store meet in every way two can, and a
third only meets either of them; 256 bytes are the first length that comes before a
smaller one, and such a string beside a shorter one the smallest instance where the two
orders of strings differ.  For connections, one scenario cuts three requests
anywhere, one sends enough keys to throw two of them out, one has two loops that both
want to put a key into the queue, and two put a connection
beside one that is blocked or stuck, on its loop and on the other.  For the copy, two keys get
through to both databases whatever their replies do; with four, the replies to the first two
fill the buffers while the last two are on their way, so that every way to wait is reached.  For the start, the
documents have ranges that are complete, out of order, with a gap, an overlap, a name
twice, a slot beyond the table, or none.  What longer histories could do is covered
by the theorems.  The bounds `MaxWrites`, `MaxOps`, `MaxFaults`, `MaxPullFaults`,
`MaxClock`, `MaxAgains`, `MaxHangups`, `MaxSignals`, `MaxKills` stand in the guards of
requests, faults and the clock only, so every request in progress runs to its end.
`MaxBytes` bounds the texts `BytesAgree` is asked of, `Top` the indexes of reads.  No deadlock check
where, with all requests and faults used up, the system rests (the expiry thread never does).

Fairness (`FairSpec`): a thread of a live process goes on with its request, the
guard restarts a dead server (`non-portable.cpp` loops for ever), the worker
serves a request, the `Sync` thread is scheduled and retries for ever
(`repairConnect`), and so are a thread in a list or string command and the expiry
thread, and time passes.  `RecordsExpire` speaks of records whose padding the
thread's seeks reach time and again: a seek starts at an arbitrary padding, and
the code does nothing to make it a small one.  Nothing is assumed of
clients, faults, or stdio.  `CommandsEnd` needs no strong fairness of the mutex:
commands are bounded, so a mutex is not taken away from a waiting thread for ever.

For connections, `Serve` is weakly fair for each client: its loop is scheduled and the
other end of its socket reads on, while no client need send, and a command that blocks
never returns.  For the copy, the two handlers, the loop that serves the copy and both
sync threads are scheduled; failures and kills need not come.  For the start, the main thread and the
guard are; threads, signals and kills may or may not do anything.

Three findings.  `onSyncCommand` reads the open file under the mutex at the size it has
then, but the loop over the files reads `fileCount()` anew in each round
(`cmdhandler.cpp:984`).  A record appended after the read and before a rotation
is skipped for ever, since the reply's cursor names the next file.  The positive
properties therefore say exactly what can be lost: `EveryRecordAccounted` admits
that window (`skipped`) and the slave's crash between `MASTER_INFO` and the
database (`dropped`), besides the files that a kill has cut out of `BINLOG_INDEX`
(`forgotten`).  `TList::ltrim`, for `start > stop`,
moves `start` to `right_pos - 1` but leaves `stop` (`t_list.cpp:334`), so that the
written `left_pos = start - 1`, `right_pos = stop + 1` may have a negative size;
the next pushed element then lies outside of the list, and LPOP does not find it.
The positive properties leave such lists out until they are cleared.  And
`LeveldbCluster::stop` stops the expiry thread "before the database shutdown, else it
may coredumped" (`leveldb.cpp:359`), by `pthread_cancel`, which does not wait for it
(`thread.cpp:107`).

Seen while modelling and excepted where a property meets it: the parser takes a cut
at the CR of a number for an error or a byte behind the buffer for an LF
(`redisproto.cpp:98`); PFCOUNT appends an extra `$-1` for each key that is missing (`cmdhandler.cpp:829`); PFMERGE
returns with the mutex locked when a key is missing (`cmdhandler.cpp:870`); INCRBYFLOAT of a text
never finishes (`cmdhandler.cpp:393`); LIMIT announces as many elements as it was
asked for (`zsetcmdhandler.cpp:848`).  Of the liveness properties, `CatchesUp` excepts a sync
thread that a fault has ended (no master at the first connect, an emptied `MASTER_INFO`, a
file the master has forgotten) and the time while a file with a torn record is listed;
`SyncFromEnds` three ways to wait (the copy's connection on the loop that SYNCFROM blocks,
replies nobody reads, a write behind the cancelled thread) and a master whose host is lost;
`StopsWhenTold` a process in which a thread is stuck under the handler, or behind one
that is; `EveryRequestAnswered` the connections behind a blocked loop.

## Proofs

`BinlogStoreProofs` proves for any threads, keys, values and bounds:

* `StoreTyping`: `StoreSpec => []StoreTypeOK`;
* `RecordsListed`: `StoreSpec => []RecordsAreListed`;
* `DurableRecords`: `StoreSpec => DurableRecordsStay`;
* `LogReproduces`: `StoreSpec => []LogReproducesDb`.

They rest on the inductive invariant `StoreInv` (`StoreInvariant`): whoever is in
a stage of the rotation holds the mutex (`MutexInv`); all names in the lists are
names of existing files, and the file about to be published is behind all that are
listed (`FileInv`); both lists ascend, and the open file is the last one of the list in
memory (`ListInv`); a dead process has no threads and no open file (`DeadInv`).
`RecordsAreListed` follows from `TailInv`, which says what a kill finds on the disk: names of
the list are missing in `BINLOG_INDEX` only while it is rewritten or when that has
failed, every file with records is known or forgotten, a file that no list has got yet
has none, and what is forgotten is never listed or written again.
`DurableRecordsStay` goes by `KeptGrows`, the number of durable records of a file never
shrinks.

`LogReproducesDb` relates the database to the newest record of each key, and a thread
stands between its two writes most of the time.  `RecordInv` (`RecordInvariant`)
says by how much they may differ: for a key that no crash, FLUSHDB or overlapping
write has touched, either the newest record in the log, durable or buffered, has the value that
is in the database, or one thread, and only one, has yet to append its record
(`Pending`), and that record has it.  The log is that of the files the program knows, so the
step of a kill shows that a key with a record in a file cut out is `unlogged`
from then on.  A record only ever comes behind all others (`NewAtTail`), and what
is durable stays where it is.  The assumptions are `StoreAssumption` only.

`ReplicationProofs` proves for any threads, keys, values, sizes of files and streams,
and any number of requests and faults:

* `ReplicationTyping`: `Spec => []TypeOK`;
* `ReplicationCursor`: `Spec => []CursorOnDisk`;
* `ReplicationAccounts`: `Spec => []EveryRecordAccounted`;
* `ReplicationImplements`: `Spec => ImplementsLogShipping`, the refinement, under the
  mapping of `Replication`;
* `ReplicaEquals`: `Spec => []ReplicaEqualsMaster`.

The argument stands on what a cursor is.  A cursor given out (`Given`: the slave's, the one
in `MASTER_INFO`, the one of the walk or of a reply under way) names a durable record,
and no file before its own will be written again, so that whatever is logged later
comes behind it (`KnownBefore`).  `ReplicationInv` (`ReplicationInvariant`) adds to
`StoreInv` and `TailInv`: at most one message is under way (`NetInv`); what each stage of
the slave has in its files (`SlaveInv`); the walk stands at the file its cursor names
or behind it (`ScanInv`); what is on its way lies in order between the slave's
cursor and the one that comes with it (`Stream`), and nothing of the log between these is
missing from it but what the window of the rotation skips (`Covered`); what has been applied
lies before what is left of the batch (`BatchInv`); and everything the log has up to the
slave's cursor is applied, in the batch, among the lost ones, or in a forgotten file
(`Accounted`).  The
hardest step is `WalkFile` (`WalkFileInv`): between two rounds of the walk writers append and
rotate, and the list of files it indexes grows.  `ReplicationImplements` reads the
steps of `LogShipping` off this invariant: a record applied is the next of the
log, or those in between are counted as lost; the log there loses the records of the files
that a kill has cut out, and what such a file still brings to the slave is in order too.

`CopyInv` (`CopyInvariant`) adds the values: what the slave has for a key is the
value of the last record applied for it, records are applied in the order of the log
and travel as the master wrote them.  Once all of the files known are applied, the last for a key is the
newest in the log, and `RecordInv` of the master says that this is what its database has.  The assumptions are
`StoreAssumption` and `ReplicationAssumption`.

`ListsProofs` proves for any lists, values, threads, stripes and bounds:

* `ListTyping`: `Spec => []TypeOK`;
* `ListContents`: `Spec => []Contents`;
* `ListOrphans`: `Spec => []NoOrphans`;
* `ListReads`: `Spec => []ReadsAgree`, for every set of integer indexes.

None of these is inductive: between its two writes a command leaves records that
do not fit.  `ListInv` (`ListInvariant`) says what each stage needs.  `LockInv`:
a thread in the middle holds the mutex of its list, so at most one is
(`Exclusion`).  `StageOK`: which command a stage belongs to, and the early
returns it has passed.  `ThreadOK`: the meta record it has read is still the one
in the database, the element records it relies on (`Needed`) are there, and no
others than it accounts for (`Allowed`).  `ListOK`: every element record that is
present inside the bounds holds the element of `seq` at its place, busy or not,
and all of them are present, and no others, when no command is in the middle.  The step proofs go
action by action; `Frame` shows once for all that a step on one list leaves the
rest alone.  `ListReads` follows from `ListContents` by arithmetic on indexes
(`ClampBounds`, `TrimmedFacts`).  The assumptions are `ListAssumption` only.

`CollectionsProofs` proves for any threads, names, fields, records and kills:

* `CollectionTyping`: `Spec => []TypeOK`;
* `CollectionMembers`: `Spec => []MembersKept`;
* `CollectionSets`: `Spec => []SetReadsAgree`;
* `CollectionSorted`: `Spec => []SortedReadsAgree`;
* `CollectionReplies`: `Spec => []RepliesAgree`;
* `CollectionAlone`: `Spec => AloneLikeRedis`;
* `RangeLikeRedis`: ZRANGE returns the slice Redis defines for any list and any two
  indexes that do not lie behind or before it, by arithmetic on `transformIndex`.

`MembersKept` depends on what a thread has still to do, so `CollectionInv`
(`CollectionInvariant`) says what that may be.  `ProgOK`: each call left in a program is a
proper one for the type, so that whatever another command calls next, the record it
leaves is of that type.  `MoveOK`: a thread in SMOVE has the read, the `hdel` and the
`hset` of one and the same field left, or the last two, or the `hset`.  A member whose record goes
is then in the hands of the thread that took it (`Carries`), and leaves them only for a set; any
other command that deletes it takes it out of `kept` in the same step.  `LookSafe`,
`PutSafe` and `DeleteSafe` are the three kinds of calls.

The three theorems on reads hold of all records of the type, so that nothing but `TypeOK` is
needed of the state; the work is in the algorithms.  These are recursive functions, and what
the prover has to be told first is that there are functions that solve their equations.
`Recursion` shows it for every equation that reads only arguments of a smaller measure, and
`ByMeasure` is the induction that goes with it; both follow from the existence of a minimal element
(`LeastNat`), as the library's induction rules cannot be cited.  On them stand:

* `ListedIs`: a finite set under a strict total order has a list in that order (by the rank
  of each element), which holds every element once; `StoredIs` and `AscendingIs` are
  the orders of the keys in leveldb and of the scores; `OneOrder`: there is only one such list;
* `OnlyIs`, `ThinsKeeps`: a selection has the elements asked for, in the order they had, which
  makes SUNION exact, and ZCOUNT, which selects from the records as they come, as large as
  the range by score, which selects from the sorted ones (`RangesAgree`);
* `DiffIs`, `InterIs`: `std::set_difference` on two lists in any order loses nothing that
  belongs in its result, and `std::set_intersection` returns nothing that does not; on rising lists
  both are exact.  The measure is what is left of both lists.  `OfSetsIs` carries this from set to
  set, `StoredRises` says when the lists rise;
* `RankAtEnds`, `RevRangeIs`, `PagesJoin`, `LimitSound`: the index arithmetic of ranks, of ranges
  from the end and of LIMIT; `PairsSound` and `StringsSound`: what a reply announces.

`AloneLikeRedis` compares the records at a reply with those at the command, many steps apart.
`SoloInv` says where a command is in between that no other one has met: what is left of its
program, the value or the members it has read and the records as they are now lead to what Redis
defines (`OnTheWay`), in one of three ways.  `Finishing`: it only writes from now on, and a record
ends as the last call left about it says, or stays (`Ends`), which is what the command is to make of
it; HMSET, SADD, ZADD, HDEL, SREM, HCLEAR and FLUSHDB begin so.  `Reading`: it has written nothing, and what it holds is
what it found (HSETNX, the INCRs, SPOP, SMOVE, the ranges).  `Storing`: SUNIONSTORE, SINTERSTORE or
SDIFFSTORE has read the first of its sources (`SoFar`, as for the reads), and its destination is as it was, being emptied, or
empty.  Around it: a call touches only what its command is about (`AllowedOK`), two commands
of which one is not disturbed share no record (`ApartOK`), so that a step of one leaves the other
where it was (`Local`), and a thread at rest holds nothing (`IdleOK`).  `AtReply` reads the effect off an
empty program; `StartAlone` begins every command, `StepAlone` is the frame of
every call.  Every exception in `Deviates` is used: by `LookOn`, `NumberOn`, `ScoreOn`, `SourceKept`,
`GatheredAll` with `NoneIs`, and `RanksAreSlice`.

The orders rest on `OctetsOf`, `LengthsOrdered` and `KeysOrdered`: the bytes of an `int`, lowest
first, order lengths strictly and totally, though not as numbers.

The assumptions are `CutsAssumption`, that a string begins with itself, and
`CollectionAssumption`: of the sets the model starts with, the record of a
member holds that member, as `makeHashKey` and SADD write it; the strings are finitely many, so that
a hash has finitely many records; `Nil` is no string; and `Top` is at least the last index of the
largest set, as `rand()` reaches every index of a set in memory.

`FullCopyProofs` proves for any keys, databases, pipelines, buffers, writes and kills:

* `FullCopyComplete`: `Spec => []CopyIsComplete`.

`CopyIsComplete` speaks of the quiet end, `FullCopyInv` (`FullCopyInvariant`) of every state
on the way.  `KeyInv`: unless the copy was cut short or two sync threads have run
at once, a key that the master has, and that the histories do not except, is on the slave with
its value, or will still come with the copy (`Coming`: its database is not reached, or
its record is in the iterator, the batch or a buffer), or is in the part of the log behind what
has been applied (`InLog`).  `FlightInv`: a record on its way has the master's value unless
its key was written meanwhile.  `LogInv`: the last record for a key in the log is what the
master has.  `SyncInv`: what a sync thread has received is the part of the log behind
`MASTER_INFO` before it saves its position, and the part before it afterwards.  `StageInv`:
where the copy stands.  `ApplySafe` is the step where the copy and the log meet: a record
applied may overwrite what the copy has brought, but then a later one is in the log, or it is the
last.  What a cancelled thread has left locked only ever stops writers, so it
costs the proof one thing: a thread that waits for `m_binlogMutex` has its record in the
database and still in its hands.  The assumptions are `FullCopyAssumption` only.

`StartupProofs` proves for any documents, tables, numbers of threads and bounds:

* `StartupTyping`: `Spec => []StartupTypeOK`;
* `StartupMapping`: `Spec => []KeysFindTheirDatabase`;
* `StartupLookups`: `Spec => []LookedUpBefore`.

`StartupInv` (`StartupInvariant`) adds what holds before there are databases and after
them (`Fresh`), that only a configuration the checker accepts gets further
(`Accepted`), how many databases are open at each stage (`Opened`), and what the
nodes mapped so far have left in the table (`Mapped`).  The checker's test of a range
lets one slot beyond the table through (`onevaluecfg.cpp:309`), and its search
for overlaps goes by a table; `NodesApart` shows that what passes nevertheless has
no slot in two nodes.  The assumptions are `ConfigAssumption` and `StartupAssumption`.

`KeyProofs` proves for any keys, threads, stripes, databases, bytes and bounds:

* `StringTyping`: `StringsSpec => []StringsTypeOK`;
* `StringUpdates`: `StringsSpec => []NoLostUpdate`;
* `StringMutexes`: `StringsSpec => []MutexesReleased`;
* `StringsBytes`: `StringsSpec => []BytesAgree`.

`NoLostUpdate` is not inductive: it does not say that the value a command has
read is as good as the one it overwrites.  `StringInv` (`StringInvariant`) adds
that: `HolderOK`, a thread in the middle of a locked command holds the mutex of
its key, and everything the key must show is in what the thread has read (`Kept`);
SET, DEL and FLUSHDB come without the mutex, but they only make what must be shown smaller.
`StageOK` says which command a stage belongs to.  `StepPreserves` shows once that
a step of one thread leaves the others what they rely on.

`BytesAgree` needs no invariant: it is a fact about the operators, so what the run asks of
texts of three bytes holds of texts of any length.  `SetRangeWrites` compares the three
pieces that SETRANGE puts together with the value written over byte by byte,
`GetRangeReads` the two transformed ends of a range with the places it names (`NthPlace`: the
k-th of them is where counting says), `CutCString` shows that a text with a NUL always loses
bytes on its way through a C string.  The assumption is `ByteAssumption`: NUL is not one of
the letters, and a missing record is not a text.

And, with the expiry thread and kills, for any of these and any batch:

* `ExpiryTyping`: `Spec => []TypeOK`;
* `ExpiryNotEarly`: `Spec => []NeverEarly`;
* `ExpiryNoLeak`: `Spec => []NoLeak`.

`ExpiryInv` (`ExpiryInvariant`) is `StringInv`, these three and `TimesGiven`: every expiry
record, in the database or in the snapshot, holds a time that was given for its
key.  That, and a clock of the thread that is never ahead, is why a stale
snapshot cannot delete early.  The assumptions are `StringAssumption` and
`ExpiryAssumption`.

`ConnectionsProofs` proves for any clients, addresses, loops, commands and bounds:

* `NoneUncounted`: `Spec => []RequestsCounted`;
* `RunInOrder`: `Spec => []AnsweredInOrder`;
* `AllRun`: `Spec => []NoneForgotten`;
* `ParseIs`: what `Parse` returns on the beginning of a request;
* `TopKeysHold`: `Spec => []TopKeysKept`.

Those on states speak of a process in which no two threads have met in a container without a
lock (`torn`): of what comes then the model has no steps.

`CountInv` (`CountInvariant`) adds to the counts that who is counting holds `m_clientLock` and
has read the number as it still is (`LockInv`), and that a batch is counted only after
its last request has been run (`BatchInv`).

`ServeInv` (`ServeInvariant`) says of every connection how many requests, n, it has run,
and relates the rest to n: `parsed` is the end of the n-th request, and of the next one while that
is being handled; a connection that waits has not received the end of the next one
(`ParsedOK`); what has been sent and what waits in the buffer are the n replies, and the buffer
is empty when nothing is (`RepliesOK`).  Neither property is inductive without
these.  That a step keeps `ServeInv` rests on `ParseIs`: a connection goes on parsing at the beginning of
a request, with any part of it and of what follows.  `Request` puts a request together as a chain of tokens,
and the parser walks along the chain; that it is past all of them, or stops at the
one that is cut, is an induction over the tokens.  It is made as everywhere here: the
bad numbers have a smallest one (`MinimalSubset`, from the library's theorem that the subsets
of a finite set are well-founded), which the step before it refutes; the same argument gives the
sums of the counts and the folds that decode a number.

`TopInv` (`TopInvariant`) names the keys of the list (`ks` in `Fits`): all different, the later counted
in front of the earlier (`InOrderOf`), each led by the map to the node at its place (`MapsTo`), each with a
count the history bounds (`CountsOf`).  A full list throws out places behind the spared ones
only; a key at place p has p - 1 keys in front that were counted since, and the new one makes
it p (`NotSpared`), so it need not be spared any longer.  That counts are exact while all keys fit needs `Spared`:
until then no key asked for has been thrown out.

`ParseIs` excepts exactly the cuts at which the parser goes wrong (`ReadOf`): at the CR of a number,
where it looks at the byte behind the buffer, and behind the length of an empty bulk that
ends a request.  Connections that TCP has cut there are `unlucky`.  The assumptions are
`ConnectionAssumption`, of which the loops are numbered as in the code's array, `TopKeysAssumption` (of a
full list at least one node may go and at most all: 500 of 5000000 in the code), and
`ScenarioAssumption`: requests of one to nine tokens of up to nine bytes, because `Encoded` writes a number as one
digit.  This is a bound of the model: numbers of more digits are
outside what is proved.

Only model-checked: what `HyperLogLogs` promises, and
all liveness (`CatchesUp`, both `CommandsEnd`, `RecordsExpire`, `EveryRequestAnswered`,
`SyncFromEnds`, `StopsWhenTold`, `ComesBack`), which is outside what the prover can
do.  `CountsWhatWasAdded` stands on bitwise operations, which are recursive operators.

## Not modelled

* fsync and loss of power: the program never syncs the binlog; the model has kills
  of the process, not of the machine.
* Two binlog files with the same name (the name holds the second and a random number).
* `binlog enabled="0"`, and a slave that is a master itself; the slave's own expiry
  thread, which changes its databases too.
* The data races on `m_binlogFileList` and `Binlog::m_fileName`, which
  `onSyncCommand` reads without the mutex, beyond seeing the old or the new value.
* The reports of `TOPKEY`, `TOPVALUE` and `STATUS`: they only read.  Those of the top
  keys keep iterators over an unlock, while the recorder erases what they point to; whatever
  overlaps one may read freed memory.
* The VIP address (`RedisProxy::run`, `vipHandler`, `setVipAddress`): a server that finds it
  answered keeps a connection to it and takes the address when that connection ends.  Who
  holds it is decided by the interfaces and ARP tables of several hosts, which the
  program does not see.  The Unix socket, a second way to the same `onAcceptHandler`.
* The 10 kB buffer `IOBuffer` formats into; the
  floating-point estimate PFCOUNT makes of the registers; increments beyond an `int`.
* Of the configuration: paths, ports and the options handed on to leveldb.
* What lies behind the end of a fixed buffer: the 32 bytes a score is printed into, which one
  of 1e25 or more overruns (`zsetcmdhandler.cpp:637`), and the array of 1024 tokens of a
  request (`redisproto.h:31`).
* What a process does once two threads have met in a container without a lock.
* In `Expiry`, an order of the times given for a key: any time once set for it counts for
  `NeverEarly`, one that a later EXPIRE has replaced included.
* Utilities (buffers, hash functions, sockets, logging) and TinyXML, which is
  third-party code.

## Plan

1. `BinlogStore`, `Replication`, `LogShipping` (done).
2. `Lists` (done).
3. `Strings`: the striped mutex, commands that skip it, error returns that leave
   it locked (done); `HyperLogLogs`, `StringBytes` (done).
4. `Expiry`: the expiry thread against EXPIRE, SET, DEL, FLUSHDB (done).
5. `Config`, `Startup`: hash ranges of the configuration; start and stop of the server
   (done, with proofs).
6. `Connections`, `FullCopy`: pipelined requests, replies, SYNCFROM (done).
7. `Collections`: hashes, sets, sorted sets (done).
8. Proofs: `Replication` refines `LogShipping`, what becomes of every record, equal
   databases in the end, SMOVE loses no member, a copy in full is complete, no count is lost
   under `m_clientLock`, the parser, requests and replies in order (done).
