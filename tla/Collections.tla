------------------------------- MODULE Collections -------------------------------
(***************************************************************************)
(* The commands on hashes, sets and sorted sets (src/src/t_hash.cpp,       *)
(* t_zset.cpp, hashcmdhandler.cpp, zsetcmdhandler.cpp).                    *)
(*                                                                         *)
(* Each field, member or element is a record of its own.  A command is a   *)
(* program of calls of THash, each of which reads or writes leveldb; no    *)
(* mutex is taken, so the calls of two commands interleave as they come.   *)
(*                                                                         *)
(* A value of a hash is a number, Text or Blank, the empty string; the     *)
(* record of a set's member holds the member; that of a sorted set its     *)
(* score.                                                                  *)
(***************************************************************************)
EXTENDS Replies

CONSTANTS
  Threads,       \* worker threads
  Kinds,         \* "hash", "set", "zset": types never meet, their keys differ
  Targets,       \* the names commands are about, by kind
  Stores,        \* what they may hold at the start, by kind
  FieldLists,    \* lists of fields clients send
  SourceLists,   \* lists of names clients send to the STORE commands
  Numbers,       \* numbers clients send: increments, scores
  Values,        \* values clients give a field of a hash
  Indexes,       \* ranks clients send
  Top,           \* indexes, scores and limits of reads lie in -Top..Top
  Junk,          \* what uninitialised memory may read as
  NoCmd,         \* no command
  MaxOps,        \* bound: commands
  MaxFaults      \* bound: kills of the process

ASSUME CollectionAssumption ==
  /\ SetAssumption
  /\ Kinds \subseteq {"hash", "set", "zset"}
  /\ \A k \in Kinds : 
       /\ Targets[k] \subseteq Names
       /\ Stores[k] \subseteq [Names -> [Fields -> OfKind(k)]]
       /\ k = "set" => \A s \in Stores[k], n \in Names, f \in Fields : s[n][f] \in {Itself(f), NoValue}
  /\ FieldLists \subseteq Seq(Fields) \ {<<>>}
  /\ SourceLists \subseteq Seq(Names) \ {<<>>}
  /\ Numbers \subseteq Int
  /\ Values \subseteq OfKind("hash") \ {NoValue}
  /\ Indexes \subseteq Int
  /\ Top \in Nat /\ Cardinality(Fields) <= Top + 1   \* rand() reaches every member
  /\ Junk \subseteq Int /\ Junk # {}
  /\ NoCmd \notin Request
  /\ Nil \notin [string : Fields \cup Value, whole : BOOLEAN]
  /\ MaxOps \in Nat
  /\ MaxFaults \in Nat

VARIABLES
  kind,          \* the type of all names
  store,         \* the record of each field of each name
  prog,          \* the calls each thread still has to make
  cmd,           \* its command
  got,           \* the value it has read
  list,          \* the members it has gathered
  ops, faults,   \* bounds
  before,        \* the records when its command came
  disturbed,     \* threads whose command has met another one on a record
  kept           \* members that must be in some set

locals  == <<prog, cmd, got, list>>
history == <<before, disturbed>>
vars    == <<kind, store, locals, ops, faults, history, kept>>

-----------------------------------------------------------------------------
(* Calls *)

\* A call is about one field; the deletions and writes that follow a walk over the
\* records are one call about several, in an order left open.
Call(do, n, f, v) == [do |-> do, name |-> n, fields |-> {f}, value |-> v]
Each(do, n, fs)   == IF fs = {} THEN <<>> ELSE <<[do |-> do, name |-> n, fields |-> fs, value |-> NoValue]>>
Whole(do, n)      == [do |-> do, name |-> n, fields |-> {}, value |-> NoValue]

Hsets(n, fs, vs) == [i \in DOMAIN fs |-> Call("hset", n, fs[i], vs[i])]
Hdels(n, fs)     == [i \in DOMAIN fs |-> Call("hdel", n, fs[i], NoValue)]

\* SREM looks at each member before it deletes it.
Hrems(n, fs) ==
  [i \in 1..2 * Len(fs) |->
     Call(IF i % 2 = 1 THEN "if_there" ELSE "hdel", n, fs[(i + 1) \div 2], NoValue)]

Empty == [n \in Names |-> [f \in Fields |-> NoValue]]

\* The next calls of a thread; none is the reply.
Goes(t, p) ==
  /\ prog' = [prog EXCEPT ![t] = p]
  /\ IF p # <<>> THEN UNCHANGED <<cmd, history>>
     ELSE /\ cmd' = [cmd EXCEPT ![t] = NoCmd]
          /\ before' = [before EXCEPT ![t] = Empty]
          /\ disturbed' = disturbed \ {t}

Keeps(t, p, v, l) ==
  /\ got' = [got EXCEPT ![t] = IF p = <<>> THEN NoValue ELSE v]
  /\ list' = [list EXCEPT ![t] = IF p = <<>> THEN <<>> ELSE l]

Now(t)       == Head(prog[t])
Rest(t)      == Tail(prog[t])
Calls(t, do) == prog[t] # <<>> /\ Now(t).do = do
Hash(t)      == store[Now(t).name]

\* What is left when the call has dealt with f.
Behind(t, f) ==
  IF Now(t).fields = {f} THEN Rest(t)
  ELSE <<[Now(t) EXCEPT !.fields = @ \ {f}]>> \o Rest(t)

-----------------------------------------------------------------------------
(* Commands *)

Meets(t, c) == {u \in Threads \ {t} : cmd[u] # NoCmd /\ Touched(cmd[u]) \cap Touched(c) # {}}

Start(t, c, p) ==
  /\ prog[t] = <<>>
  /\ ops < MaxOps
  /\ ops' = ops + 1
  /\ prog' = [prog EXCEPT ![t] = p]
  /\ cmd' = [cmd EXCEPT ![t] = c]
  /\ before' = [before EXCEPT ![t] = store]
  /\ disturbed' = disturbed \cup Meets(t, c) \cup (IF Meets(t, c) = {} THEN {} ELSE {t})
  /\ UNCHANGED <<kind, store, got, list, faults, kept>>

\* HSET, HMSET.
HMSet(t) ==
  \E n \in Targets[kind], fs \in FieldLists : \E vs \in [DOMAIN fs -> Values] :
    Start(t, [Plain("hmset", n) EXCEPT !.fields = fs, !.values = vs], Hsets(n, fs, vs))

HSetNX(t) ==
  \E n \in Targets[kind], f \in Fields, v \in Values :
    Start(t, [Plain("hsetnx", n) EXCEPT !.fields = <<f>>, !.values = <<v>>],
          <<Call("if_missing", n, f, NoValue), Call("hset", n, f, v)>>)

\* HINCRBY, HINCRBYFLOAT.
HIncrBy(t) ==
  \E n \in Targets[kind], f \in Fields, by \in Numbers :
    Start(t, [Plain("hincrby", n) EXCEPT !.fields = <<f>>, !.values = <<by>>],
          <<Call("if_there", n, f, NoValue), Call("hget_number", n, f, NoValue),
            Call("add", n, f, by)>>)

\* HDEL, ZREM.
HDel(t) ==
  \E n \in Targets[kind], fs \in FieldLists :
    Start(t, [Plain("hdel", n) EXCEPT !.fields = fs], Hdels(n, fs))

HClear(t) == \E n \in Targets[kind] : Start(t, Plain("hclear", n), <<Whole("hclear", n)>>)
SClear(t) == HClear(t)

\* The record of a member of a set holds the member.
Selves(fs) == [i \in DOMAIN fs |-> Itself(fs[i])]

SAdd(t) ==
  \E n \in Targets[kind], fs \in FieldLists :
    LET vs == Selves(fs)
    IN Start(t, [Plain("hmset", n) EXCEPT !.fields = fs, !.values = vs], Hsets(n, fs, vs))

SRem(t) ==
  \E n \in Targets[kind], fs \in FieldLists :
    Start(t, [Plain("srem", n) EXCEPT !.fields = fs], Hrems(n, fs))

SPop(t) == \E n \in Targets[kind] : Start(t, Plain("spop", n), <<Whole("spop", n)>>)

SMovePutFirst(t) ==
  \E n, d \in Targets[kind], f \in Fields :
    Start(t, [Plain("smove", n) EXCEPT !.fields = <<f>>, !.from = <<d>>],
          <<Call("hget_member", n, f, NoValue), Call("hset_member", d, f, NoValue),
            Call("hdel", n, f, NoValue)>>)

SMove(t) ==
  \E n, d \in Targets[kind], f \in Fields :
    Start(t, [Plain("smove", n) EXCEPT !.fields = <<f>>, !.from = <<d>>],
          <<Call("hget_member", n, f, NoValue), Call("hdel", n, f, NoValue),
            Call("hset_member", d, f, NoValue)>>)

Gathers(op, names) == [i \in DOMAIN names |-> Whole(op, names[i])]

SUnionStoreClearFirst(t) ==
  \E n \in Targets[kind], from \in SourceLists :
    Start(t, [Plain("union", n) EXCEPT !.from = from],
          <<Whole("hclear", n)>> \o Gathers("union", from) \o <<Whole("fill", n)>>)

SUnionStore(t) ==
  \E n \in Targets[kind], from \in SourceLists :
    Start(t, [Plain("union", n) EXCEPT !.from = from],
          Gathers("union", from) \o <<Whole("hclear", n), Whole("fill", n)>>)

\* SINTERSTORE reads its first set, clears the destination and reads the others.
SInterStore(t) ==
  \E n \in Targets[kind], from \in SourceLists :
    Start(t, [Plain("inter", n) EXCEPT !.from = from],
          <<Whole("first", from[1]), Whole("hclear", n)>>
            \o Gathers("inter", Tail(from)) \o <<Whole("fill", n)>>)

\* SDIFFSTORE clears the destination first.
SDiffStore(t) ==
  \E n \in Targets[kind], from \in SourceLists :
    Start(t, [Plain("diff", n) EXCEPT !.from = from],
          <<Whole("hclear", n), Whole("first", from[1])>>
            \o Gathers("diff", Tail(from)) \o <<Whole("fill", n)>>)

\* ZADD checks all scores before it writes the first.
ZAdd(t) ==
  \E n \in Targets[kind], fs \in FieldLists : \E vs \in [DOMAIN fs -> Numbers] :
    Start(t, [Plain("hmset", n) EXCEPT !.fields = fs, !.values = vs], Hsets(n, fs, vs))

ZIncrBy(t) ==
  \E n \in Targets[kind], f \in Fields, by \in Numbers :
    Start(t, [Plain("zincrby", n) EXCEPT !.fields = <<f>>, !.values = <<by>>],
          <<Call("hget_score", n, f, by), Call("add", n, f, by)>>)

ZRemRangeByRank(t) ==
  \E n \in Targets[kind], i \in Indexes, j \in Indexes :
    Start(t, [Plain("by_rank", n) EXCEPT !.low = i, !.high = j], <<Whole("by_rank", n)>>)

\* ZCLEAR removes from the first rank to the last.
ZClear(t) ==
  \E n \in Targets[kind] :
    Start(t, [Plain("by_rank", n) EXCEPT !.low = 0, !.high = -1], <<Whole("by_rank", n)>>)

ZRemRangeByScore(t) ==
  \E n \in Targets[kind], i \in Numbers, j \in Numbers :
    Start(t, [Plain("by_score", n) EXCEPT !.low = i, !.high = j], <<Whole("by_score", n)>>)

\* FLUSHDB: the database of one name after that of the other.
FlushDb(t) ==
  \E ns \in SetToSeqs(Names) :
    Start(t, Plain("flushdb", ns[1]), Gathers("hclear", ns))

-----------------------------------------------------------------------------
(* The calls of THash *)

Hset(t) ==
  \E f \in IF Calls(t, "hset") THEN Now(t).fields ELSE {} :
    /\ store' = [store EXCEPT ![Now(t).name][f] = Now(t).value]
    /\ kept' = kept \cup {f}
    /\ Goes(t, Behind(t, f))
    /\ Keeps(t, Behind(t, f), got[t], list[t])
    /\ UNCHANGED <<kind, ops, faults>>

\* The hset of a member under itself.
HsetMember(t) ==
  \E f \in IF Calls(t, "hset_member") THEN Now(t).fields ELSE {} :
    /\ store' = [store EXCEPT ![Now(t).name][f] = Itself(f)]
    /\ kept' = kept \cup {f}
    /\ Goes(t, Behind(t, f))
    /\ Keeps(t, Behind(t, f), got[t], list[t])
    /\ UNCHANGED <<kind, ops, faults>>

\* A member that SMOVE deletes stays one to be kept.
Hdel(t) ==
  \E f \in IF Calls(t, "hdel") THEN Now(t).fields ELSE {} :
    /\ store' = [store EXCEPT ![Now(t).name][f] = NoValue]
    /\ kept' = IF cmd[t].op = "smove" THEN kept ELSE kept \ {f}
    /\ Goes(t, Behind(t, f))
    /\ Keeps(t, Behind(t, f), got[t], list[t])
    /\ UNCHANGED <<kind, ops, faults>>

\* hexists: if it fails, the next call is left out.
Hexists(t) ==
  \E do \in {"if_there", "if_missing"}, f \in Fields :
    /\ Calls(t, do) /\ f \in Now(t).fields
    /\ LET p == IF Exists(Hash(t)[f]) = (do = "if_there") THEN Rest(t) ELSE SubSeq(prog[t], 3, Len(prog[t]))
       IN Goes(t, p) /\ Keeps(t, p, got[t], list[t])
    /\ UNCHANGED <<kind, store, ops, faults, kept>>

\* hget of HINCRBY, which refuses a text.
GetNumber(t) ==
  \E f \in IF Calls(t, "hget_number") THEN Now(t).fields ELSE {} :
    /\ LET p == IF Hash(t)[f] = Text THEN <<>> ELSE Rest(t)
       IN Goes(t, p) /\ Keeps(t, p, Hash(t)[f], list[t])
    /\ UNCHANGED <<kind, store, ops, faults, kept>>

\* hget of SMOVE.
GetMember(t) ==
  \E f \in IF Calls(t, "hget_member") THEN Now(t).fields ELSE {} :
    /\ LET p == IF Hash(t)[f] = NoValue THEN <<>> ELSE Rest(t)
       IN Goes(t, p) /\ Keeps(t, p, NoValue, list[t])
    /\ UNCHANGED <<kind, store, ops, faults, kept>>

\* hget of ZINCRBY: a missing element is added, and the old score then taken from
\* what was not read.
GetScore(t) ==
  \E f \in IF Calls(t, "hget_score") THEN Now(t).fields ELSE {}, junk \in Junk :
    /\ LET none == Hash(t)[f] = NoValue
           p    == (IF none THEN <<Call("hset", Now(t).name, f, Now(t).value)>> ELSE <<>>) \o Rest(t)
       IN Goes(t, p) /\ Keeps(t, p, IF none THEN junk ELSE Hash(t)[f], list[t])
    /\ UNCHANGED <<kind, store, ops, faults, kept>>

Add(t) ==
  \E f \in IF Calls(t, "add") THEN Now(t).fields ELSE {} :
    /\ store' = [store EXCEPT ![Now(t).name][f] = Number(got[t]) + Now(t).value]
    /\ kept' = kept \cup {f}
    /\ Goes(t, Rest(t))
    /\ Keeps(t, Rest(t), NoValue, list[t])
    /\ UNCHANGED <<kind, ops, faults>>

\* The fields to delete that hclear, SPOP or a range finds in one walk.
Found(t) ==
  LET h == Hash(t) c == cmd[t]
  IN CASE Calls(t, "hclear")   -> {Members(h)}
       [] Calls(t, "spop")     -> IF Members(h) = {} THEN {{}} ELSE {{f} : f \in Members(h)}
       [] Calls(t, "by_rank")  -> {ByRank(h, c.low, c.high)}
       [] Calls(t, "by_score") -> {ByScore(h, c.low, c.high)}

Hgetall(t) ==
  \E fs \in IF \E do \in {"hclear", "spop", "by_rank", "by_score"} : Calls(t, do)
            THEN Found(t) ELSE {} :
    /\ LET p == Each("hdel", Now(t).name, fs) \o Rest(t)
       IN Goes(t, p) /\ Keeps(t, p, NoValue, list[t])
    /\ UNCHANGED <<kind, store, ops, faults, kept>>

\* The set commands read their sets one by one; without members left, SINTER and
\* SDIFF return, SINTERSTORE after its hclear.
ClearNext(t) == IF Rest(t) # <<>> /\ Head(Rest(t)).do = "hclear" THEN <<Head(Rest(t))>> ELSE <<>>

Gather(t) ==
  /\ \E do \in {"first", "union", "inter", "diff"} :
       /\ Calls(t, do)
       /\ LET l == IF do = "first" THEN Stored(Hash(t)) ELSE Combined(do, list[t], Stored(Hash(t)))
              p == CASE l # <<>> \/ do = "union" -> Rest(t)
                     [] l = <<>> /\ do # "union" -> ClearNext(t)
          IN Goes(t, p) /\ Keeps(t, p, NoValue, l)
  /\ UNCHANGED <<kind, store, ops, faults, kept>>

Fill(t) ==
  /\ Calls(t, "fill")
  /\ LET p == Each("hset_member", Now(t).name, {f \in Fields : f \in Range(list[t])})
     IN Goes(t, p) /\ Keeps(t, p, NoValue, <<>>)
  /\ UNCHANGED <<kind, store, ops, faults, kept>>

\* A kill and the restart behind it: what has been written stays.
Killed ==
  /\ faults < MaxFaults
  /\ faults' = faults + 1
  /\ prog' = [t \in Threads |-> <<>>]
  /\ cmd' = [t \in Threads |-> NoCmd]
  /\ got' = [t \in Threads |-> NoValue]
  /\ list' = [t \in Threads |-> <<>>]
  /\ before' = [t \in Threads |-> Empty]
  /\ disturbed' = {}
  /\ kept' = {f \in kept : \E n \in Names : store[n][f] # NoValue}
  /\ UNCHANGED <<kind, store, ops>>

-----------------------------------------------------------------------------
Init ==
  /\ kind \in Kinds
  /\ store \in Stores[kind]
  /\ prog = [t \in Threads |-> <<>>]
  /\ cmd = [t \in Threads |-> NoCmd]
  /\ got = [t \in Threads |-> NoValue]
  /\ list = [t \in Threads |-> <<>>]
  /\ ops = 0
  /\ faults = 0
  /\ before = [t \in Threads |-> Empty]
  /\ disturbed = {}
  /\ kept = {f \in Fields : \E n \in Names : store[n][f] # NoValue}

HashCommand(t) == kind = "hash" /\ (HMSet(t) \/ HSetNX(t) \/ HIncrBy(t) \/ HDel(t) \/ HClear(t))

SetCommand(t) ==
  /\ kind = "set"
  /\ \/ SAdd(t) \/ SRem(t) \/ SPop(t) \/ SMove(t) \/ SClear(t)
     \/ SUnionStore(t) \/ SInterStore(t) \/ SDiffStore(t)

ZSetCommand(t) ==
  /\ kind = "zset"
  /\ ZAdd(t) \/ ZIncrBy(t) \/ HDel(t) \/ ZRemRangeByRank(t) \/ ZRemRangeByScore(t) \/ ZClear(t)

Work(t) ==
  \/ Hset(t) \/ HsetMember(t) \/ Hdel(t) \/ Hexists(t) \/ GetNumber(t) \/ GetMember(t) \/ GetScore(t)
  \/ Add(t) \/ Hgetall(t) \/ Gather(t) \/ Fill(t)

Next ==
  \/ Killed
  \/ \E t \in Threads : HashCommand(t) \/ SetCommand(t) \/ ZSetCommand(t) \/ FlushDb(t) \/ Work(t)

Spec == Init /\ [][Next]_vars

-----------------------------------------------------------------------------
(* Properties *)

Instruction ==
  [do : {"hset", "hset_member", "hdel", "if_there", "if_missing", "hget_number", "hget_member",
         "hget_score", "add", "hclear", "spop", "by_rank", "by_score", "first",
         "union", "inter", "diff", "fill"},
   name : Names, fields : SUBSET Fields,
   value : Value \cup {NoValue}]

\* Every record is one of its type; that of a set's member holds the member itself,
\* which SISMEMBER and SREM rely on.
TypeOK ==
  /\ kind \in Kinds
  /\ store \in [Names -> [Fields -> OfKind(kind)]]
  /\ prog \in [Threads -> Seq(Instruction)]
  /\ cmd \in [Threads -> Request \cup {NoCmd}]
  /\ got \in [Threads -> OfKind(kind)]
  /\ DOMAIN list = Threads
  /\ ops \in 0..MaxOps
  /\ faults \in 0..MaxFaults
  /\ before \in [Threads -> [Names -> [Fields -> OfKind(kind)]]]
  /\ disturbed \subseteq Threads
  /\ kept \subseteq Fields
  /\ \A t \in Threads : cmd[t] = NoCmd <=> prog[t] = <<>>
  /\ kind = "set" => \A n \in Names, f \in Fields : store[n][f] \in {Itself(f), NoValue}

\* A thread between the hdel and the hset of SMOVE.
Carries(t, f) == prog[t] # <<>> /\ cmd[t].op = "smove" /\ Now(t).do = "hset_member" /\ f \in Now(t).fields

\* SMOVE loses no member, however many move it at once: one that was in a set and
\* that no other command has deleted is in some set or in the hands of a thread,
\* unless the process was killed there.
MembersKept ==
  \A f \in kept :
    \/ \E n \in Names : store[n][f] # NoValue
    \/ \E t \in Threads : Carries(t, f)

\* A command that met no other one on the records it touches has done to them,
\* when it replies, what Redis defines for it, the listed deviations excepted: no
\* increment is lost and no STORE mixes two states unless commands race.
Replies(t) == cmd[t] # NoCmd /\ prog'[t] = <<>> /\ faults' = faults

AloneLikeRedis ==
  [][\A t \in Threads :
       Replies(t) /\ t \notin disturbed /\ ~Deviates(cmd[t], before[t])
         => Effect(cmd[t], before[t], store')]_vars

\* No command is at work.  Reads take one look at the records; what a command has
\* half done, a kill leaves at rest, so that these states have every store.
Resting == \A t \in Threads : prog[t] = <<>>

\* The reads of a sorted set agree: ZRANK, ZREVRANK and ZRANGE count alike, ZRANGE
\* is the slice of Redis unless an index lies before or behind the list, ZCOUNT
\* counts ZRANGEBYSCORE, and pages by LIMIT that lie in the range join to it and
\* send what they announce.
SortedReadsAgree ==
  Resting /\ kind = "zset" => \A n \in Targets[kind] :
    LET h == store[n]
        s == Ascending(h)
        c == Card(h)
        all == Scored(s, h, -Top, Top)
    IN /\ \A f \in Members(h) :
            /\ ZRange(s, ZRank(s, f), ZRank(s, f)) = <<f>>
            /\ ZRevRank(s, f) = c - 1 - ZRank(s, f)
            /\ \A g \in Members(h) : ZScore(h, f) < ZScore(h, g) => ZRank(s, f) < ZRank(s, g)
       /\ \A i, j \in -Top..Top :
            /\ i < c /\ j >= -c => ZRange(s, i, j) = RedisSlice(s, i, j)
            /\ {i, j} \subseteq -c..c - 1 => ZRevRange(s, i, j) = Reverse(ZRange(s, -1 - j, -1 - i))
            /\ ZRevRangeByScore(s, h, j, i) = Reverse(Scored(s, h, i, j))
            /\ ZCount(h, i, j) = Len(Scored(s, h, i, j))
       /\ \A i \in 0..c :
            LET page == Limit(all, 0, i)
                rest == Limit(all, i, -1)
            IN /\ page.sent \o rest.sent = all
               /\ page.announced = Len(page.sent) /\ rest.announced = Len(rest.sent)

\* The reads of several sets: SUNION is exact; SDIFF and SINTER are wherever the
\* records come in the order the algorithms compare by, else SDIFF may return
\* too much, SINTER too little, and never the other way round.
SetReadsAgree ==
  Resting /\ kind = "set" => \A from \in SourceLists :
    LET hs    == [i \in DOMAIN from |-> store[from[i]]]
        diff  == Range(OfSets("diff", hs))
        inter == Range(OfSets("inter", hs))
    IN /\ Range(OfSets("union", hs)) = Union(hs)
       /\ Len(OfSets("union", hs)) = Cardinality(Union(hs))
       /\ Difference(hs) \subseteq diff /\ diff \subseteq Members(hs[1])
       /\ inter \subseteq Intersection(hs)
       /\ InOrder(hs) => diff = Difference(hs) /\ inter = Intersection(hs)

\* The reads of one hash, one set, one sorted set.
HashRepliesAgree(h) ==
  LET keys == Sent(HKeys(h))
      vals == Sent(HVals(h))
      all  == HGetAll(h)
  IN /\ Len(keys) = HLen(h) /\ all.announced = Len(all.bulks)
     /\ HMGet(h, keys) = Array(HLen(h), Strings(vals, Bulk))
     /\ Sent(all) = [i \in 1..2 * HLen(h) |-> IF i % 2 = 1 THEN keys[(i + 1) \div 2] ELSE vals[i \div 2]]
     /\ Range(keys) \cap NulFields = {} /\ Range(vals) \cap NulValues = {} =>
          Sound(all) /\ Sound(HKeys(h)) /\ Sound(HVals(h))
     /\ \A f \in Fields : HExists(h, f) = 1 <=> HGet(h, f) \notin {Nil, Bulk(Blank)}

SetRepliesAgree(h) ==
  LET all == SMembers(h)
  IN /\ Sound(all) /\ SCard(h) = all.announced
     /\ \A f \in Fields \ {0} : SIsMember(h, f) = 1 <=> Bulk(f) \in Range(all.bulks)
     /\ {SRandMember(h, rand) : rand \in 0..Top} = IF SCard(h) = 0 THEN {Nil} ELSE Range(all.bulks)

SortedRepliesAgree(h) ==
  /\ LET given == ZCard(h)
     IN \A f \in Fields :
          LET rank == Rank(h, f)
              revs == RevRanks(h, f)
          IN /\ IF ScoreReply(h, f) = Nil THEN rank = Nil
                ELSE /\ RangeReply(h, rank, rank, TRUE).bulks = <<Bulk(f), ScoreReply(h, f)>>
                     /\ given - 1 - rank \in revs
             /\ revs \subseteq {Nil} \cup 0..given - 1
             /\ Cuts(f) \cap Members(h) \subseteq {f} =>
                  revs \subseteq {Nil, IF ScoreReply(h, f) = Nil THEN Nil ELSE given - 1 - rank}
  /\ RangeReply(h, 0, -1, FALSE).announced = ZCard(h)
  /\ \A i, j \in {-1, 1, Card(h)} :
       LET r == RangeByScoreReply(h, i, j, NoLimit, TRUE)
       IN /\ Sound(RangeReply(h, i, j, TRUE)) /\ Sound(RevRangeReply(h, i, j, FALSE))
          /\ Sound(r) /\ Len(r.bulks) = 2 * CountReply(h, i, j)
          /\ Len(RevRangeByScoreReply(h, j, i, NoLimit, FALSE).bulks) = CountReply(h, i, j)
  /\ \A offset, count \in {-1, 1, Card(h)} :
       Within(Scored(Ascending(h), h, -Top, Top), <<offset, count>>) =>
         /\ Sound(RangeByScoreReply(h, -Top, Top, <<offset, count>>, TRUE))
         /\ Sound(RevRangeByScoreReply(h, Top, -Top, <<offset, count>>, FALSE))

\* The replies to reads are as long as they announce, so that no client takes the
\* next reply for a part of this one, and agree with each other: HKEYS, HVALS,
\* HGETALL and HMGET; SMEMBERS, SISMEMBER and SRANDMEMBER, which returns any member;
\* the ranks, scores, ranges and counts of a sorted set.  ZREVRANK answers with the
\* rank or with nil for an element that no other member begins and that begins no
\* other one, else perhaps with the rank of such a one.  Excepted are strings with a NUL byte in the lists of
\* a hash, pages that run over the end of the range, and the empty value, which
\* HEXISTS and SISMEMBER do not see.
RepliesAgree ==
  Resting => \A n \in Targets[kind] :
    CASE kind = "hash" -> HashRepliesAgree(store[n])
      [] kind = "set"  -> SetRepliesAgree(store[n])
      [] kind = "zset" -> SortedRepliesAgree(store[n])

=============================================================================
