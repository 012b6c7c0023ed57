------------------------------ MODULE HyperLogLogs ------------------------------
(***************************************************************************)
(* What PFADD, PFMERGE and PFCOUNT count (src/src/t_hyperloglog.cpp), on   *)
(* top of the string commands: the registers that the value of a key       *)
(* holds, and those a command has in its THyperLogLog object.              *)
(*                                                                         *)
(* An element is known by its hash: the register it belongs to and the     *)
(* zero bits that follow.  Each PFADD adds one element; a PFADD of several *)
(* adds them one by one in the same object.                                *)
(***************************************************************************)
EXTENDS Strings, Bitwise

CONSTANTS
  Registers,     \* m_ of them
  HashBits,      \* 32 - b_: bits of the hash that are not the register's index
  Index,         \* the register of the element that the command of a mark adds
  Zeros,         \* the zero bits its hash begins with behind the index
  Foreign        \* the registers that bytes of another string are taken for

ASSUME RegisterAssumption ==
  /\ HashBits \in Nat \ {0}
  /\ Index \in [0..MaxOps -> Registers]
  /\ Zeros \in [0..MaxOps -> Nat]
  /\ Foreign \notin [Registers -> Nat]

VARIABLES
  registers,     \* of the value of each key
  hll,           \* of each thread's object
  added          \* marks of the PFADDs

hvars == <<svars, registers, hll, added>>

-----------------------------------------------------------------------------
Clear == [i \in Registers |-> 0]

Smaller(a, b) == IF a < b THEN a ELSE b

\* Nclz.
Rank(id) == Smaller(HashBits, Zeros[id]) + 1

\* The constructor: the value of a key, or no register set.
Loaded(k) == IF store[k] = NoValue THEN Clear ELSE registers[k]

\* THyperLogLog::Add.
WithLatest(r, id) == IF r = Foreign THEN r ELSE [r EXCEPT ![Index[id]] = Rank(id)]

With(r, id) ==
  IF r = Foreign THEN r
  ELSE [r EXCEPT ![Index[id]] = IF Rank(id) > @ THEN Rank(id) ELSE @]

\* THyperLogLog::Merge: a register that is smaller takes over the bits of the other.
Merged(r, s) ==
  IF Foreign \in {r, s} THEN Foreign
  ELSE [i \in Registers |-> IF r[i] < s[i] THEN r[i] | s[i] ELSE r[i]]

\* PFCOUNT merges the keys one by one into the first; one that is not there counts
\* nothing and sends a $-1 of its own ahead of the reply.
PFCount(ks) ==
  [nils  |-> Cardinality({i \in DOMAIN ks : store[ks[i]] = NoValue}),
   count |-> LET c[i \in DOMAIN ks] ==
                   IF i = 1 THEN Loaded(ks[1]) ELSE Merged(c[i - 1], Loaded(ks[i]))
             IN c[Len(ks)]]

-----------------------------------------------------------------------------
(* The steps of the string commands, with their registers *)

Stays == UNCHANGED <<registers, hll, added>>

Reading(t) ==
  /\ Enter(t)
  /\ hll' = [hll EXCEPT ![t] = IF cmd[t].op \in {"pfadd", "pfmerge"} THEN Loaded(Key(t)) ELSE Clear]
  /\ UNCHANGED <<registers, added>>

Merging(t) ==
  /\ Merge(t)
  /\ hll' = [hll EXCEPT ![t] = Merged(@, Loaded(Head(cmd[t].look)))]
  /\ UNCHANGED <<registers, added>>

Adding(t) ==
  /\ Write(t) /\ cmd[t].op = "pfadd"
  /\ registers' = [registers EXCEPT ![Key(t)] = With(hll[t], cmd[t].id)]
  /\ hll' = [hll EXCEPT ![t] = Clear]
  /\ added' = added \cup {cmd[t].id}

StoringMerged(t) ==
  /\ Write(t) /\ cmd[t].op = "pfmerge"
  /\ registers' = [registers EXCEPT ![Key(t)] = hll[t]]
  /\ hll' = [hll EXCEPT ![t] = Clear]
  /\ UNCHANGED added

\* Any other command writes some other string.
WritingText(t) ==
  /\ Write(t) /\ cmd[t].op \notin {"pfadd", "pfmerge"}
  /\ registers' = [registers EXCEPT ![Key(t)] = Foreign]
  /\ UNCHANGED <<hll, added>>

\* A PFMERGE that fails drops its object.
Failing(t) ==
  /\ MergeIntoMissing(t) \/ MergeMissing(t)
  /\ hll' = [hll EXCEPT ![t] = Clear]
  /\ UNCHANGED <<registers, added>>

Others(t) ==
  \/ Refused(t) \/ LookNX(t) \/ LookDel(t) \/ RemoveDel(t) \/ SetExpire(t)
  \/ FlushKey(t) \/ FlushExpiry(t) \/ FlushDone(t)

Init ==
  /\ StringsInit
  /\ registers = [k \in Keys |-> Clear]
  /\ hll = [t \in Threads |-> Clear]
  /\ added = {}

Next ==
  \/ Tick /\ Stays
  \/ \E t \in Threads :
       \/ Reading(t) \/ Merging(t) \/ Adding(t) \/ StoringMerged(t) \/ WritingText(t) \/ Failing(t)
       \/ (Command(t) \/ Others(t)) /\ Stays

Spec == Init /\ [][Next]_hvars

-----------------------------------------------------------------------------
(* Property *)

\* The register that the elements of some marks should have, and the least power
\* of two above it.
Exact(ids, i) ==
  CHOOSE r \in {0} \cup {Rank(id) : id \in ids} :
    /\ r = 0 \/ \E id \in ids : Index[id] = i /\ Rank(id) = r
    /\ \A id \in ids : Index[id] = i => Rank(id) <= r

Cap(r) == CHOOSE c \in {2 ^ n : n \in 0..r} : c > r /\ \A d \in {2 ^ n : n \in 0..r} : d > r => c <= d

\* A count misses no element: whatever PFADDs, PFMERGEs and other commands have come
\* in between on any thread, the registers PFCOUNT works with are at least those of
\* all elements that were added to its keys.  They may be larger, since Merge joins
\* bits where it should take the larger number, but have no bit above its highest.
CountsWhatWasAdded ==
  \A ks \in [1..1 -> Keys] \cup [1..2 -> Keys] :
    LET p   == PFCount(ks)
        ids == added \cap UNION {store[k].marks : k \in {ks[i] : i \in {j \in DOMAIN ks : store[ks[j]] # NoValue}}}
    IN p.count # Foreign =>
         \A i \in Registers : p.count[i] >= Exact(ids, i) /\ p.count[i] < Cap(Exact(ids, i))

=============================================================================
