--------------------------------- MODULE TopKeys ---------------------------------
(***************************************************************************)
(* The keys asked for most often (src/src/top-key.cpp).                    *)
(*                                                                         *)
(* Replies put their key into a queue; a thread counts them in a list of   *)
(* nodes, the one counted last in front, and a hash map from keys to       *)
(* nodes.  A node does not hold its key.  When the list is full, nodes at  *)
(* its end that were counted less often than the last one go, or else the  *)
(* last one.                                                               *)
(***************************************************************************)
EXTENDS Integers, Sequences, FiniteSets, SequencesExt

CONSTANTS
  TopNames,      \* what a reply may give as its key
  MaxKeyCnt,     \* m_maxKeyCnt, 5000000
  Slack          \* 500: how many nodes at the end of a full list may go at once

ASSUME TopKeysAssumption ==
  /\ MaxKeyCnt \in Nat \ {0}
  /\ Slack \in 1..MaxKeyCnt

VARIABLES
  allKeys,           \* m_allKeys
  processTopKey,     \* m_processTopKey
  keyCntList,        \* nodes with their counts
  keyCntMap,         \* the node of each key
  counted            \* the keys counted so far, in order

topVars == <<allKeys, processTopKey, keyCntList, keyCntMap, counted>>

TopInit ==
  /\ allKeys = <<>>
  /\ processTopKey = FALSE
  /\ keyCntList = <<>>
  /\ keyCntMap = <<>>
  /\ counted = <<>>

\* keyToList has found the thread asleep; meanwhile it may be up.
KeyToList(key) ==
  /\ allKeys' = Append(allKeys, key)
  /\ UNCHANGED <<processTopKey, keyCntList, keyCntMap, counted>>

-----------------------------------------------------------------------------
NodeOf(list, key, map) == CHOOSE i \in DOMAIN list : list[i].node = map[key]
Nodes(list)            == {n.node : n \in Range(list)}
Unused(list)           == CHOOSE n \in 1..Len(list) + 1 : n \notin Nodes(list)

Kept(list, gone)   == [i \in 1..Len(list) - Cardinality(gone) |->
                         list[CHOOSE j \in DOMAIN list \ gone :
                                Cardinality({k \in 1..j : k \notin gone}) = i]]

\* The places of the nodes that delListMap takes out.
OldOnes(list) ==
  {i \in MaxKeyCnt - Slack + 1..Len(list) : list[i].cnt < Last(list).cnt}

AnyOld(list) == {i \in DOMAIN list : list[i].cnt <= Last(list).cnt}
Oldest(list) == IF OldOnes(list) # {} THEN OldOnes(list) ELSE {Len(list)}

\* minCntMap: the key of each of them goes with it.
WithoutNodes(map, nodes) == [k \in {k \in DOMAIN map : map[k] \notin nodes} |-> map[k]]

DelListMap ==
  IF Len(keyCntList) < MaxKeyCnt THEN [list |-> keyCntList, map |-> keyCntMap]
  ELSE LET gone == Oldest(keyCntList)
       IN [list |-> Kept(keyCntList, gone),
           map  |-> WithoutNodes(keyCntMap, {keyCntList[i].node : i \in gone})]

NewKey(key) ==
  LET kept == DelListMap
      node == Unused(kept.list)
  IN /\ key \notin DOMAIN keyCntMap
     /\ keyCntList' = <<[node |-> node, cnt |-> 1]>> \o kept.list
     /\ keyCntMap' = [k \in DOMAIN kept.map \cup {key} |-> IF k = key THEN node ELSE kept.map[k]]

\* Its node is erased, and another one is put in front.
KnownKey(key) ==
  LET i == NodeOf(keyCntList, key, keyCntMap)
      kept == Kept(keyCntList, {i})
      node == Unused(kept)
  IN /\ key \in DOMAIN keyCntMap
     /\ keyCntList' = <<[node |-> node, cnt |-> keyCntList[i].cnt + 1]>> \o kept
     /\ keyCntMap' = [keyCntMap EXCEPT ![key] = node]

KeyRecorder ==
  /\ processTopKey /\ allKeys # <<>>
  /\ allKeys' = Tail(allKeys)
  /\ NewKey(Head(allKeys)) \/ KnownKey(Head(allKeys))
  /\ counted' = Append(counted, Head(allKeys))
  /\ UNCHANGED processTopKey

\* Every 50 ms, until the queue is empty.
WakeUp ==
  /\ ~processTopKey
  /\ processTopKey' = TRUE
  /\ UNCHANGED <<allKeys, keyCntList, keyCntMap, counted>>

GoToSleep ==
  /\ processTopKey /\ allKeys = <<>>
  /\ processTopKey' = FALSE
  /\ UNCHANGED <<allKeys, keyCntList, keyCntMap, counted>>

TopKeyThread == WakeUp \/ KeyRecorder \/ GoToSleep

-----------------------------------------------------------------------------
\* In a history h: when a key was counted last, the keys counted since, and how often.
LastAt(h, key) == CHOOSE i \in DOMAIN h : h[i] = key /\ \A j \in DOMAIN h : h[j] = key => j <= i
Since(h, key)  == {h[i] : i \in LastAt(h, key) + 1..Len(h)}
Times(h, key)  == Cardinality({i \in DOMAIN h : h[i] = key})

Listed == [i \in DOMAIN keyCntList |->
             CHOOSE k \in DOMAIN keyCntMap : keyCntMap[k] = keyCntList[i].node]

\* Map and list hold the same nodes, a node for each key, and no more than the
\* limit, however often nodes are replaced and thrown out; the one counted last is in
\* front of them; a key with fewer others counted since than are spared is always
\* among them; and none is counted more often than it was asked for, exactly so
\* often as long as no key was ever thrown out.
TopKeysKept ==
  /\ Len(keyCntList) <= MaxKeyCnt
  /\ Cardinality(Nodes(keyCntList)) = Len(keyCntList)
  /\ {keyCntMap[k] : k \in DOMAIN keyCntMap} = Nodes(keyCntList)
  /\ Cardinality(DOMAIN keyCntMap) = Len(keyCntList)
  /\ DOMAIN keyCntMap \subseteq Range(counted)
  /\ \A i, j \in DOMAIN keyCntList :
       i < j => LastAt(counted, Listed[i]) > LastAt(counted, Listed[j])
  /\ \A k \in Range(counted) :
       Cardinality(Since(counted, k)) <= MaxKeyCnt - Slack => k \in DOMAIN keyCntMap
  /\ \A i \in DOMAIN keyCntList :
       /\ keyCntList[i].cnt <= Times(counted, Listed[i])
       /\ Cardinality(Range(counted)) <= MaxKeyCnt =>
            keyCntList[i].cnt = Times(counted, Listed[i])

=============================================================================
