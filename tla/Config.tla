-------------------------------- MODULE Config --------------------------------
(***************************************************************************)
(* The configuration (src/src/onevaluecfg.cpp): what an XML document sets, *)
(* and which configurations the checker lets through.                      *)
(*                                                                         *)
(* A document has the attributes of its root and a sequence of elements,   *)
(* each with its attributes; an attribute is a text.  The options that are *)
(* only handed to LevelDB, and the paths, are left out.                    *)
(***************************************************************************)
EXTENDS Integers, Sequences, FiniteSets, SequencesExt

CONSTANTS
  Texts, Atoi,   \* the texts of attributes, and what atoi makes of them
  Off,           \* those that leave a switch as it is, "" and "0"
  NoText,        \* ""
  HashLimit,     \* ONEVALUE_HASH_MAX and MaxHashValue (1024)
  IntLimit       \* megabytes from which an int of bytes overflows (2048)

ASSUME ConfigAssumption ==
  /\ Atoi \in [Texts -> Int]
  /\ NoText \in Texts
  /\ HashLimit \in Nat \ {0}
  /\ IntLimit \in Nat \ {0}

Node == [name : Texts, min : Int, max : Int]
Cfg  == [thread_num : Int, hash_value_max : Int, guard : BOOLEAN, top_key : BOOLEAN,
         write_buf_size : Int, ip : Texts, sync_interval : Int, nodes : Seq(Node)]

Defaults ==
  [thread_num |-> 8, hash_value_max |-> 0, guard |-> FALSE, top_key |-> FALSE,
   write_buf_size |-> 4, ip |-> NoText, sync_interval |-> 5000, nodes |-> <<>>]

Number(at, a, old) == IF a \in DOMAIN at THEN Atoi[at[a]] ELSE old
Text(at, a, old)   == IF a \in DOMAIN at THEN at[a] ELSE old
Switch(at, a, old) == old \/ (a \in DOMAIN at /\ at[a] \notin Off)

GetRootAttr(cfg, at) ==
  [cfg EXCEPT !.thread_num = Number(at, "thread_num", @),
              !.hash_value_max = Number(at, "hash_value_max", @),
              !.guard = Switch(at, "guard", @)]

GetTopKey(cfg, at)   == [cfg EXCEPT !.top_key = Switch(at, "enable", @)]
GetDbOption(cfg, at) == [cfg EXCEPT !.write_buf_size = Number(at, "write_buf_size", @)]
GetMaster(cfg, at)   == [cfg EXCEPT !.ip = Text(at, "ip", @),
                                    !.sync_interval = Number(at, "sync_interval", @)]

\* CDbNode and its attributes.
GetDbNode(cfg, at) ==
  [cfg EXCEPT !.nodes = Append(@, [name |-> Text(at, "name", NoText),
                                   min |-> Number(at, "hash_min", 0),
                                   max |-> Number(at, "hash_max", 0)])]

GetElement(cfg, e) ==
  CASE e.tag = "top_key"   -> GetTopKey(cfg, e.at)
    [] e.tag = "db_option" -> GetDbOption(cfg, e.at)
    [] e.tag = "master"    -> GetMaster(cfg, e.at)
    [] e.tag = "db_node"   -> GetDbNode(cfg, e.at)
    [] OTHER               -> cfg

LoadCfg(doc) == FoldLeft(GetElement, GetRootAttr(Defaults, doc.root), doc.elements)

-----------------------------------------------------------------------------
(* COneValueCfgChecker::isValid *)

Slots(node) == node.min .. node.max

Named(cfg, i) ==
  /\ cfg.nodes[i].name # NoText
  /\ \A k \in 1 .. i - 1 : cfg.nodes[k].name # cfg.nodes[i].name

\* Both limits are tested with >, so the number of hash values itself passes.
InRange(cfg, i) ==
  LET node == cfg.nodes[i]
  IN /\ node.min <= node.max
     /\ 0 <= node.min
     /\ node.max <= HashLimit
     /\ node.max <= cfg.hash_value_max

\* Plausible mistake: only the neighbour is looked at.
ApartFromLast(cfg, i) == i > 1 => Slots(cfg.nodes[i - 1]) \cap Slots(cfg.nodes[i]) = {}

Apart(cfg, i) == \A k \in 1 .. i - 1 : Slots(cfg.nodes[k]) \cap Slots(cfg.nodes[i]) = {}

Complete(cfg) ==
  \A h \in 0 .. cfg.hash_value_max - 1 : \E i \in DOMAIN cfg.nodes : h \in Slots(cfg.nodes[i])

RangesOK(cfg) ==
  /\ cfg.hash_value_max <= HashLimit
  /\ \A i \in DOMAIN cfg.nodes : Named(cfg, i) /\ InRange(cfg, i) /\ Apart(cfg, i)
  /\ Complete(cfg)

\* A slot HashLimit is written one byte past the table, which may hold anything.
PastTheTable(cfg) == \E i \in DOMAIN cfg.nodes : HashLimit \in Slots(cfg.nodes[i])

\* The size in bytes overflows an int beyond the limit, and may have either sign.
WriteBufOK(cfg) ==
  IF cfg.write_buf_size \in -IntLimit .. IntLimit - 1 THEN {cfg.write_buf_size >= 0} ELSE BOOLEAN

IsValid(cfg) ==
  IF ~RangesOK(cfg) THEN {FALSE}
  ELSE WriteBufOK(cfg) \cup (IF PastTheTable(cfg) THEN {FALSE} ELSE {})

=============================================================================
