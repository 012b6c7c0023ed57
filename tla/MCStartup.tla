------------------------------- MODULE MCStartup -------------------------------
(***************************************************************************)
(* Start and stop with configurations of up to three databases and four    *)
(* hash values, the table's size: complete ones, ones with a gap, an       *)
(* overlap, a name twice, a slot too many or none at all.                  *)
(***************************************************************************)
EXTENDS Startup

MCAtoi == [t \in Texts |->
             CASE t = "0" -> 0 [] t = "1" -> 1 [] t = "2" -> 2 [] t = "3" -> 3
               [] t = "4" -> 4 [] t = "-1" -> -1 [] OTHER -> 0]

Node3(name, min, max) ==
  [tag |-> "db_node", at |-> [a \in {"name", "hash_min", "hash_max"} |->
     CASE a = "name" -> name [] a = "hash_min" -> min [] a = "hash_max" -> max]]

Root(max, guarded) ==
  [a \in {"thread_num", "hash_value_max", "guard"} |->
     CASE a = "thread_num" -> "1" [] a = "hash_value_max" -> max [] a = "guard" -> guarded]

One(tag, a, v) == [tag |-> tag, at |-> [x \in {a} |-> v]]
Document(root, elements) == [root |-> root, elements |-> elements]

a12 == Node3("a", "1", "2")
MCDocuments ==
  {Document(Root("3", "yes"), <<Node3("a", "0", "1"), Node3("b", "2", "2"), One("master", "ip", "host")>>),
   Document(Root("3", "0"), <<a12, Node3("b", "0", "0"), One("top_key", "enable", "1"), One("binlog", "enabled", "1")>>),
   Document(Root("2", ""), <<Node3("a", "0", "2")>>),
   Document(Root("4", "0"), <<Node3("a", "0", "4"), One("db_option", "write_buf_size", "4")>>),
   Document(Root("3", "0"), <<Node3("b", "0", "0"), a12, Node3("c", "0", "0")>>),
   Document(Root("4", "0"), <<a12, Node3("b", "3", "3")>>),
   Document(Root("3", "0"), <<a12, Node3("a", "0", "0")>>),
   Document(Root("3", "0"), <<a12, Node3("b", "0", "0"), One("db_option", "write_buf_size", "-1")>>),
   Document(Root("-1", "yes"), <<>>),
   Document(<<>>, <<One("db_node", "name", "a")>>)}
=============================================================================
