------------------------------- MODULE MCLists -------------------------------
(***************************************************************************)
(* Lists on small instances: every list has a mutex of its own, or all     *)
(* lists share one.                                                        *)
(***************************************************************************)
EXTENDS Lists

OwnStripe    == [n \in Names |-> n]
CommonStripe == [n \in Names |-> "common"]

\* The records of a list are spread over two databases, the meta record among them.
MCDatabase(r) == IF r.meta \/ r.id % 2 = 0 THEN 1 ELSE 2

MCIndexes == {-2, 0, 1}
=============================================================================
