------------------------------ MODULE MCFullCopy ------------------------------
(***************************************************************************)
(* A copy of two keys in two databases, whose replies the buffers of the   *)
(* sockets hold, or of four keys, whose replies they do not, with          *)
(* pipelines of two records and buffers for one RAWSET.                    *)
(***************************************************************************)
EXTENDS FullCopy

CONSTANTS k1, k2, k3, k4

MCDatabaseOf == [k \in Keys |-> IF k \in {k3, k4} THEN 2 ELSE 1]

Holding(S) == [k \in Keys |-> IF k \in S THEN 1 ELSE 0]
MCStocks   == {Holding({k1, k3}), Holding({k1, k2, k3, k4})}
=============================================================================
