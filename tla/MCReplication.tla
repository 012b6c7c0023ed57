---------------------------- MODULE MCReplication ----------------------------
(***************************************************************************)
(* Replication on small instances: one writing thread on the master, files *)
(* of two records and streams of two records, so that walks end inside a   *)
(* file, at its end and across a rotation.                                 *)
(***************************************************************************)
EXTENDS Replication
=============================================================================
