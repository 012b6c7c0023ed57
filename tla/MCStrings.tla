------------------------------- MODULE MCStrings -------------------------------
(***************************************************************************)
(* Strings, HyperLogLogs and StringBytes on small instances: all keys      *)
(* share a mutex, one database; the elements of the first three commands   *)
(* fall into one register, with the ranks 1, 2 and 5.                      *)
(***************************************************************************)
EXTENDS HyperLogLogs, StringBytes, TLC

CommonStripe == [k \in Keys |-> "common"]
OneDb        == [k \in Keys |-> 0]
OneRecordDb  == [k \in Keys |-> [p \in Pads |-> 0]]

OneIndex == [id \in 0..MaxOps |-> 0]
MCZeros  == [id \in 0..MaxOps |-> <<0, 1, 5, 0>>[id + 1]]

Symmetry == Permutations(Keys) \cup Permutations(Threads)
=============================================================================
