---------------------------- MODULE MCBinlogStore ----------------------------
(***************************************************************************)
(* The write path alone, with two threads writing the same keys.           *)
(***************************************************************************)
EXTENDS BinlogStore

Symmetry == Permutations(Keys) \cup Permutations(Values) \cup Permutations(Threads)
=============================================================================
