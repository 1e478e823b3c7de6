----------------------------- MODULE MCPrepaid -----------------------------
(* An instance of Prepaid for TLC.  A run stands for itself, for the refId *)
(* it would make up and in the names of its payments; exchanging two runs  *)
(* exchanges all of these, and no property tells runs apart.               *)
EXTENDS Prepaid, TLC

CONSTANTS r1, r2, r3

RunSymmetry == Permutations(Runs)
=============================================================================
