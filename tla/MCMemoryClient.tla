-------------------------- MODULE MCMemoryClient --------------------------
(***************************************************************************)
(* Instances of MemoryClient for TLC.                                      *)
(***************************************************************************)
EXTENDS MemoryClient, TLC

CONSTANTS c1, c2, c3

ThreeCalls == {c1, c2, c3}
Symmetry == Permutations(Calls)

=============================================================================
