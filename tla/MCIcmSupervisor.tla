-------------------------- MODULE MCIcmSupervisor --------------------------
(***************************************************************************)
(* Instances of IcmSupervisor for TLC.                                     *)
(***************************************************************************)
EXTENDS IcmSupervisor, TLC

CONSTANTS s1, s2, s3, p1, p2, p3

ThreeSupervisors == {s1, s2, s3}
ThreeProcesses == {p1, p2, p3}
Symmetry == Permutations(Supervisors) \cup Permutations(Processes)

=============================================================================
