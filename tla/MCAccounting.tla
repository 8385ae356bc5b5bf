---------------------------- MODULE MCAccounting ----------------------------
(* Instances of Accounting for TLC. *)
EXTENDS Accounting

CONSTANTS c1, p1, p2

OneCommand == {c1}
TwoProcesses == {p1, p2}

=============================================================================
