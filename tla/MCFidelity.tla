---------------------------- MODULE MCFidelity ----------------------------
(* Small instances of Fidelity for TLC. *)
EXTENDS Fidelity, TLC

CONSTANTS r1, r2, r3

TwoReservations == {r1, r2}
ThreeReservations == {r1, r2, r3}
\* Reservation ids are interchangeable in every safety property.
Symmetry == Permutations(Reservations)

=============================================================================
