----------------------------- MODULE MCExecJobs -----------------------------
(* Small instances of ExecJobs for TLC. *)
EXTENDS ExecJobs, TLC

CONSTANTS i1, i2, i3, w1, w2, h1, h2

TwoIds == {i1, i2}
ThreeIds == {i1, i2, i3}
OneWorkspace == {w1}
TwoWorkspaces == {w1, w2}
OneHash == {h1}
TwoHashes == {h1, h2}
OneSize == [i \in Ids |-> 1]
\* One receipt fits the registry and one does not.
TwoSizes == [i \in Ids |-> IF i = i2 THEN 2 ELSE 1]
\* Ids are interchangeable in every safety property.
Symmetry == Permutations(Ids)

=============================================================================
