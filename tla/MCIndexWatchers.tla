--------------------------- MODULE MCIndexWatchers ---------------------------
(* Instances of IndexWatchers for TLC. *)
EXTENDS IndexWatchers

CONSTANTS w1, w2, x1, x2, t1, t2

TwoWorkspaces == {w1, w2}
TwoWatchers == {x1, x2}
TwoTasks == {t1, t2}
=============================================================================
