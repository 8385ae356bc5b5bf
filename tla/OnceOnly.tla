------------------------------ MODULE OnceOnly ------------------------------
(***************************************************************************)
(* What the execution jobs promise, without records, receipts, locks or    *)
(* crashes: a command runs only while its operation id is not spent, the   *)
(* run spends the id, and an id that is spent stays spent.                 *)
(***************************************************************************)
EXTENDS Naturals

CONSTANT Ids

VARIABLES spent, execs

Init == spent = {} /\ execs = [i \in Ids |-> 0]

\* Ids are given up: cancelled before dispatch, refused, failed, interrupted.
Spend ==
    /\ spent' \in SUBSET Ids
    /\ spent \subseteq spent'
    /\ UNCHANGED execs

Run(i) ==
    /\ i \notin spent
    /\ execs[i] = 0
    /\ execs' = [execs EXCEPT ![i] = 1]
    /\ spent' = spent \cup {i}

Next == Spend \/ \E i \in Ids : Run(i)

Spec == Init /\ [][Next]_<<spent, execs>>

=============================================================================
