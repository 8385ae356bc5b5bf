----------------------------- MODULE Allowance -----------------------------
(***************************************************************************)
(* What the fidelity reservations promise of one session, without files,   *)
(* ledger rows or crashes: a raw command that no human approved runs only  *)
(* under a grant, the grants held at a time stay affordable, a grant may   *)
(* be given back only while its command has not run, and a command that    *)
(* ran keeps its grant for ever.                                           *)
(***************************************************************************)
CONSTANTS
    Reservations,
    Affordable(_)   \* the sets of grants that may be held at the same time

VARIABLES granted, ran

Init == granted = {} /\ ran = {}

Grant(r) ==
    /\ r \notin granted
    /\ Affordable(granted \cup {r})
    /\ granted' = granted \cup {r}
    /\ UNCHANGED ran

Run(r) ==
    /\ r \in granted \ ran
    /\ ran' = ran \cup {r}
    /\ UNCHANGED granted

GiveBack(R) ==
    /\ R \subseteq granted \ ran
    /\ granted' = granted \ R
    /\ UNCHANGED ran

Next ==
    \/ \E r \in Reservations : Grant(r) \/ Run(r)
    \/ \E R \in SUBSET Reservations : GiveBack(R)

Spec == Init /\ [][Next]_<<granted, ran>>

=============================================================================
