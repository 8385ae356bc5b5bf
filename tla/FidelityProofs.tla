--------------------------- MODULE FidelityProofs ---------------------------
(***************************************************************************)
(* Proofs about Fidelity for every set of reservations, every allowance    *)
(* and every number of failures.                                           *)
(***************************************************************************)
EXTENDS Fidelity, FiniteSetTheorems, FunctionTheorems, TLAPS

-----------------------------------------------------------------------------
(* Type correctness *)

LEMMA RecordType ==
    ASSUME NEW rows \in Seq(Nat), NEW tokens \in Nat, Len(rows) <= 1
    PROVE  /\ Record(rows, tokens) \in Seq(Nat)
           /\ Len(Record(rows, tokens)) <= 1
           /\ Record(rows, tokens) # <<>>
BY DEF Record

\* What is true of each reservation by itself.
Local(r) ==
    /\ Len(ledger[r]) <= 1
    /\ r \in started => \/ ledger[r] # <<>>
                        \/ file[r].state \in {"Executing", "Executed"}
                        \/ r \in quarantine
    /\ receipt[r] = "AcknowledgeExecuted" => ledger[r] # <<>>
    /\ receipt[r] = "ProveNotExecuted" => r \notin started /\ handler[r] = "gone"
    /\ file[r].state = "Executed" => r \in started
    /\ file[r].state = "Reserved" => r \notin started
    /\ pending[r].state = "Reserved" => r \notin started
    /\ handler[r] = "idle" =>
         /\ file[r] = NoFile /\ pending[r] = NotPending /\ ledger[r] = <<>>
         /\ r \notin started \cup overridden
    /\ handler[r] \in {"reserved", "boundary_failed"} => pending[r].state = "Reserved"
    /\ handler[r] \in {"begun", "not_spawned"} =>
         /\ r \notin started
         /\ pending[r].state # "Reserved" /\ file[r].state # "Reserved"
         /\ pending[r].state = "Executing" \/ ledger[r] # <<>>
         /\ file[r].state = "Executing" \/ ledger[r] # <<>>
    /\ handler[r] \in {"running", "finished"} =>
         /\ r \in started
         /\ pending[r].state = "Executing" \/ ledger[r] # <<>>
    /\ ~Serving => pending[r] = NotPending /\ handler[r] \in {"idle", "gone"}
    /\ pending[r].state # "None" => pending[r].upper = bound[r]
    /\ file[r].state \in {"Reserved", "Executing"} => file[r].tokens = bound[r]

LocalInv == TypeOK /\ \A r \in Reservations : Local(r)

\* Everything a step on reservation r leaves alone of the others.
Elsewhere(r) ==
    \A q \in Reservations \ {r} :
        /\ file'[q] = file[q] /\ receipt'[q] = receipt[q] /\ ledger'[q] = ledger[q]
        /\ pending'[q] = pending[q] /\ handler'[q] = handler[q]
        /\ q \in started' <=> q \in started
        /\ q \in overridden' <=> q \in overridden
        /\ bound'[q] = bound[q]
        /\ q \in quarantine' <=> q \in quarantine

LEMMA LocalFrame ==
    ASSUME NEW r \in Reservations, \A q \in Reservations : Local(q),
           Elsewhere(r), up' = up, Local(r)'
    PROVE  (\A q \in Reservations : Local(q))'
BY DEF Local, Elsewhere, Serving

LEMMA InitLocal == Init => LocalInv
BY FidelityAssumption
   DEF Init, LocalInv, TypeOK, Local, NoFile, NotPending, DurableRecord, Pending,
       Stages, Serving

LEMMA FaultsType ==
    ASSUME faults \in Nat, NEW f, NEW possible, Meets(f, possible)
    PROVE  faults' \in Nat
BY DEF Meets

LEMMA ReserveLocal ==
    ASSUME LocalInv, NEW r \in Reservations, NEW upper, NEW override, NEW f,
           Reserve(r, upper, override, f)
    PROVE  LocalInv'
<1>0. Sizes \subseteq Nat /\ MaxTokens \in Nat
  BY FidelityAssumption
<1>1. upper \in Nat
  <2>1. CASE override  BY <1>0, <2>1 DEF Reserve
  <2>2. CASE ~override  BY <1>0, <2>2 DEF Reserve
  <2>3. QED  BY <2>1, <2>2
<1>2. faults' \in Nat
  BY FaultsType DEF Reserve, LocalInv, TypeOK
<1>3. /\ [state |-> "Reserved", tokens |-> upper] \in DurableRecord
      /\ [state |-> "Reserved", upper |-> upper] \in Pending
  BY <1>1 DEF DurableRecord, Pending
<1>4. TypeOK'
  BY <1>1, <1>2, <1>3 DEF Reserve, LocalInv, TypeOK, Advance, Stages
<1>5. Elsewhere(r) /\ up' = up
  BY DEF Reserve, LocalInv, TypeOK, Elsewhere, Advance
<1>6. Local(r)'
  BY <1>4 DEF Reserve, LocalInv, TypeOK, Local, Advance, Serving, Stages, NotPending, NoFile
<1>7. QED  BY <1>4, <1>5, <1>6, LocalFrame DEF LocalInv

LEMMA BeginLocal ==
    ASSUME LocalInv, NEW r \in Reservations, NEW f, Begin(r, f)
    PROVE  LocalInv'
<1>1. pending[r].upper \in Nat
  BY DEF LocalInv, TypeOK, Pending
<1>2. faults' \in Nat
  BY FaultsType DEF Begin, LocalInv, TypeOK
<1>3. /\ [state |-> "Executing", tokens |-> pending[r].upper] \in DurableRecord
      /\ [pending[r] EXCEPT !.state = "Executing"] \in Pending
  BY <1>1 DEF DurableRecord, Pending, LocalInv, TypeOK
<1>4. TypeOK'
  BY <1>2, <1>3 DEF Begin, LocalInv, TypeOK, Advance, Stages
<1>5. Elsewhere(r) /\ up' = up
  BY DEF Begin, LocalInv, TypeOK, Elsewhere, Advance
<1>6. Local(r)'
  BY <1>3, <1>4 DEF Begin, LocalInv, TypeOK, Local, Advance, Serving, Stages, Pending,
                     NotPending, NoFile
<1>7. QED  BY <1>4, <1>5, <1>6, LocalFrame DEF LocalInv

LEMMA CancelLocal ==
    ASSUME LocalInv, NEW r \in Reservations, NEW f,
           handler[r] \in {"reserved", "boundary_failed", "not_spawned"}, Serving,
           CancelFidelity(r, f)
    PROVE  LocalInv'
<1>2. faults' \in Nat
  BY FaultsType DEF CancelFidelity, LocalInv, TypeOK
<1>3. NoFile \in DurableRecord /\ NotPending \in Pending
  BY DEF DurableRecord, Pending, NoFile, NotPending
<1>4. TypeOK'
  BY <1>2, <1>3 DEF CancelFidelity, LocalInv, TypeOK, Advance, Stages
<1>5. Elsewhere(r) /\ up' = up
  BY DEF CancelFidelity, LocalInv, TypeOK, Elsewhere, Advance
<1>6. Local(r)'
  BY <1>4 DEF CancelFidelity, LocalInv, TypeOK, Local, Advance, Serving, Stages,
              NotPending, NoFile
<1>7. QED  BY <1>4, <1>5, <1>6, LocalFrame DEF LocalInv

LEMMA CompleteLocal ==
    ASSUME LocalInv, NEW r \in Reservations, NEW tokens, NEW f, Complete(r, tokens, f)
    PROVE  LocalInv'
<1>1. tokens \in Nat
  BY FidelityAssumption DEF Complete
<1>2. faults' \in Nat
  BY FaultsType DEF Complete, LocalInv, TypeOK
<1>3. /\ NoFile \in DurableRecord /\ NotPending \in Pending
      /\ [state |-> "Executed", tokens |-> tokens] \in DurableRecord
  BY <1>1 DEF DurableRecord, Pending, NoFile, NotPending
<1>r. /\ Record(ledger[r], tokens) \in Seq(Nat)
      /\ Len(Record(ledger[r], tokens)) <= 1
      /\ Record(ledger[r], tokens) # <<>>
  BY <1>1, RecordType DEF LocalInv, TypeOK, Local
<1>4. TypeOK'
  BY <1>2, <1>3, <1>r DEF Complete, LocalInv, TypeOK, Advance, Stages
<1>5. Elsewhere(r) /\ up' = up
  BY DEF Complete, LocalInv, TypeOK, Elsewhere, Advance
<1>6. Local(r)'
  BY <1>4, <1>r DEF Complete, LocalInv, TypeOK, Local, Advance, Serving, Stages,
              NotPending, NoFile
<1>7. QED  BY <1>4, <1>5, <1>6, LocalFrame DEF LocalInv

LEMMA ReconcileLocal ==
    ASSUME LocalInv, NEW r \in Reservations, NEW f,
           NEW resolution \in {"AcknowledgeExecuted", "ProveNotExecuted"},
           Reconcile(r, resolution, f)
    PROVE  LocalInv'
<1>2. faults' \in Nat
  BY FaultsType DEF Reconcile, LocalInv, TypeOK
<1>3. NoFile \in DurableRecord /\ NotPending \in Pending
  BY DEF DurableRecord, Pending, NoFile, NotPending
<1>r. /\ Record(ledger[r], 0) \in Seq(Nat)
      /\ Len(Record(ledger[r], 0)) <= 1
      /\ Record(ledger[r], 0) # <<>>
  BY RecordType DEF LocalInv, TypeOK, Local
<1>4. TypeOK'
  BY <1>2, <1>3, <1>r DEF Reconcile, LocalInv, TypeOK
<1>5. Elsewhere(r) /\ up' = up
  BY DEF Reconcile, LocalInv, TypeOK, Elsewhere
<1>6. Local(r)'
  BY <1>4, <1>r DEF Reconcile, LocalInv, TypeOK, Local, Serving, Stages,
              NotPending, NoFile, OperatorMay
<1>7. QED  BY <1>4, <1>5, <1>6, LocalFrame DEF LocalInv

LEMMA HandlerLocal ==
    ASSUME LocalInv, NEW r \in Reservations,
           Start(r) \/ StartFails(r) \/ Finish(r) \/ Abandon(r) \/ CompleteRefused(r)
    PROVE  LocalInv'
<1> USE DEF LocalInv, TypeOK, Local, Advance, Serving, Stages, durable, Elsewhere
<1>1. TypeOK'
  BY DEF Start, StartFails, Finish, Abandon, CompleteRefused
<1>2. Elsewhere(r) /\ up' = up
  BY DEF Start, StartFails, Finish, Abandon, CompleteRefused
<1>3. Local(r)'
  BY <1>1 DEF Start, StartFails, Finish, Abandon, CompleteRefused
<1>4. QED  BY <1>1, <1>2, <1>3, LocalFrame

LEMMA StopLocal ==
    ASSUME LocalInv, Stop
    PROVE  LocalInv'
<1>1. TypeOK'
  BY DEF LocalInv, TypeOK, Stop, durable, NotPending, Pending, Stages
<1>2. ASSUME NEW r \in Reservations  PROVE Local(r)'
  BY <1>1 DEF LocalInv, TypeOK, Local, Stop, durable, NotPending, Serving, Stages
<1>3. QED  BY <1>1, <1>2 DEF LocalInv

LEMMA BootLocal ==
    ASSUME LocalInv, NEW old \in SUBSET Reservations, NEW bad \in SUBSET Reservations,
           NEW f, Boot(old, bad, f)
    PROVE  LocalInv'
<1> USE DEF LocalInv
<1>0. faults' \in Nat
  BY FaultsType DEF Boot, TypeOK
<1>1. up' \in {"up", "blocked"}
  BY DEF Boot, Blocks
<1>2. ASSUME NEW r \in Reservations
      PROVE  /\ Record(ledger[r], RowTokens(r)) \in Seq(Nat)
             /\ Len(Record(ledger[r], RowTokens(r))) <= 1
             /\ Record(ledger[r], RowTokens(r)) # <<>>
  <2>1. RowTokens(r) \in Nat
    BY DEF RowTokens, TypeOK, DurableRecord
  <2>2. QED  BY <2>1, RecordType DEF TypeOK, Local
<1>3. ledger' \in [Reservations -> Seq(Nat)]
  BY <1>2 DEF Boot, TypeOK
<1>4. ASSUME NEW r \in Reservations
      PROVE  ledger'[r] = ledger[r] \/ ledger'[r] = Record(ledger[r], RowTokens(r))
  BY DEF Boot
<1>5. ASSUME NEW r \in Reservations
      PROVE  file'[r] = file[r] \/ file'[r] = NoFile
  BY DEF Boot
<1>6. file' \in [Reservations -> DurableRecord]
  <2>1. DOMAIN file' = Reservations /\ file' = [r \in Reservations |-> file'[r]]
    BY DEF Boot
  <2>2. NoFile \in DurableRecord
    BY DEF NoFile, DurableRecord
  <2>3. QED  BY <1>5, <2>1, <2>2 DEF TypeOK
<1>7. ASSUME NEW r \in Reservations
      PROVE  \/ pending'[r] = NotPending
             \/ /\ ~Settled(r) /\ r \notin bad /\ file'[r] = file[r]
                /\ file[r] # NoFile
                /\ pending'[r] = [state |-> file[r].state, upper |-> file[r].tokens]
  BY DEF Boot
<1>8. pending' \in [Reservations -> Pending]
  <2>1. DOMAIN pending' = Reservations /\ pending' = [r \in Reservations |-> pending'[r]]
    BY DEF Boot
  <2>2. ASSUME NEW r \in Reservations  PROVE pending'[r] \in Pending
    <3>1. NotPending \in Pending
      BY DEF NotPending, Pending
    <3>2. ASSUME ~Settled(r)
          PROVE  [state |-> file[r].state, upper |-> file[r].tokens] \in Pending
      BY <3>2 DEF Settled, TypeOK, DurableRecord, Pending
    <3>3. QED  BY <1>7, <3>1, <3>2
  <2>3. QED  BY <2>1, <2>2
<1>9. quarantine' \subseteq Reservations
  BY DEF Boot, TypeOK
<1>10. TypeOK'
  BY <1>0, <1>1, <1>3, <1>6, <1>8, <1>9 DEF Boot, TypeOK
<1>11. ASSUME NEW r \in Reservations  PROVE Local(r)'
  <2>1. Len(ledger'[r]) <= 1 /\ (ledger[r] # <<>> => ledger'[r] # <<>>)
    BY <1>2, <1>4 DEF Local
  <2>2. handler' = handler /\ receipt' = receipt /\ started' = started
        /\ overridden' = overridden
    BY DEF Boot
  <2>3. handler[r] \in {"idle", "gone"} /\ Serving'
    BY <1>1 DEF Boot, Local, Serving
  <2>4. handler[r] = "idle" =>
          file'[r] = NoFile /\ pending'[r] = NotPending /\ ledger'[r] = <<>>
    BY <1>5, <1>7 DEF Boot, Local, OwesRow, Settled, NoFile
  <2>5. r \in started => \/ ledger'[r] # <<>>
                         \/ file'[r].state \in {"Executing", "Executed"}
                         \/ r \in quarantine'
    <3> SUFFICES ASSUME r \in started, ledger[r] = <<>>, r \notin quarantine,
                        file'[r] # file[r]
                 PROVE  ledger'[r] # <<>> \/ r \in quarantine'
      BY <2>1 DEF Local, Boot
    <3>1. file[r].state \in {"Executing", "Executed"}
      BY DEF Local
    <3>2. r \notin old
      BY <3>1 DEF Boot, Expires
    <3>3. CASE r \in bad /\ f = "unreadable"
      BY <3>3 DEF Boot
    <3>4. CASE r \notin bad \/ f # "unreadable"
      <4>1. Settled(r)
        BY <3>2, <3>4 DEF Boot
      <4>2. OwesRow(r)
        BY <4>1 DEF OwesRow, Local, Settled, TypeOK
      <4>3. ledger'[r] = Record(ledger[r], RowTokens(r))
        BY <3>4, <4>2 DEF Boot
      <4>4. QED  BY <1>2, <4>3
    <3>5. QED  BY <3>3, <3>4
  <2>6. /\ file'[r].state = "Executed" => r \in started
        /\ file'[r].state = "Reserved" => r \notin started
        /\ pending'[r].state = "Reserved" => r \notin started
    <3>1. Local(r)
      OBVIOUS
    <3>2. /\ file'[r].state = "Executed" => r \in started
          /\ file'[r].state = "Reserved" => r \notin started
      BY <1>5, <3>1 DEF Local, NoFile
    <3>3. pending'[r].state = "Reserved" => file[r].state = "Reserved"
      <4>1. NotPending.state = "None"
        BY DEF NotPending
      <4>2. CASE pending'[r] = NotPending
        BY <4>1, <4>2
      <4>3. CASE pending'[r] = [state |-> file[r].state, upper |-> file[r].tokens]
        BY <4>3
      <4>4. QED  BY <1>7, <4>2, <4>3
    <3>4. QED  BY <3>1, <3>2, <3>3 DEF Local
  <2>7. /\ pending'[r].state # "None" => pending'[r].upper = bound'[r]
        /\ file'[r].state \in {"Reserved", "Executing"} => file'[r].tokens = bound'[r]
    <3>1. bound' = bound /\ Local(r) /\ file[r] \in DurableRecord
      BY DEF Boot, TypeOK
    <3>2. file'[r].state \in {"Reserved", "Executing"} => file'[r].tokens = bound'[r]
      BY <1>5, <3>1 DEF Local, NoFile
    <3>3. CASE pending'[r] = NotPending
      BY <3>2, <3>3 DEF NotPending
    <3>4. CASE pending'[r] # NotPending
      <4>0. /\ pending'[r] = [state |-> file[r].state, upper |-> file[r].tokens]
            /\ ~Settled(r)
        BY <1>7, <3>4
      <4>1. pending'[r].state = file[r].state /\ pending'[r].upper = file[r].tokens
        BY <4>0
      <4>2. file[r].state # "None" => file[r].state \in {"Reserved", "Executing"}
        BY <3>1, <4>0 DEF Settled, DurableRecord
      <4>3. QED  BY <3>1, <3>2, <4>1, <4>2 DEF Local
    <3>5. QED  BY <3>3, <3>4
  <2>8. QED
    BY <2>1, <2>2, <2>3, <2>4, <2>5, <2>6, <2>7 DEF Local
<1>12. QED  BY <1>10, <1>11

LEMMA NextLocal == LocalInv /\ [Next]_vars => LocalInv'
<1> SUFFICES ASSUME LocalInv, [Next]_vars  PROVE LocalInv'
  OBVIOUS
<1>1. ASSUME NEW r \in Reservations, Handle(r)  PROVE LocalInv'
  <2>1. ASSUME NEW f \in Outcomes, NEW upper, NEW override, Reserve(r, upper, override, f)
        PROVE  LocalInv'
    BY <2>1, ReserveLocal
  <2>2. ASSUME NEW f \in Outcomes, Begin(r, f)  PROVE LocalInv'
    BY <2>2, BeginLocal
  <2>3. ASSUME NEW f \in Outcomes, Cancel(r, f)  PROVE LocalInv'
    <3>1. /\ handler[r] \in {"reserved", "boundary_failed", "not_spawned"} /\ Serving
          /\ CancelFidelity(r, f)
      BY <2>3 DEF Cancel
    <3>2. QED  BY <3>1, CancelLocal
  <2>4. ASSUME NEW f \in Outcomes, RecoverPreSpawn(r, f)  PROVE LocalInv'
    <3>1. /\ handler[r] \in {"reserved", "boundary_failed", "not_spawned"} /\ Serving
          /\ CancelFidelity(r, f)
      BY <2>4 DEF RecoverPreSpawn
    <3>2. QED  BY <3>1, CancelLocal
  <2>5. ASSUME NEW f \in Outcomes, NEW tokens, Complete(r, tokens, f)  PROVE LocalInv'
    BY <2>5, CompleteLocal
  <2>6. QED
    BY <1>1, <2>1, <2>2, <2>3, <2>4, <2>5, HandlerLocal DEF Handle
<1>2. ASSUME NEW r \in Reservations, Resolve(r)  PROVE LocalInv'
  BY <1>2, ReconcileLocal DEF Resolve
<1>3. CASE Restart
  BY <1>3, StopLocal, BootLocal DEF Restart
<1>4. CASE UNCHANGED vars
  BY <1>4 DEF vars, LocalInv, TypeOK, Local, Serving
<1>5. QED  BY <1>1, <1>2, <1>3, <1>4 DEF Next

\* The local invariant of every reservation holds in every reachable state.
THEOREM LocalInvariance == Spec => []LocalInv
BY InitLocal, NextLocal, PTL DEF Spec

\* The state of the ledger writer keeps its type.
THEOREM TypeCorrect == Spec => []TypeOK
<1>1. LocalInv => TypeOK
  BY DEF LocalInv
<1>2. QED  BY LocalInvariance, <1>1, PTL

\* No started command is lost to the accounting, whatever fails and however often
\* the daemon is restarted.
THEOREM NothingLost == Spec => []RunAccounted
<1>1. LocalInv => RunAccounted
  BY DEF LocalInv, Local, TypeOK, RunAccounted
<1>2. QED  BY LocalInvariance, <1>1, PTL

\* No reconciliation receipt becomes false: an acknowledged execution keeps its
\* row, and a command proved not to have run is not run by any later step.
THEOREM ReceiptsStayTruthful == Spec => []ReceiptTruthful
<1>1. LocalInv => ReceiptTruthful
  BY DEF LocalInv, Local, TypeOK, ReceiptTruthful
<1>2. QED  BY LocalInvariance, <1>1, PTL

-----------------------------------------------------------------------------
(* The allowance *)

Ran == started \ overridden

\* What a step can do to the shares held and to the commands that ran.
Shrinks == Held' \subseteq Held /\ Ran' = Ran
Grants(r) ==
    /\ r \notin Held /\ Held' = Held \cup {r} /\ Ran' = Ran
    /\ up = "up" /\ \E upper \in Sizes : Fits(upper)
Runs(r) == r \in Held \ Ran /\ Held' = Held /\ Ran' = Ran \cup {r}

\* A share that is held is visible to the next admission.
Covered(r) == up = "up" /\ r \in Held => ledger[r] # <<>> \/ IsPending(r)

LEMMA AlmostEqual ==
    ASSUME NEW A, NEW B, NEW x, A \subseteq B \cup {x}, B \subseteq A \cup {x}
    PROVE  /\ (x \in A <=> x \in B) => A = B
           /\ x \notin A /\ x \in B => B = A \cup {x}
  OBVIOUS

\* A step that concerns reservation r alone.
LEMMA HeldFrame ==
    ASSUME NEW r \in Reservations, Elsewhere(r),
           started \subseteq Reservations, started' \subseteq Reservations
    PROVE  /\ Held' \subseteq Held \cup {r} /\ Held \subseteq Held' \cup {r}
           /\ Ran' \subseteq Ran \cup {r} /\ Ran \subseteq Ran' \cup {r}
<1>1. ASSUME NEW q \in Reservations \ {r}
      PROVE  /\ q \in Held' <=> q \in Held
             /\ q \in Ran' <=> q \in Ran
  BY <1>1 DEF Elsewhere, Held, Ran
<1>2. /\ Held \subseteq Reservations /\ Held' \subseteq Reservations
      /\ Ran \subseteq Reservations /\ Ran' \subseteq Reservations
  BY DEF Held, Ran
<1>3. QED  BY <1>1, <1>2

LEMMA ShrinkFrame ==
    ASSUME NEW r \in Reservations, Elsewhere(r), LocalInv, LocalInv',
           r \in Held' => r \in Held, r \in Ran' <=> r \in Ran
    PROVE  Shrinks
<1>1. started \subseteq Reservations /\ started' \subseteq Reservations
  BY DEF LocalInv, TypeOK
<1>2. QED  BY <1>1, HeldFrame DEF Shrinks

LEMMA CoveredFrame ==
    ASSUME NEW r \in Reservations, Elsewhere(r), up' = up,
           \A q \in Reservations : Covered(q), Covered(r)'
    PROVE  \A q \in Reservations : Covered(q)'
<1>1. ASSUME NEW q \in Reservations \ {r}  PROVE Covered(q)'
  BY <1>1 DEF Covered, Elsewhere, IsPending, Held
<1>2. QED  BY <1>1

LEMMA ReserveHeld ==
    ASSUME LocalInv, LocalInv', \A q \in Reservations : Covered(q),
           NEW r \in Reservations, NEW upper, NEW override \in BOOLEAN, NEW f,
           Reserve(r, upper, override, f)
    PROVE  (Shrinks \/ Grants(r)) /\ \A q \in Reservations : Covered(q)'
<1> USE DEF LocalInv, TypeOK
<1>1. Elsewhere(r) /\ up' = up /\ up = "up"
  BY DEF Reserve, Elsewhere, Advance
<1>2. r \notin Held /\ r \notin Ran /\ r \notin Ran'
  BY DEF Reserve, Local, Held, Ran, NoFile, NotPending
<1>3. CASE f = "none" /\ ~override
  <2>1. r \in Held'
    BY <1>3, <1>2 DEF Reserve, Held, Local, Advance
  <2>2. upper \in Sizes /\ Fits(upper)
    BY <1>3 DEF Reserve
  <2>3. Held' = Held \cup {r} /\ Ran' = Ran
    <3>1. /\ Held' \subseteq Held \cup {r} /\ Held \subseteq Held' \cup {r}
          /\ Ran' \subseteq Ran \cup {r} /\ Ran \subseteq Ran' \cup {r}
      BY <1>1, HeldFrame
    <3>2. Held' = Held \cup {r}
      BY <1>2, <2>1, <3>1, AlmostEqual
    <3>3. Ran' = Ran
      BY <1>2, <3>1, AlmostEqual
    <3>4. QED  BY <3>2, <3>3
  <2>4. Covered(r)'
    BY <1>3 DEF Reserve, Covered, IsPending
  <2>5. QED  BY <1>1, <1>2, <2>2, <2>3, <2>4, CoveredFrame DEF Grants
<1>4. CASE f # "none" \/ override
  <2>1. r \notin Held'
    <3>1. CASE override
      BY <3>1 DEF Reserve, Held
    <3>2. CASE f # "none"
      BY <3>2 DEF Reserve, Held, Local, Advance, NoFile, NotPending
    <3>3. QED  BY <1>4, <3>1, <3>2
  <2>2. Covered(r)'
    BY <2>1 DEF Covered
  <2>3. QED  BY <1>1, <1>2, <2>1, <2>2, ShrinkFrame, CoveredFrame
<1>5. QED  BY <1>3, <1>4

\* Every step of a handler or of the operator but an admission concerns one
\* reservation.
LEMMA ActorElsewhere ==
    ASSUME TypeOK, NEW r \in Reservations, NEW f, NEW tokens, NEW resolution,
           \/ Begin(r, f) \/ Cancel(r, f) \/ RecoverPreSpawn(r, f)
           \/ Complete(r, tokens, f) \/ CompleteRefused(r) \/ Reconcile(r, resolution, f)
           \/ Start(r) \/ StartFails(r) \/ Finish(r) \/ Abandon(r)
    PROVE  Elsewhere(r) /\ up' = up /\ overridden' = overridden /\ bound' = bound
<1> USE DEF TypeOK, Elsewhere, Advance
<1>1. CASE Begin(r, f)  BY <1>1 DEF Begin
<1>2. CASE Cancel(r, f)  BY <1>2 DEF Cancel, CancelFidelity
<1>3. CASE RecoverPreSpawn(r, f)  BY <1>3 DEF RecoverPreSpawn, CancelFidelity
<1>4. CASE Complete(r, tokens, f)  BY <1>4 DEF Complete
<1>5. CASE Reconcile(r, resolution, f)  BY <1>5 DEF Reconcile
<1>6. CASE \/ CompleteRefused(r) \/ Start(r) \/ StartFails(r) \/ Finish(r) \/ Abandon(r)
  BY <1>6 DEF CompleteRefused, Start, StartFails, Finish, Abandon, durable
<1>7. QED  BY <1>1, <1>2, <1>3, <1>4, <1>5, <1>6

\* The other requests of the actor on one reservation.
LEMMA ActorHeld ==
    ASSUME LocalInv, LocalInv', \A q \in Reservations : Covered(q),
           NEW r \in Reservations, NEW f, NEW tokens,
           NEW resolution \in {"AcknowledgeExecuted", "ProveNotExecuted"},
           \/ Begin(r, f) \/ Cancel(r, f) \/ RecoverPreSpawn(r, f)
           \/ Complete(r, tokens, f) \/ CompleteRefused(r)
           \/ Reconcile(r, resolution, f) \/ StartFails(r) \/ Finish(r) \/ Abandon(r)
    PROVE  Shrinks /\ \A q \in Reservations : Covered(q)'
<1> USE DEF LocalInv, TypeOK
<1>1. Elsewhere(r) /\ up' = up /\ started' = started /\ overridden' = overridden
  <2>1. started' = started
    BY DEF Begin, Cancel, RecoverPreSpawn, CancelFidelity, Complete, CompleteRefused,
           Reconcile, StartFails, Finish, Abandon
  <2>2. QED  BY <2>1, ActorElsewhere
<1>2. Local(r) /\ Local(r)' /\ Covered(r)
  OBVIOUS
<1>3. (r \in Held' => r \in Held) /\ Covered(r)'
  <2> USE DEF Held, Covered, IsPending, Local, Advance, NoFile, NotPending
  <2>1. CASE Begin(r, f)
    BY <1>2, <2>1 DEF Begin
  <2>2. CASE Cancel(r, f) \/ RecoverPreSpawn(r, f)
    BY <1>2, <2>2 DEF Cancel, RecoverPreSpawn, CancelFidelity
  <2>3. CASE Complete(r, tokens, f)
    <3>1. Record(ledger[r], tokens) # <<>>
      BY <2>3, FidelityAssumption, RecordType DEF Complete
    <3>2. QED  BY <1>2, <2>3, <3>1 DEF Complete
  <2>4. CASE CompleteRefused(r)
    BY <1>2, <2>4 DEF CompleteRefused, durable
  <2>5. CASE Reconcile(r, resolution, f)
    <3>1. Record(ledger[r], 0) # <<>>
      BY RecordType
    <3>2. QED  BY <1>2, <2>5, <3>1 DEF Reconcile, OperatorMay
  <2>6. CASE StartFails(r) \/ Finish(r) \/ Abandon(r)
    BY <1>2, <2>6 DEF StartFails, Finish, Abandon, durable
  <2>7. QED  BY <2>1, <2>2, <2>3, <2>4, <2>5, <2>6
<1>4. QED  BY <1>1, <1>3, ShrinkFrame, CoveredFrame DEF Ran

LEMMA StartHeld ==
    ASSUME LocalInv, LocalInv', \A q \in Reservations : Covered(q),
           NEW r \in Reservations, Start(r)
    PROVE  (Shrinks \/ Runs(r)) /\ \A q \in Reservations : Covered(q)'
<1> USE DEF LocalInv, TypeOK
<1>1. Elsewhere(r) /\ up' = up /\ started' = started \cup {r} /\ overridden' = overridden
  BY DEF Elsewhere, Advance, Start, durable
<1>2. r \notin Ran
  BY DEF Start, Local, Ran
<1>3. (r \in Held' <=> r \in Held) /\ Covered(r)'
  BY DEF Start, Held, Covered, IsPending, Local, Advance, durable
<1>4. \A q \in Reservations : Covered(q)'
  BY <1>1, <1>3, CoveredFrame
<1>5. CASE r \in overridden
  BY <1>1, <1>3, <1>4, <1>5, ShrinkFrame DEF Ran
<1>6. CASE r \notin overridden
  <2>1. r \in Held
    BY <1>6 DEF Start, Held
  <2>2. Ran' = Ran \cup {r}
    BY <1>1, <1>6 DEF Ran
  <2>3. Held' \subseteq Held \cup {r} /\ Held \subseteq Held' \cup {r}
    BY <1>1, HeldFrame
  <2>4. Held' = Held
    BY <1>3, <2>3, AlmostEqual
  <2>5. QED  BY <1>2, <1>4, <2>1, <2>2, <2>4 DEF Runs
<1>7. QED  BY <1>5, <1>6

LEMMA RestartHeld ==
    ASSUME LocalInv, LocalInv', quarantine = {}, "unreadable" \notin Faults, Restart
    PROVE  /\ Shrinks
           /\ \A q \in Reservations : Covered(q)'
           /\ quarantine' = {}
<1> USE DEF LocalInv, TypeOK
<1>1. CASE Stop
  <2>1. ASSUME NEW q \in Reservations, q \in Held'  PROVE q \in Held
    BY <1>1, <2>1 DEF Stop, Held, durable, Local, NotPending
  <2>2. Held' \subseteq Held /\ Ran' = Ran /\ quarantine' = {}
    BY <1>1, <2>1 DEF Stop, Held, Ran, durable
  <2>3. QED  BY <1>1, <2>2 DEF Stop, Covered, Shrinks
<1>2. ASSUME NEW old \in SUBSET Reservations, NEW bad \in SUBSET Reservations,
             NEW f \in Outcomes, Boot(old, bad, f)
      PROVE  /\ Shrinks
             /\ \A q \in Reservations : Covered(q)'
             /\ quarantine' = {}
  <2>1. f # "unreadable"
    BY <1>2 DEF Outcomes
  <2>2. quarantine' = {} /\ started' = started /\ overridden' = overridden
        /\ handler' = handler /\ receipt' = receipt
    BY <1>2, <2>1 DEF Boot
  <2>3. ASSUME NEW q \in Reservations
        PROVE  (q \in Held' => q \in Held) /\ Covered(q)'
    <3>1. Local(q) /\ Local(q)'
      OBVIOUS
    <3>2. /\ file'[q] = file[q] \/ file'[q] = NoFile
          /\ pending'[q].state = "Executing" => file[q].state = "Executing"
      <4>1. NotPending.state = "None"
        BY DEF NotPending
      <4>2. \/ pending'[q] = NotPending
            \/ pending'[q] = [state |-> file[q].state, upper |-> file[q].tokens]
        BY <1>2 DEF Boot
      <4>3. file'[q] = file[q] \/ file'[q] = NoFile
        BY <1>2 DEF Boot
      <4>4. CASE pending'[q] = NotPending
        BY <4>1, <4>3, <4>4
      <4>5. CASE pending'[q] = [state |-> file[q].state, upper |-> file[q].tokens]
        BY <4>3, <4>5
      <4>6. QED  BY <4>2, <4>4, <4>5
    <3>3. ledger'[q] # <<>> => ledger[q] # <<>> \/ file[q].state \in {"Executing", "Executed"}
      BY <1>2 DEF Boot, OwesRow, Settled
    <3>4. q \in Held' => q \in Held
      <4> SUFFICES ASSUME q \in Held'  PROVE q \in Held
        OBVIOUS
      <4>1. NoFile.state = "None"
        BY DEF NoFile
      <4>2. file'[q].state \in {"Executing", "Executed"} => file'[q] = file[q]
        BY <3>2, <4>1
      <4>3. ASSUME file[q].state \in {"Executing", "Executed"}, q \notin started
            PROVE  ledger'[q] # <<>> => ledger[q] # <<>> \/ receipt[q] # "ProveNotExecuted"
        BY <1>2, <3>1, <4>3 DEF Boot, OwesRow, Settled, Local
      <4>4. QED  BY <2>2, <3>2, <3>3, <4>2, <4>3 DEF Held
    <3>5. Covered(q)'
      <4> SUFFICES ASSUME up' = "up", q \in Held', ledger'[q] = <<>>
                   PROVE  IsPending(q)'
        BY DEF Covered
      <4>1. bad = {} /\ f = "none" /\ up = "down"
        BY <1>2 DEF Boot, Blocks
      <4>2. ledger[q] = <<>>
        BY <1>2, RecordType DEF Boot, Record
      <4>3. handler[q] \in {"idle", "gone"}
        BY <4>1 DEF Local, Serving
      <4>4. receipt[q] # "AcknowledgeExecuted" /\ ~OwesRow(q)
        <5>1. receipt[q] # "AcknowledgeExecuted"
          BY <4>2, <3>1 DEF Local
        <5>2. OwesRow(q) => ledger'[q] = <<RowTokens(q)>>
          BY <1>2, <4>1, <4>2 DEF Boot, Record
        <5>3. QED  BY <5>1, <5>2
      <4>5. file[q].state = "Executing" /\ receipt[q] = "None"
        BY <2>2, <3>1, <3>2, <4>2, <4>3, <4>4
           DEF Held, OwesRow, Settled, Local, NoFile
      <4>6. q \notin old /\ ~Settled(q) /\ file[q] # NoFile
        BY <1>2, <4>5 DEF Boot, Expires, Settled, NoFile
      <4>7. pending'[q] = [state |-> file[q].state, upper |-> file[q].tokens]
        BY <1>2, <4>1, <4>6 DEF Boot
      <4>8. QED  BY <4>5, <4>7 DEF IsPending
    <3>6. QED  BY <3>4, <3>5
  <2>4. Held' \subseteq Held /\ Ran' = Ran
    BY <2>2, <2>3 DEF Held, Ran
  <2>5. QED  BY <2>2, <2>3, <2>4 DEF Shrinks
<1>3. QED  BY <1>1, <1>2 DEF Restart

\* Every step shrinks the held shares, grants one, or runs a command.
LEMMA HeldSteps ==
    ASSUME LocalInv, LocalInv', quarantine = {}, "unreadable" \notin Faults,
           \A q \in Reservations : Covered(q), [Next]_vars
    PROVE  /\ Shrinks \/ \E r \in Reservations : Grants(r) \/ Runs(r)
           /\ \A q \in Reservations : Covered(q)'
           /\ quarantine' = {}
<1>1. ASSUME NEW r \in Reservations, Handle(r) \/ Resolve(r)
      PROVE  /\ Shrinks \/ Grants(r) \/ Runs(r)
             /\ \A q \in Reservations : Covered(q)'
             /\ quarantine' = {}
  <2>1. ASSUME NEW f \in Outcomes, NEW upper, NEW override \in BOOLEAN,
               Reserve(r, upper, override, f)
        PROVE  /\ Shrinks \/ Grants(r)
               /\ \A q \in Reservations : Covered(q)'
               /\ quarantine' = {}
    BY <2>1, ReserveHeld DEF Reserve
  <2>2. ASSUME Start(r)
        PROVE  /\ Shrinks \/ Runs(r)
               /\ \A q \in Reservations : Covered(q)'
               /\ quarantine' = {}
    BY <2>2, StartHeld DEF Start, durable
  <2>3. ASSUME NEW f, NEW tokens,
               NEW resolution \in {"AcknowledgeExecuted", "ProveNotExecuted"},
               \/ Begin(r, f) \/ Cancel(r, f) \/ RecoverPreSpawn(r, f)
               \/ Complete(r, tokens, f) \/ CompleteRefused(r)
               \/ Reconcile(r, resolution, f) \/ StartFails(r) \/ Finish(r) \/ Abandon(r)
        PROVE  /\ Shrinks
               /\ \A q \in Reservations : Covered(q)'
               /\ quarantine' = {}
    <3>1. quarantine' = quarantine
      BY <2>3 DEF Begin, Cancel, RecoverPreSpawn, CancelFidelity, Complete,
                  CompleteRefused, Reconcile, StartFails, Finish, Abandon, durable
    <3>2. QED  BY <2>3, <3>1, ActorHeld
  <2>4. CASE Resolve(r)
    BY <2>3, <2>4 DEF Resolve
  <2>5. CASE Handle(r)
    <3>1. CASE \E f \in Outcomes : \/ \E upper \in Sizes : Reserve(r, upper, FALSE, f)
                                   \/ Reserve(r, MaxTokens, TRUE, f)
      BY <2>1, <3>1
    <3>2. CASE ~\E f \in Outcomes : \/ \E upper \in Sizes : Reserve(r, upper, FALSE, f)
                                    \/ Reserve(r, MaxTokens, TRUE, f)
      BY <2>2, <2>3, <2>5, <3>2 DEF Handle
    <3>3. QED  BY <3>1, <3>2
  <2>6. QED  BY <1>1, <2>4, <2>5
<1>2. CASE Restart
  BY <1>2, RestartHeld
<1>3. CASE UNCHANGED vars
  BY <1>3 DEF vars, Shrinks, Held, Ran, Covered, IsPending
<1>4. QED  BY <1>1, <1>2, <1>3 DEF Next

\* With at most one row for each reservation, COUNT(*) counts the recorded ones.
LEMMA OperationsCount ==
    ASSUME LocalInv
    PROVE  IsFiniteSet(Recorded) /\ Operations = Cardinality(Recorded)
<1>1. IsFiniteSet(Recorded)
  BY FidelityAssumption, FS_Subset DEF Recorded
<1> DEFINE T == Rows(Reservations)
           g == [r \in Recorded |-> <<r, 1>>]
<1>2. ASSUME NEW r \in Reservations
      PROVE  DOMAIN ledger[r] = IF r \in Recorded THEN {1} ELSE {}
  <2>1. ledger[r] \in Seq(Nat) /\ Len(ledger[r]) <= 1
    BY DEF LocalInv, TypeOK, Local
  <2>2. DOMAIN ledger[r] = 1..Len(ledger[r])
    BY <2>1
  <2>3. ledger[r] = <<>> <=> Len(ledger[r]) = 0
    BY <2>1
  <2>4. r \in Recorded <=> Len(ledger[r]) # 0
    BY <2>3 DEF Recorded
  <2>5. Len(ledger[r]) = 0 \/ Len(ledger[r]) = 1
    <3> DEFINE n == Len(ledger[r])
    <3>1. n \in Nat /\ n <= 1
      BY <2>1
    <3> HIDE DEF n
    <3>2. n = 0 \/ n = 1
      BY <3>1
    <3>3. QED  BY <3>2 DEF n
  <2>6. QED  BY <2>2, <2>4, <2>5
<1>3. T = {<<r, 1>> : r \in Recorded}
  <2>1. ASSUME NEW x \in T  PROVE x \in {<<r, 1>> : r \in Recorded}
    <3>1. PICK r \in Reservations : x \in {r} \X DOMAIN ledger[r]
      BY <2>1 DEF Rows
    <3>2. QED  BY <1>2, <3>1
  <2>2. ASSUME NEW r \in Recorded  PROVE <<r, 1>> \in T
    <3>1. r \in Reservations /\ <<r, 1>> \in {r} \X DOMAIN ledger[r]
      BY <1>2 DEF Recorded
    <3>2. QED  BY <3>1 DEF Rows
  <2>3. QED  BY <2>1, <2>2
<1>4. g \in Bijection(Recorded, T)
  <2>1. g \in [Recorded -> T]
    BY <1>3
  <2>2. \A a, b \in Recorded : g[a] = g[b] => a = b
    OBVIOUS
  <2>3. \A t \in T : \E a \in Recorded : g[a] = t
    BY <1>3
  <2> HIDE DEF g, T
  <2>4. QED  BY <2>1, <2>2, <2>3, Fun_IsBij
<1>5. ExistsBijection(Recorded, T)
  BY <1>4 DEF ExistsBijection
<1>6. Cardinality(T) = Cardinality(Recorded)
  BY <1>1, <1>5, FS_Bijection
<1>7. QED  BY <1>1, <1>6 DEF Operations

\* A share is granted only while fewer than MaxOperations are held.
LEMMA GrantFits ==
    ASSUME LocalInv, NEW r \in Reservations, Grants(r),
           \A q \in Reservations : Covered(q)
    PROVE  Cardinality(Held \cup {r}) <= MaxOperations
<1>1. Held \subseteq Recorded \cup PendingIds
  BY DEF Grants, Covered, Held, Recorded, PendingIds
<1>2. IsFiniteSet(Recorded) /\ Operations = Cardinality(Recorded)
  BY OperationsCount
<1>3. IsFiniteSet(PendingIds)
  BY FidelityAssumption, FS_Subset DEF PendingIds
<1>4. /\ Cardinality(Recorded) \in Nat /\ Cardinality(PendingIds) \in Nat
      /\ Cardinality(Recorded \cap PendingIds) \in Nat
  <2>1. IsFiniteSet(Recorded \cap PendingIds)
    BY <1>2, FS_Subset
  <2>2. QED  BY <1>2, <1>3, <2>1, FS_CardinalityType
<1>5. /\ IsFiniteSet(Recorded \cup PendingIds)
      /\ Cardinality(Recorded \cup PendingIds) <= Operations + Cardinality(PendingIds)
  <2>1. /\ IsFiniteSet(Recorded \cup PendingIds)
        /\ Cardinality(Recorded \cup PendingIds) = Cardinality(Recorded) +
              Cardinality(PendingIds) - Cardinality(Recorded \cap PendingIds)
    BY <1>2, <1>3, FS_Union
  <2>2. QED  BY <1>2, <1>4, <2>1
<1>6. /\ IsFiniteSet(Held) /\ Cardinality(Held) \in Nat
      /\ Cardinality(Held) <= Cardinality(Recorded \cup PendingIds)
  BY <1>1, <1>5, FS_Subset, FS_CardinalityType
<1>7. Operations + Cardinality(PendingIds) < MaxOperations
  BY <1>2, <1>4, FidelityAssumption DEF Grants, Fits, Saturating
<1>8. Cardinality(Held \cup {r}) = Cardinality(Held) + 1
  BY <1>6, FS_AddElement DEF Grants
<1>9. Cardinality(Recorded \cup PendingIds) \in Nat
  BY <1>5, FS_CardinalityType
<1>10. QED  BY <1>2, <1>4, <1>5, <1>6, <1>7, <1>8, <1>9, FidelityAssumption

-----------------------------------------------------------------------------

AllowanceInv ==
    /\ LocalInv
    /\ quarantine = {}
    /\ \A r \in Reservations : Covered(r)
    /\ Cardinality(Held) <= MaxOperations

LEMMA HeldFinite == IsFiniteSet(Held) /\ Cardinality(Held) \in Nat
  BY FidelityAssumption, FS_Subset, FS_CardinalityType DEF Held

LEMMA InitAllowance == Init => AllowanceInv
<1> SUFFICES ASSUME Init  PROVE AllowanceInv
  OBVIOUS
<1>1. Held = {}
  BY DEF Init, Held, NoFile, NotPending
<1>2. Cardinality(Held) <= MaxOperations
  BY <1>1, FS_EmptySet, FidelityAssumption
<1>3. QED  BY <1>1, <1>2, InitLocal DEF Init, AllowanceInv, Covered

LEMMA NextAllowance ==
    ASSUME "unreadable" \notin Faults, AllowanceInv, [Next]_vars
    PROVE  AllowanceInv'
<1> USE DEF AllowanceInv
<1>1. LocalInv'
  BY NextLocal
<1>2. /\ Shrinks \/ \E r \in Reservations : Grants(r) \/ Runs(r)
      /\ \A q \in Reservations : Covered(q)'
      /\ quarantine' = {}
  BY <1>1, HeldSteps
<1>3. Cardinality(Held') <= MaxOperations
  <2>0. IsFiniteSet(Held) /\ Cardinality(Held) \in Nat
    BY HeldFinite
  <2>1. CASE Shrinks
    <3>1. IsFiniteSet(Held') /\ Cardinality(Held') <= Cardinality(Held)
      BY <2>0, <2>1, FS_Subset DEF Shrinks
    <3>2. Cardinality(Held') \in Nat
      BY <3>1, FS_CardinalityType
    <3>3. QED  BY <2>0, <3>1, <3>2, FidelityAssumption
  <2>2. ASSUME NEW r \in Reservations, Grants(r)
        PROVE  Cardinality(Held') <= MaxOperations
    BY <2>2, GrantFits DEF Grants
  <2>3. ASSUME NEW r \in Reservations, Runs(r)
        PROVE  Cardinality(Held') <= MaxOperations
    BY <2>3 DEF Runs
  <2>4. QED  BY <1>2, <2>1, <2>2, <2>3
<1>4. QED  BY <1>1, <1>2, <1>3

\* As long as every durable record can be read, no order of requests, failures,
\* crashes and restarts runs more unapproved commands than the allowance.
THEOREM AllowanceKept ==
    ASSUME "unreadable" \notin Faults
    PROVE  Spec => []WithinAllowance
<1>1. AllowanceInv => WithinAllowance
  <2> SUFFICES ASSUME AllowanceInv  PROVE WithinAllowance
    OBVIOUS
  <2>1. started \ overridden \subseteq Held
    BY DEF AllowanceInv, LocalInv, TypeOK, Held
  <2>2. /\ IsFiniteSet(started \ overridden)
        /\ Cardinality(started \ overridden) <= Cardinality(Held)
    BY <2>1, HeldFinite, FS_Subset
  <2>3. Cardinality(started \ overridden) \in Nat
    BY <2>2, FS_CardinalityType
  <2>4. QED
    BY <2>2, <2>3, HeldFinite, FidelityAssumption DEF AllowanceInv, WithinAllowance
<1>2. AllowanceInv /\ [Next]_vars => AllowanceInv'
  BY NextAllowance
<1>3. QED  BY InitAllowance, <1>1, <1>2, PTL DEF Spec

\* Under the same condition the reservations implement the abstract allowance.
THEOREM ImplementsAllowance ==
    ASSUME "unreadable" \notin Faults
    PROVE  Spec => AllowanceSpec
<1>1. Init => Abstract!Init
  BY DEF Init, Abstract!Init, Held, NoFile, NotPending
<1>2. AllowanceInv /\ [Next]_vars => [Abstract!Next]_<<Held, started \ overridden>>
  <2> SUFFICES ASSUME AllowanceInv, [Next]_vars
               PROVE  Abstract!Next \/ UNCHANGED <<Held, started \ overridden>>
    OBVIOUS
  <2>1. LocalInv' /\ LocalInv
    BY NextLocal DEF AllowanceInv
  <2>2. Shrinks \/ \E r \in Reservations : Grants(r) \/ Runs(r)
    BY <2>1, HeldSteps DEF AllowanceInv
  <2>3. CASE Shrinks
    <3>1. Ran \subseteq Held'
      BY <2>1, <2>3 DEF LocalInv, TypeOK, Held, Ran, Shrinks
    <3>2. Abstract!GiveBack(Held \ Held')
      BY <2>3, <3>1 DEF Abstract!GiveBack, Shrinks, Ran
    <3>3. Held \ Held' \in SUBSET Reservations
      BY DEF Held
    <3>4. QED  BY <3>2, <3>3 DEF Abstract!Next
  <2>4. ASSUME NEW r \in Reservations, Grants(r)  PROVE Abstract!Next
    <3>1. Cardinality(Held \cup {r}) <= MaxOperations
      BY <2>1, <2>4, GrantFits DEF AllowanceInv
    <3>2. Abstract!Grant(r)
      <4>1. r \notin Held /\ Held' = Held \cup {r} /\ Ran' = Ran
        BY <2>4 DEF Grants
      <4>2. QED  BY <3>1, <4>1 DEF Abstract!Grant, Ran, AtMostMaxOperations
    <3>3. QED  BY <3>2 DEF Abstract!Next
  <2>5. ASSUME NEW r \in Reservations, Runs(r)  PROVE Abstract!Next
    BY <2>5 DEF Abstract!Next, Abstract!Run, Runs, Ran
  <2>6. QED  BY <2>2, <2>3, <2>4, <2>5
<1>3. AllowanceInv /\ [Next]_vars => AllowanceInv'
  BY NextAllowance
<1>4. QED  BY InitAllowance, <1>1, <1>2, <1>3, PTL DEF Spec, AllowanceSpec, Abstract!Spec

-----------------------------------------------------------------------------
(* The token allowance *)

\* The tokens, up to the bound of its reservation, that the row of r has, or that
\* it may still get: from the outbox record, or from a handler that has not
\* completed yet.
Due(r) ==
    IF ledger[r] # <<>> THEN Lesser(ledger[r][1], bound[r])
    ELSE IF file[r].state = "Executed" THEN Lesser(file[r].tokens, bound[r])
    ELSE IF handler[r] \notin {"idle", "gone"} THEN pending[r].upper
    ELSE 0

Dues == [r \in Reservations \ overridden |-> Due(r)]

\* An outbox record was left by a completion that failed.  As long as it has no
\* row and new reservations are admitted, its share is still pending.
Outbox(r) ==
    file[r].state = "Executed" =>
        /\ handler[r] = "gone"
        /\ up = "up" /\ ledger[r] = <<>> => pending[r].state = "Executing"

TokensInv ==
    /\ LocalInv
    /\ \A r \in Reservations : Outbox(r)
    /\ Total(Dues) <= MaxTokens

\* Sums: what is counted is finite, and a sum grows with its summands.
LEMMA UnitsIn ==
    ASSUME NEW F, NEW u
    PROVE  u \in Units(F) <=> \E x \in DOMAIN F : \E i \in 1..F[x] : u = <<x, i>>
BY DEF Units

LEMMA UnitsFinite ==
    ASSUME NEW D, IsFiniteSet(D), NEW F \in [D -> Nat]
    PROVE  IsFiniteSet(Units(F)) /\ Total(F) \in Nat
<1> DEFINE S == {{x} \X (1..F[x]) : x \in D}
           g == [x \in D |-> {x} \X (1..F[x])]
<1>1. g \in Surjection(D, S)
  <2>1. g \in [D -> S]
    OBVIOUS
  <2>2. \A t \in S : \E x \in D : g[x] = t
    OBVIOUS
  <2> HIDE DEF g, S
  <2>3. QED  BY <2>1, <2>2, Fun_IsSurj
<1>2. IsFiniteSet(S)
  BY <1>1, FS_Surjection
<1>3. ASSUME NEW T \in S  PROVE IsFiniteSet(T)
  <2>1. PICK x \in D : T = {x} \X (1..F[x])
    OBVIOUS
  <2>2. IsFiniteSet({x})
    BY FS_Singleton
  <2>3. F[x] \in Int /\ 1 \in Int
    OBVIOUS
  <2>4. IsFiniteSet(1..F[x])
    BY <2>3, FS_Interval
  <2>5. QED  BY <2>1, <2>2, <2>4, FS_Product
<1>4. Units(F) = UNION S
  BY DEF Units
<1>5. IsFiniteSet(Units(F))
  <2> HIDE DEF S
  <2>1. QED  BY <1>2, <1>3, <1>4, FS_UNION
<1>6. QED  BY <1>5, FS_CardinalityType DEF Total

LEMMA TotalInjective ==
    ASSUME NEW D, NEW E, IsFiniteSet(E), NEW F \in [D -> Nat], NEW G \in [E -> Nat],
           NEW g \in [D -> E], \A x, y \in D : g[x] = g[y] => x = y,
           \A x \in D : F[x] <= G[g[x]]
    PROVE  Total(F) <= Total(G)
<1> DEFINE h == [u \in Units(F) |-> <<g[u[1]], u[2]>>]
<1>1. h \in [Units(F) -> Units(G)]
  <2> SUFFICES ASSUME NEW u \in Units(F)  PROVE <<g[u[1]], u[2]>> \in Units(G)
    OBVIOUS
  <2>1. PICK x \in D, i \in Nat : i \in 1..F[x] /\ u = <<x, i>>
    BY UnitsIn
  <2>2. g[x] \in E /\ i \in 1..G[g[x]]
    BY <2>1
  <2>3. QED  BY <2>1, <2>2, UnitsIn
<1>2. ASSUME NEW u \in Units(F), NEW v \in Units(F), h[u] = h[v]  PROVE u = v
  <2>1. PICK x \in D, i \in Nat : i \in 1..F[x] /\ u = <<x, i>>
    BY UnitsIn
  <2>2. PICK y \in D, j \in Nat : j \in 1..F[y] /\ v = <<y, j>>
    BY UnitsIn
  <2>3. h[u] = <<g[x], i>> /\ h[v] = <<g[y], j>>
    BY <2>1, <2>2
  <2>4. g[x] = g[y] /\ i = j
    BY <1>2, <2>3
  <2>5. QED  BY <2>1, <2>2, <2>4
<1>3. h \in Injection(Units(F), Units(G))
  <2> HIDE DEF h
  <2>1. QED  BY <1>1, <1>2, Fun_IsInj
<1>4. IsFiniteSet(Units(G))
  BY UnitsFinite
<1>5. QED  BY <1>3, <1>4, FS_Injection DEF Total

LEMMA TotalGrows ==
    ASSUME NEW D, NEW E, IsFiniteSet(E), NEW F \in [D -> Nat], NEW G \in [E -> Nat],
           D \subseteq E, \A x \in D : F[x] <= G[x]
    PROVE  Total(F) <= Total(G)
<1> DEFINE g == [x \in D |-> x]
<1>1. g \in [D -> E] /\ (\A x, y \in D : g[x] = g[y] => x = y)
      /\ \A x \in D : F[x] <= G[g[x]]
  OBVIOUS
<1> HIDE DEF g
<1>2. QED  BY <1>1, TotalInjective

LEMMA TotalOfTwo ==
    ASSUME NEW S, IsFiniteSet(S), NEW T, IsFiniteSet(T), NEW F, Units(F) \subseteq S \cup T
    PROVE  Total(F) <= Cardinality(S) + Cardinality(T)
<1>1. /\ IsFiniteSet(S \cup T)
      /\ Cardinality(S \cup T) = Cardinality(S) + Cardinality(T) - Cardinality(S \cap T)
  BY FS_Union
<1>2. IsFiniteSet(S \cap T)
  BY FS_Subset
<1>3. /\ Cardinality(S) \in Nat /\ Cardinality(T) \in Nat
      /\ Cardinality(S \cap T) \in Nat /\ Cardinality(S \cup T) \in Nat
  BY <1>1, <1>2, FS_CardinalityType
<1>4. IsFiniteSet(Units(F)) /\ Total(F) <= Cardinality(S \cup T)
  BY <1>1, FS_Subset DEF Total
<1>5. Total(F) \in Nat
  BY <1>4, FS_CardinalityType DEF Total
<1>6. QED  BY <1>1, <1>3, <1>4, <1>5

\* One summand that becomes n adds at most n.
LEMMA TotalAdds ==
    ASSUME NEW D, IsFiniteSet(D), NEW F \in [D -> Nat], NEW G \in [D -> Nat],
           NEW r \in D, NEW n \in Nat, G[r] <= n,
           \A x \in D : x # r => G[x] <= F[x]
    PROVE  Total(G) <= Total(F) + n
<1>1. IsFiniteSet(1..n) /\ Cardinality(1..n) = n
  BY FS_Interval
<1>2. IsFiniteSet({r}) /\ Cardinality({r}) = 1
  BY FS_Singleton
<1>3. IsFiniteSet({r} \X (1..n)) /\ Cardinality({r} \X (1..n)) = n
  BY <1>1, <1>2, FS_Product
<1>4. Units(G) \subseteq Units(F) \cup ({r} \X (1..n))
  <2> SUFFICES ASSUME NEW u \in Units(G)  PROVE u \in Units(F) \cup ({r} \X (1..n))
    OBVIOUS
  <2>1. PICK x \in D, i \in Nat : i \in 1..G[x] /\ u = <<x, i>>
    BY UnitsIn
  <2>2. CASE x = r
    BY <2>1, <2>2
  <2>3. CASE x # r
    <3>1. i \in 1..F[x]
      BY <2>1, <2>3
    <3>2. QED  BY <2>1, <3>1, UnitsIn
  <2>4. QED  BY <2>2, <2>3
<1>5. IsFiniteSet(Units(F))
  BY UnitsFinite
<1>6. QED  BY <1>3, <1>4, <1>5, TotalOfTwo DEF Total

-----------------------------------------------------------------------------

LEMMA DueType ==
    ASSUME LocalInv, NEW r \in Reservations
    PROVE  /\ Due(r) \in Nat
           /\ ledger[r] # <<>> => DOMAIN ledger[r] = {1} /\ ledger[r][1] \in Nat
           /\ ledger[r] = <<>> => DOMAIN ledger[r] = {}
<1>1. ledger[r] \in Seq(Nat) /\ Len(ledger[r]) <= 1
  BY DEF LocalInv, TypeOK, Local
<1>2. file[r].tokens \in Nat /\ pending[r].upper \in Nat
  BY DEF LocalInv, TypeOK, DurableRecord, Pending
<1>3. ledger[r] # <<>> => DOMAIN ledger[r] = {1} /\ ledger[r][1] \in Nat
  <2> SUFFICES ASSUME ledger[r] # <<>>
               PROVE  DOMAIN ledger[r] = {1} /\ ledger[r][1] \in Nat
    OBVIOUS
  <2>1. Len(ledger[r]) \in Nat /\ Len(ledger[r]) # 0 /\ DOMAIN ledger[r] = 1..Len(ledger[r])
    BY <1>1
  <2>2. Len(ledger[r]) = 1
    <3> DEFINE n == Len(ledger[r])
    <3>1. n \in Nat /\ n # 0 /\ n <= 1
      BY <1>1, <2>1
    <3> HIDE DEF n
    <3>2. n = 1
      BY <3>1
    <3>3. QED  BY <3>2 DEF n
  <2>3. QED  BY <1>1, <2>1, <2>2
<1>4. ledger[r] = <<>> => DOMAIN ledger[r] = {}
  OBVIOUS
<1>5. bound[r] \in Nat
  BY DEF LocalInv, TypeOK
<1>6. QED  BY <1>2, <1>3, <1>4, <1>5 DEF Due, Lesser

LEMMA DuesType ==
    ASSUME LocalInv
    PROVE  /\ IsFiniteSet(Reservations \ overridden)
           /\ Dues \in [Reservations \ overridden -> Nat]
           /\ Total(Dues) \in Nat
<1>1. IsFiniteSet(Reservations \ overridden)
  BY FidelityAssumption, FS_Subset
<1>2. Dues \in [Reservations \ overridden -> Nat]
  BY DueType DEF Dues
<1>3. QED  BY <1>1, <1>2, UnitsFinite

\* The rows of R are the recorded reservations of R, with what is due for each.
LEMMA TokensType ==
    ASSUME LocalInv, NEW R, R \subseteq Reservations
    PROVE  /\ \A row \in Rows(R) : row = <<row[1], 1>> /\ row[1] \in R /\ ledger[row[1]] # <<>>
           /\ \A r \in R : ledger[r] # <<>> => <<r, 1>> \in Rows(R)
           /\ IsFiniteSet(Rows(R))
           /\ TokensOf(R) \in [Rows(R) -> Nat]
           /\ BoundedTokensOf(R) \in [Rows(R) -> Nat]
<1>1. ASSUME NEW row \in Rows(R)
      PROVE  row = <<row[1], 1>> /\ row[1] \in R /\ ledger[row[1]] # <<>>
  <2>1. PICK r \in R : row \in {r} \X DOMAIN ledger[r]
    BY DEF Rows
  <2>2. DOMAIN ledger[r] = {1} /\ ledger[r] # <<>>
    BY <2>1, DueType
  <2>3. QED  BY <2>1, <2>2
<1>2. ASSUME NEW r \in R, ledger[r] # <<>>  PROVE <<r, 1>> \in Rows(R)
  <2>1. <<r, 1>> \in {r} \X DOMAIN ledger[r]
    BY <1>2, DueType
  <2>2. QED  BY <2>1 DEF Rows
<1>3. IsFiniteSet(Rows(R))
  <2>1. IsFiniteSet(R) /\ IsFiniteSet({1})
    BY FidelityAssumption, FS_Subset, FS_Singleton
  <2>2. IsFiniteSet(R \X {1})
    BY <2>1, FS_Product
  <2>3. Rows(R) \subseteq R \X {1}
    <3> SUFFICES ASSUME NEW row \in Rows(R)  PROVE row \in R \X {1}
      OBVIOUS
    <3>1. row = <<row[1], 1>> /\ row[1] \in R
      BY <1>1
    <3>2. <<row[1], 1>> \in R \X {1}
      BY <3>1
    <3>3. QED  BY <3>1, <3>2
  <2>4. QED  BY <2>2, <2>3, FS_Subset
<1>4. ASSUME NEW row \in Rows(R)
      PROVE  ledger[row[1]][row[2]] \in Nat /\ bound[row[1]] \in Nat
  <2>1. row[1] \in R /\ row[2] = 1 /\ ledger[row[1]] # <<>>
    BY <1>1
  <2>2. QED  BY <2>1, DueType DEF LocalInv, TypeOK
<1>5. BoundedTokensOf(R) \in [Rows(R) -> Nat]
  BY <1>4 DEF BoundedTokensOf, Lesser
<1>6. QED  BY <1>1, <1>2, <1>3, <1>4, <1>5 DEF TokensOf

\* The rows do not hold more than is due.
LEMMA RowsWithinDues ==
    ASSUME LocalInv
    PROVE  Total(BoundedTokensOf(Reservations \ overridden)) <= Total(Dues)
<1> DEFINE R == Reservations \ overridden
           g == [row \in Rows(R) |-> row[1]]
<1>0. R \subseteq Reservations
  OBVIOUS
<1>1. /\ \A row \in Rows(R) : row = <<row[1], 1>> /\ row[1] \in R /\ ledger[row[1]] # <<>>
      /\ IsFiniteSet(Rows(R)) /\ BoundedTokensOf(R) \in [Rows(R) -> Nat]
  <2> HIDE DEF R
  <2>1. QED  BY <1>0, TokensType
<1>2. IsFiniteSet(R) /\ Dues \in [R -> Nat]
  BY DuesType
<1>3. ASSUME NEW row \in Rows(R)  PROVE BoundedTokensOf(R)[row] <= Dues[g[row]]
  <2>0. row = <<row[1], 1>> /\ row[1] \in R /\ ledger[row[1]] # <<>>
    BY <1>1
  <2>1. row[1] \in R /\ row[2] = 1 /\ ledger[row[1]] # <<>>
    BY <2>0
  <2>2. BoundedTokensOf(R)[row] = Lesser(ledger[row[1]][1], bound[row[1]])
    BY <2>1 DEF BoundedTokensOf
  <2>3. Dues[g[row]] = Lesser(ledger[row[1]][1], bound[row[1]])
    BY <2>1 DEF Dues, Due
  <2>4. Lesser(ledger[row[1]][1], bound[row[1]]) \in Nat
    BY <2>1, DueType DEF LocalInv, TypeOK, Lesser
  <2>5. QED  BY <2>2, <2>3, <2>4
<1>4. g \in [Rows(R) -> R] /\ \A x, y \in Rows(R) : g[x] = g[y] => x = y
  <2>1. ASSUME NEW x \in Rows(R), NEW y \in Rows(R), g[x] = g[y]  PROVE x = y
    <3>1. x = <<x[1], 1>> /\ y = <<y[1], 1>>
      BY <1>1
    <3>2. x[1] = y[1]
      BY <2>1
    <3>3. QED  BY <3>1, <3>2
  <2>2. QED  BY <1>1, <2>1
<1> HIDE DEF g, R
<1>5. Total(BoundedTokensOf(R)) <= Total(Dues)
  BY <1>1, <1>2, <1>3, <1>4, TotalInjective
<1>6. QED  BY <1>5 DEF R

\* While new reservations are admitted, everything that is due is either in a row
\* or pending, so that the admission sees it.
LEMMA DuesSeen ==
    ASSUME LocalInv, \A r \in Reservations : Outbox(r), up = "up"
    PROVE  /\ DeliveredTokens \in Nat /\ PendingTokens \in Nat
           /\ Total(Dues) <= DeliveredTokens + PendingTokens
<1> DEFINE A == {r \in Reservations \ overridden : ledger[r] # <<>>}
           FA == [r \in A |-> Due(r)]
           P == [r \in PendingIds |-> pending[r].upper]
           g == [r \in A |-> <<r, 1>>]
<1>1. /\ \A r \in Reservations : ledger[r] # <<>> => <<r, 1>> \in Rows(Reservations)
      /\ IsFiniteSet(Rows(Reservations))
      /\ TokensOf(Reservations) \in [Rows(Reservations) -> Nat]
  BY TokensType
<1>2. IsFiniteSet(A) /\ FA \in [A -> Nat]
  <2>1. IsFiniteSet(A)
    BY FidelityAssumption, FS_Subset
  <2>2. QED  BY <2>1, DueType
<1>3. IsFiniteSet(PendingIds) /\ P \in [PendingIds -> Nat]
  <2>1. IsFiniteSet(PendingIds)
    BY FidelityAssumption, FS_Subset DEF PendingIds
  <2>2. ASSUME NEW r \in PendingIds  PROVE pending[r].upper \in Nat
    BY DEF PendingIds, LocalInv, TypeOK, Pending
  <2>3. QED  BY <2>1, <2>2
<1>4. Total(FA) <= DeliveredTokens
  <2>1. g \in [A -> Rows(Reservations)] /\ \A x, y \in A : g[x] = g[y] => x = y
    BY <1>1
  <2>2. ASSUME NEW r \in A  PROVE FA[r] <= TokensOf(Reservations)[g[r]]
    <3>1. FA[r] <= ledger[r][1] /\ ledger[r][1] \in Nat
      BY DueType DEF Due, Lesser, LocalInv, TypeOK
    <3>2. g[r] = <<r, 1>> /\ <<r, 1>> \in Rows(Reservations)
      BY <1>1
    <3>3. TokensOf(Reservations)[<<r, 1>>] = ledger[r][1]
      BY <3>2 DEF TokensOf
    <3>4. QED  BY <3>1, <3>2, <3>3
  <2> HIDE DEF A, FA, g
  <2>3. QED  BY <1>1, <1>2, <2>1, <2>2, TotalInjective DEF DeliveredTokens
<1>5. Units(Dues) \subseteq Units(FA) \cup Units(P)
  <2> SUFFICES ASSUME NEW u \in Units(Dues)  PROVE u \in Units(FA) \cup Units(P)
    OBVIOUS
  <2>1. PICK r \in Reservations \ overridden, i \in Nat : i \in 1..Due(r) /\ u = <<r, i>>
    BY UnitsIn DEF Dues
  <2>2. CASE ledger[r] # <<>>
    <3>1. r \in A /\ FA[r] = Due(r) /\ DOMAIN FA = A
      BY <2>2
    <3>2. QED  BY <2>1, <3>1, UnitsIn
  <2>3. CASE ledger[r] = <<>>
    <3>1. r \in PendingIds /\ Due(r) <= pending[r].upper
      <4>1. Local(r) /\ Outbox(r)
        BY DEF LocalInv
      <4>2. file[r].tokens \in Nat /\ pending[r].upper \in Nat /\ handler[r] \in Stages
        BY DEF LocalInv, TypeOK, DurableRecord, Pending
      <4>3. CASE file[r].state = "Executed"
        <5>1. IsPending(r) /\ bound[r] = pending[r].upper
          BY <2>3, <4>1, <4>3 DEF Outbox, Local, IsPending
        <5>2. Due(r) = Lesser(file[r].tokens, bound[r])
          BY <2>3, <4>3 DEF Due
        <5>3. QED  BY <4>2, <5>1, <5>2 DEF Lesser, PendingIds
      <4>4. CASE file[r].state # "Executed" /\ handler[r] \notin {"idle", "gone"}
        <5>1. IsPending(r)
          BY <2>3, <4>1, <4>2, <4>4 DEF Local, Stages, IsPending
        <5>2. QED  BY <2>3, <4>2, <4>4, <5>1 DEF Due, PendingIds
      <4>5. CASE file[r].state # "Executed" /\ handler[r] \in {"idle", "gone"}
        <5>1. Due(r) = 0
          BY <2>3, <4>5 DEF Due
        <5>2. QED  BY <2>1, <5>1
      <4>6. QED  BY <4>3, <4>4, <4>5
    <3>2. r \in DOMAIN P /\ P[r] = pending[r].upper
      BY <3>1
    <3>3. i \in 1..P[r]
      <4>1. Due(r) \in Nat /\ pending[r].upper \in Nat
        BY DueType DEF LocalInv, TypeOK, Pending
      <4>2. QED  BY <2>1, <3>1, <3>2, <4>1
    <3> HIDE DEF P
    <3>4. QED  BY <2>1, <3>2, <3>3, UnitsIn
  <2>4. QED  BY <2>2, <2>3
<1>6. IsFiniteSet(Units(FA)) /\ Total(FA) \in Nat
  <2> HIDE DEF A, FA
  <2>1. QED  BY <1>2, UnitsFinite
<1>7. IsFiniteSet(Units(P)) /\ Total(P) \in Nat
  <2> HIDE DEF P
  <2>1. QED  BY <1>3, UnitsFinite
<1>8. DeliveredTokens \in Nat /\ PendingTokens = Total(P)
  BY <1>1, UnitsFinite DEF DeliveredTokens, PendingTokens
<1>9. Total(Dues) <= Total(FA) + Total(P)
  <2> HIDE DEF FA, P
  <2>1. QED  BY <1>5, <1>6, <1>7, TotalOfTwo DEF Total
<1>10. Total(Dues) \in Nat
  BY DuesType
<1> HIDE DEF FA, P
<1>11. QED  BY <1>4, <1>6, <1>7, <1>8, <1>9, <1>10

\* Every step but an admission: nothing more becomes due for any reservation.
Spends ==
    /\ overridden' = overridden
    /\ \A q \in Reservations : Due(q)' <= Due(q) /\ Outbox(q)'

\* A step that concerns reservation r alone.
LEMMA DueFrame ==
    ASSUME NEW r \in Reservations, LocalInv, Elsewhere(r), up' = up,
           \A q \in Reservations : Outbox(q)
    PROVE  \A q \in Reservations \ {r} : Due(q)' = Due(q) /\ Outbox(q)'
<1> SUFFICES ASSUME NEW q \in Reservations \ {r}  PROVE Due(q)' = Due(q) /\ Outbox(q)'
  OBVIOUS
<1>1. Due(q)' = Due(q)
  BY DEF Due, Elsewhere
<1>2. Outbox(q)'
  BY DEF Outbox, Elsewhere
<1>3. QED  BY <1>1, <1>2

LEMMA SpendFrame ==
    ASSUME NEW r \in Reservations, LocalInv, Elsewhere(r), up' = up,
           \A q \in Reservations : Outbox(q), overridden' = overridden,
           Due(r)' <= Due(r), Outbox(r)'
    PROVE  Spends
<1>1. \A q \in Reservations : Due(q) \in Nat
  BY DueType
<1>2. \A q \in Reservations \ {r} : Due(q)' = Due(q) /\ Outbox(q)'
  BY DueFrame
<1>3. QED  BY <1>1, <1>2 DEF Spends

LEMMA ActorSpends ==
    ASSUME LocalInv, LocalInv', \A q \in Reservations : Outbox(q),
           NEW r \in Reservations, NEW f, NEW tokens,
           NEW resolution \in {"AcknowledgeExecuted", "ProveNotExecuted"},
           \/ Begin(r, f) \/ Cancel(r, f) \/ RecoverPreSpawn(r, f)
           \/ Complete(r, tokens, f) \/ CompleteRefused(r) \/ Reconcile(r, resolution, f)
           \/ Start(r) \/ StartFails(r) \/ Finish(r) \/ Abandon(r)
    PROVE  Spends
<1>1. Elsewhere(r) /\ up' = up /\ overridden' = overridden /\ bound' = bound
  BY ActorElsewhere DEF LocalInv
<1>2. Local(r) /\ Local(r)' /\ Outbox(r)
  BY DEF LocalInv
<1>3. Due(r) \in Nat
  BY DueType
<1>4. /\ file[r].tokens \in Nat /\ pending[r].upper \in Nat /\ bound[r] \in Nat
      /\ r \in DOMAIN file /\ r \in DOMAIN pending /\ r \in DOMAIN ledger
      /\ r \in DOMAIN handler
  BY DEF LocalInv, TypeOK, DurableRecord, Pending
<1>5. Due(r)' <= Due(r) /\ Outbox(r)'
  <2>1. CASE Begin(r, f)
    <3>1. ledger' = ledger /\ pending'[r].upper = pending[r].upper
      BY <1>4, <2>1 DEF Begin, LocalInv, TypeOK, Pending
    <3>2. file[r].state # "Executed" /\ file'[r].state # "Executed"
      BY <1>2, <1>4, <2>1 DEF Begin, Outbox
    <3>3. handler[r] \notin {"idle", "gone"}
      BY <2>1 DEF Begin
    <3>4. QED  BY <1>1, <1>3, <1>4, <3>1, <3>2, <3>3 DEF Due, Outbox
  <2>2. CASE Cancel(r, f) \/ RecoverPreSpawn(r, f)
    <3>1. ledger' = ledger /\ handler'[r] = "gone"
      BY <1>4, <2>2 DEF Cancel, RecoverPreSpawn, CancelFidelity, Advance
    <3>2. file[r].state # "Executed" /\ file'[r].state # "Executed"
      BY <1>2, <1>4, <2>2 DEF Cancel, RecoverPreSpawn, CancelFidelity, Outbox, NoFile
    <3>3. QED  BY <1>1, <1>3, <3>1, <3>2 DEF Due, Outbox
  <2>3. CASE Complete(r, tokens, f)
    <3>1. /\ handler[r] = "finished" /\ handler'[r] = "gone"
          /\ tokens \in Nat
          /\ pending[r].state = "Executing" /\ pending[r].upper = bound[r]
      BY <1>2, <1>4, <2>3, FidelityAssumption DEF Complete, Advance, Local
    <3>2. file[r].state # "Executed"
      BY <1>2, <3>1 DEF Outbox
    <3>3. CASE ledger[r] # <<>>
      <4>1. ledger'[r] = ledger[r]
        BY <1>4, <2>3, <3>3 DEF Complete, Record
      <4>2. QED  BY <1>1, <1>3, <3>1, <3>3, <4>1 DEF Due, Outbox
    <3>4. CASE ledger[r] = <<>>
      <4>1. Due(r) = pending[r].upper
        BY <3>1, <3>2, <3>4 DEF Due
      <4>2. CASE f \in {"none", "remove", "remove_sync"}
        <5>1. ledger'[r] = <<tokens>>
          BY <1>4, <2>3, <3>4, <4>2 DEF Complete, Record
        <5>2. Due(r)' = Lesser(tokens, bound[r])
          BY <1>1, <5>1 DEF Due
        <5>3. QED  BY <1>4, <3>1, <4>1, <5>1, <5>2 DEF Outbox, Lesser
      <4>3. CASE f \in {"persist_sync", "ledger"}
        <5>1. /\ ledger'[r] = <<>> /\ pending'[r] = pending[r]
              /\ file'[r] = [state |-> "Executed", tokens |-> tokens]
          BY <1>4, <2>3, <3>4, <4>3 DEF Complete
        <5>2. Due(r)' = Lesser(tokens, bound[r])
          BY <1>1, <5>1 DEF Due
        <5>3. QED  BY <1>4, <3>1, <4>1, <5>1, <5>2 DEF Outbox, Lesser
      <4>4. CASE f = "persist"
        <5>1. ledger'[r] = <<>> /\ file'[r] = file[r]
          BY <1>4, <2>3, <3>4, <4>4 DEF Complete
        <5>2. Due(r)' = 0
          BY <3>1, <3>2, <5>1 DEF Due
        <5>3. QED  BY <1>3, <3>2, <5>1, <5>2 DEF Outbox
      <4>5. QED  BY <2>3, <4>2, <4>3, <4>4 DEF Complete, Meets
    <3>5. QED  BY <3>3, <3>4
  <2>4. CASE CompleteRefused(r)
    BY <1>1, <1>2, <1>3, <1>4, <2>4 DEF CompleteRefused, Advance, durable, Due, Outbox
  <2>5. CASE Reconcile(r, resolution, f)
    <3>1. handler' = handler /\ up' = up /\ (file'[r] = file[r] \/ file'[r] = NoFile)
      BY <1>4, <2>5 DEF Reconcile
    <3>2. CASE ledger[r] # <<>>
      <4>1. ledger'[r] = ledger[r]
        BY <1>4, <2>5, <3>2 DEF Reconcile, Record
      <4>2. file'[r].state = "Executed" => file[r].state = "Executed"
        BY <3>1 DEF NoFile
      <4>3. QED  BY <1>1, <1>2, <1>3, <3>1, <3>2, <4>1, <4>2 DEF Due, Outbox
    <3>3. CASE ledger[r] = <<>> /\ ledger'[r] # <<>>
      <4>1. ledger'[r] = <<0>>
        BY <1>4, <2>5, <3>3 DEF Reconcile, Record
      <4>2. Due(r)' = 0
        BY <1>1, <1>4, <4>1 DEF Due, Lesser
      <4>3. file'[r].state = "Executed" => file[r].state = "Executed"
        BY <3>1 DEF NoFile
      <4>4. QED  BY <1>2, <1>3, <3>1, <3>3, <4>2, <4>3 DEF Outbox
    <3>4. CASE ledger[r] = <<>> /\ ledger'[r] = <<>> /\ file[r].state = "Executed"
      <4>1. resolution = "AcknowledgeExecuted"
        BY <1>2, <2>5, <3>4 DEF Reconcile, OperatorMay, Local
      <4>2. f = "ledger"
        BY <1>4, <2>5, <3>4, <4>1 DEF Reconcile, Record
      <4>3. file' = file /\ pending' = pending
        BY <2>5, <4>2 DEF Reconcile
      <4>4. QED  BY <1>1, <1>2, <1>3, <3>1, <3>4, <4>3 DEF Due, Outbox
    <3>5. CASE ledger[r] = <<>> /\ ledger'[r] = <<>> /\ file[r].state # "Executed"
      <4>1. file'[r].state # "Executed"
        BY <3>1, <3>5 DEF NoFile
      <4>2. pending'[r].upper <= pending[r].upper
        BY <1>4, <2>5 DEF Reconcile, NotPending
      <4>3. QED  BY <1>3, <3>1, <3>5, <4>1, <4>2 DEF Due, Outbox
    <3>6. QED  BY <3>2, <3>3, <3>4, <3>5
  <2>6. CASE Start(r) \/ StartFails(r) \/ Finish(r) \/ Abandon(r)
    BY <1>1, <1>2, <1>3, <1>4, <2>6
       DEF Start, StartFails, Finish, Abandon, Advance, durable, Due, Outbox
  <2>7. QED  BY <2>1, <2>2, <2>3, <2>4, <2>5, <2>6
<1>6. QED  BY <1>1, <1>5, SpendFrame

LEMMA RestartSpends ==
    ASSUME LocalInv, LocalInv', \A q \in Reservations : Outbox(q), Restart
    PROVE  Spends
<1>0. ASSUME NEW q \in Reservations
      PROVE  /\ Local(q) /\ Outbox(q) /\ Due(q) \in Nat
             /\ file[q].tokens \in Nat /\ pending[q].upper \in Nat
             /\ handler[q] \in Stages /\ bound[q] \in Nat
  BY DueType DEF LocalInv, TypeOK, DurableRecord, Pending
<1>1. CASE Stop
  <2>1. /\ overridden' = overridden /\ bound' = bound /\ up' = "down"
        /\ file' = file /\ ledger' = ledger
    BY <1>1 DEF Stop, durable
  <2>2. ASSUME NEW q \in Reservations  PROVE Due(q)' <= Due(q) /\ Outbox(q)'
    <3>1. handler'[q] \in {"idle", "gone"} /\ (handler[q] = "gone" => handler'[q] = "gone")
      BY <1>1 DEF Stop
    <3>2. QED  BY <1>0, <2>1, <3>1 DEF Due, Outbox
  <2>3. QED  BY <2>1, <2>2 DEF Spends
<1>2. ASSUME NEW old \in SUBSET Reservations, NEW bad \in SUBSET Reservations,
             NEW f, Boot(old, bad, f)
      PROVE  Spends
  <2>1. /\ overridden' = overridden /\ bound' = bound
        /\ handler' = handler /\ up = "down"
    BY <1>2 DEF Boot
  <2>2. ASSUME NEW q \in Reservations  PROVE Due(q)' <= Due(q) /\ Outbox(q)'
    <3>1. handler[q] \in {"idle", "gone"}
      BY <1>0, <2>1 DEF Local, Serving
    <3>2. file'[q] = file[q] \/ file'[q] = NoFile
      BY <1>2 DEF Boot
    <3>3. file'[q].state = "Executed" => file'[q] = file[q]
      BY <3>2 DEF NoFile
    <3>4. ledger'[q] = ledger[q] \/ (OwesRow(q) /\ ledger'[q] = Record(ledger[q], RowTokens(q)))
      BY <1>2 DEF Boot
    <3>5. Due(q)' <= Due(q)
      <4>1. CASE ledger[q] # <<>>
        <5>1. ledger'[q] = ledger[q]
          BY <3>4, <4>1 DEF Record
        <5>2. QED  BY <1>0, <2>1, <4>1, <5>1 DEF Due
      <4>2. CASE ledger[q] = <<>> /\ ledger'[q] = <<>>
        BY <1>0, <2>1, <3>1, <3>3, <4>2 DEF Due
      <4>3. CASE ledger[q] = <<>> /\ ledger'[q] # <<>>
        <5>1. ledger'[q] = <<RowTokens(q)>>
          BY <3>4, <4>3 DEF Record
        <5>2. Due(q)' = Lesser(RowTokens(q), bound[q])
          BY <2>1, <5>1 DEF Due
        <5>3. Lesser(RowTokens(q), bound[q]) \in {Due(q), 0}
          BY <1>0, <4>3 DEF RowTokens, Due, Lesser
        <5>4. QED  BY <1>0, <5>2, <5>3
      <4>4. QED  BY <4>1, <4>2, <4>3
    <3>6. Outbox(q)'
      <4> SUFFICES ASSUME file'[q].state = "Executed"
                   PROVE  handler'[q] = "gone" /\ ~(up' = "up" /\ ledger'[q] = <<>>)
        BY DEF Outbox
      <4>1. file[q].state = "Executed"
        BY <3>3
      <4>2. ASSUME up' = "up"  PROVE FALSE
        <5>1. bad = {} /\ f = "none"
          BY <1>2, <4>2 DEF Boot, Blocks
        <5>2. file'[q] = NoFile
          BY <1>2, <4>1, <5>1 DEF Boot, Settled
        <5>3. QED  BY <5>2 DEF NoFile
      <4>3. QED  BY <1>0, <2>1, <4>1, <4>2 DEF Outbox
    <3>7. QED  BY <3>5, <3>6
  <2>3. QED  BY <2>1, <2>2 DEF Spends
<1>3. QED  BY <1>1, <1>2 DEF Restart

\* An admission: a human's approval takes the reservation out of the allowance;
\* otherwise what becomes due is the upper bound that fits.
LEMMA ReserveTokens ==
    ASSUME TokensInv, LocalInv', NEW r \in Reservations, NEW upper, NEW override \in BOOLEAN,
           NEW f, Reserve(r, upper, override, f)
    PROVE  TokensInv'
<1> USE DEF TokensInv
<1>1. Elsewhere(r) /\ up' = up /\ up = "up" /\ ledger' = ledger /\ handler[r] = "idle"
  BY DEF Reserve, Elsewhere, Advance, LocalInv, TypeOK
<1>2. Local(r) /\ r \in DOMAIN file /\ r \in DOMAIN pending /\ r \in DOMAIN handler
  BY DEF LocalInv, TypeOK
<1>3. ledger[r] = <<>> /\ file[r].state = "None" /\ r \notin overridden
  BY <1>1, <1>2 DEF Local, NoFile
<1>4. file'[r].state # "Executed"
  BY <1>2, <1>3 DEF Reserve
<1>5. \A q \in Reservations \ {r} : Due(q)' = Due(q) /\ Outbox(q)'
  BY <1>1, DueFrame
<1>6. \A q \in Reservations : Outbox(q)'
  BY <1>4, <1>5 DEF Outbox
<1>7. /\ IsFiniteSet(Reservations \ overridden) /\ Total(Dues) \in Nat
      /\ Dues \in [Reservations \ overridden -> Nat]
  BY DuesType
<1>8. upper \in Nat /\ MaxTokens \in Nat
  <2>1. Sizes \subseteq Nat /\ MaxTokens \in Nat
    BY FidelityAssumption
  <2>2. CASE override  BY <2>1, <2>2 DEF Reserve
  <2>3. CASE ~override  BY <2>1, <2>3 DEF Reserve
  <2>4. QED  BY <2>1, <2>2, <2>3
<1>9. Due(r)' \in Nat /\ Due(r)' <= upper
  <2>1. handler'[r] = IF f = "none" THEN "reserved" ELSE "gone"
    BY <1>2 DEF Reserve, Advance
  <2>2. f = "none" => pending'[r].upper = upper
    BY <1>2 DEF Reserve
  <2>3. QED  BY <1>1, <1>3, <1>4, <1>8, <2>1, <2>2 DEF Due
<1>10. \A q \in Reservations : Due(q) \in Nat /\ Due(q)' \in Nat
  BY <1>5, <1>9, DueType
<1>11. Dues' = [q \in Reservations \ overridden' |-> Due(q)']
  BY DEF Dues
<1>12. Dues' \in [Reservations \ overridden' -> Nat]
  BY <1>10, <1>11
<1>13. CASE override
  <2>1. overridden' = overridden \cup {r}
    BY <1>13 DEF Reserve
  <2>2. \A q \in Reservations \ overridden' : Dues'[q] <= Dues[q]
    BY <1>5, <1>10, <1>11, <2>1 DEF Dues
  <2>3. Total(Dues') <= Total(Dues)
    BY <1>7, <1>12, <2>1, <2>2, TotalGrows
  <2>4. Total(Dues') \in Nat
    BY <1>7, <1>12, <2>1, FS_Subset, UnitsFinite
  <2>5. Total(Dues') <= MaxTokens
    BY <1>7, <1>8, <2>3, <2>4
  <2>6. QED  BY <1>6, <2>5 DEF Total
<1>14. CASE ~override
  <2>1. overridden' = overridden /\ Fits(upper)
    BY <1>14 DEF Reserve
  <2>2. \A q \in Reservations \ overridden : q # r => Dues'[q] <= Dues[q]
    BY <1>5, <1>10, <1>11, <2>1 DEF Dues
  <2>3. r \in Reservations \ overridden /\ Dues'[r] <= upper
    BY <1>3, <1>9, <1>11, <2>1
  <2>4. Total(Dues') <= Total(Dues) + upper
    BY <1>7, <1>8, <1>12, <2>1, <2>2, <2>3, TotalAdds
  <2>5. Total(Dues') \in Nat
    BY <1>7, <1>12, <2>1, UnitsFinite
  <2>6. /\ DeliveredTokens \in Nat /\ PendingTokens \in Nat
        /\ Total(Dues) <= DeliveredTokens + PendingTokens
    BY <1>1, DuesSeen
  <2>7. upper = 0 \/ DeliveredTokens + PendingTokens + upper <= MaxTokens
    BY <1>8, <2>1, <2>6 DEF Fits, Saturating
  <2>8. Total(Dues') <= MaxTokens
    BY <1>7, <1>8, <2>4, <2>5, <2>6, <2>7
  <2>9. QED  BY <1>6, <2>8 DEF Total
<1>15. QED  BY <1>13, <1>14

LEMMA SpendsTokens ==
    ASSUME TokensInv, LocalInv', Spends
    PROVE  TokensInv'
<1>1. overridden' = overridden /\ \A q \in Reservations : Due(q)' <= Due(q)
  BY DEF Spends
<1>2. /\ IsFiniteSet(Reservations \ overridden) /\ Total(Dues) \in Nat
      /\ Dues \in [Reservations \ overridden -> Nat]
  BY DuesType DEF TokensInv
<1>3. \A q \in Reservations : Due(q)' \in Nat
  <2> SUFFICES ASSUME NEW q \in Reservations  PROVE Due(q)' \in Nat
    OBVIOUS
  <2>1. /\ ledger'[q] \in Seq(Nat) /\ file'[q].tokens \in Nat
        /\ pending'[q].upper \in Nat /\ bound'[q] \in Nat
    BY DEF LocalInv, TypeOK, DurableRecord, Pending
  <2>2. ledger'[q] # <<>> => ledger'[q][1] \in Nat
    BY <2>1
  <2>3. QED  BY <2>1, <2>2 DEF Due, Lesser
<1>4. Dues' = [q \in Reservations \ overridden |-> Due(q)']
  BY <1>1 DEF Dues
<1>5. Dues' \in [Reservations \ overridden -> Nat]
  BY <1>3, <1>4
<1>6. \A q \in Reservations \ overridden : Dues'[q] <= Dues[q]
  BY <1>1, <1>4 DEF Dues
<1>7. Total(Dues') <= Total(Dues) /\ Total(Dues') \in Nat
  BY <1>2, <1>5, <1>6, TotalGrows, UnitsFinite
<1>8. Total(Dues') <= MaxTokens
  BY <1>2, <1>7, FidelityAssumption DEF TokensInv
<1>9. QED  BY <1>8 DEF TokensInv, Spends, Total

LEMMA InitTokens == Init => TokensInv
<1> SUFFICES ASSUME Init  PROVE TokensInv
  OBVIOUS
<1>1. LocalInv
  BY InitLocal
<1>2. \A r \in Reservations : Due(r) = 0 /\ Outbox(r)
  BY DEF Init, Due, Outbox, NoFile
<1>3. Units(Dues) = {}
  <2> SUFFICES ASSUME NEW u \in Units(Dues)  PROVE FALSE
    OBVIOUS
  <2>1. PICK r \in Reservations : \E i \in 1..Due(r) : u = <<r, i>>
    BY UnitsIn DEF Dues
  <2>2. QED  BY <1>2, <2>1
<1>4. Total(Dues) = 0
  BY <1>3, FS_EmptySet DEF Total
<1>5. QED  BY <1>1, <1>2, <1>4, FidelityAssumption DEF TokensInv

LEMMA NextTokens == TokensInv /\ [Next]_vars => TokensInv'
<1> SUFFICES ASSUME TokensInv, [Next]_vars  PROVE TokensInv'
  OBVIOUS
<1>1. LocalInv /\ LocalInv' /\ \A q \in Reservations : Outbox(q)
  BY NextLocal DEF TokensInv
<1>2. ASSUME NEW r \in Reservations, NEW f, NEW upper, NEW override \in BOOLEAN,
             Reserve(r, upper, override, f)
      PROVE  TokensInv'
  BY <1>1, <1>2, ReserveTokens
<1>3. ASSUME NEW r \in Reservations, NEW f, NEW tokens,
             NEW resolution \in {"AcknowledgeExecuted", "ProveNotExecuted"},
             \/ Begin(r, f) \/ Cancel(r, f) \/ RecoverPreSpawn(r, f)
             \/ Complete(r, tokens, f) \/ CompleteRefused(r) \/ Reconcile(r, resolution, f)
             \/ Start(r) \/ StartFails(r) \/ Finish(r) \/ Abandon(r)
      PROVE  TokensInv'
  BY <1>1, <1>3, ActorSpends, SpendsTokens
<1>4. CASE Restart
  BY <1>1, <1>4, RestartSpends, SpendsTokens
<1>5. ASSUME NEW r \in Reservations, Handle(r)  PROVE TokensInv'
  <2>1. CASE \E f \in Outcomes : \/ \E upper \in Sizes : Reserve(r, upper, FALSE, f)
                                 \/ Reserve(r, MaxTokens, TRUE, f)
    BY <1>2, <2>1
  <2>2. CASE ~\E f \in Outcomes : \/ \E upper \in Sizes : Reserve(r, upper, FALSE, f)
                                  \/ Reserve(r, MaxTokens, TRUE, f)
    BY <1>3, <1>5, <2>2 DEF Handle
  <2>3. QED  BY <2>1, <2>2
<1>6. ASSUME NEW r \in Reservations, Resolve(r)  PROVE TokensInv'
  BY <1>3, <1>6 DEF Resolve
<1>7. CASE UNCHANGED vars
  <2>1. \A q \in Reservations : Due(q)' = Due(q) /\ Outbox(q)'
    BY <1>1, <1>7 DEF vars, Due, Outbox
  <2>2. Spends
    BY <1>1, <1>7, <2>1, DueType DEF vars, Spends
  <2>3. QED  BY <1>1, <2>2, SpendsTokens
<1>8. QED  BY <1>4, <1>5, <1>6, <1>7 DEF Next

\* No order of requests, failures, crashes and restarts records more tokens of
\* unapproved commands than the session's allowance, but for what an output
\* exceeded its own bound by; even when durable records become unreadable: what
\* is set aside gets no row.
THEOREM TokensKept == Spec => []TokensWithinAllowance
<1>1. TokensInv => TokensWithinAllowance
  <2> SUFFICES ASSUME TokensInv  PROVE TokensWithinAllowance
    OBVIOUS
  <2>1. Total(BoundedTokensOf(Reservations \ overridden)) <= Total(Dues) /\ Total(Dues) \in Nat
    BY RowsWithinDues, DuesType DEF TokensInv
  <2>2. Total(BoundedTokensOf(Reservations \ overridden)) \in Nat
    BY TokensType, UnitsFinite DEF TokensInv
  <2>3. QED  BY <2>1, <2>2, FidelityAssumption DEF TokensInv, TokensWithinAllowance
<1>2. QED  BY InitTokens, NextTokens, <1>1, PTL DEF Spec

=============================================================================
