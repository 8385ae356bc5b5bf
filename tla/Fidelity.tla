------------------------------ MODULE Fidelity ------------------------------
(***************************************************************************)
(* The fidelity reservations of one session: raw commands whose exact      *)
(* output is allowed only within a per-session allowance                   *)
(* (crates/hzr-daemon/src/ledger_writer.rs, and the handlers that use it,  *)
(* execute_command and exec_approval of api.rs).                           *)
(*                                                                         *)
(* Before a command runs, the ledger actor reserves its share: a durable   *)
(* record Reserved, then Executing at the execution boundary, then         *)
(* Executed with the measured operation, then a row of the commands table  *)
(* and no record.  The actor is one thread: it serves one request at a     *)
(* time, while request handlers, the commands they run, the operator who   *)
(* reconciles what a crash left unknown, and restarts interleave.          *)
(***************************************************************************)
EXTENDS Integers, Sequences, FiniteSets

CONSTANTS
    Reservations,   \* reservation ids (each is used by one request)
    MaxOperations,  \* FidelityAllowance.max_operations
    MaxTokens,      \* FidelityAllowance.max_delivered_tokens
    Sizes,          \* the bounds and output sizes, in tokens, commands can have
    Faults,         \* the kinds of failure that can happen
    MaxFaults       \* bound: how many of them, in all

\* The failures the code meets.  A durable record cannot be written; it is
\* renamed into place but the directory cannot be synchronised, which the
\* caller sees as a failure; the INSERT fails; a record cannot be removed; it is
\* removed but the directory cannot be synchronised; a record cannot be read or
\* parsed when the daemon starts; it cannot be set aside then either.
FaultKinds == {"persist", "persist_sync", "ledger", "remove", "remove_sync",
               "unreadable", "unmovable"}

ASSUME FidelityAssumption ==
    /\ IsFiniteSet(Reservations)
    /\ MaxOperations \in Nat /\ MaxTokens \in Nat
    /\ Sizes \subseteq Nat
    /\ Faults \subseteq FaultKinds
    /\ MaxFaults \in Nat

\* DurableFidelityRecord.  `tokens` is the upper bound of the output, and in
\* Executed the measured output.
DurableRecord == [state: {"None", "Reserved", "Executing", "Executed"}, tokens: Nat]
NoFile == [state |-> "None", tokens |-> 0]

\* PendingFidelity
Pending == [state: {"None", "Reserved", "Executing"}, upper: Nat]
NotPending == [state |-> "None", upper |-> 0]

\* Where the request that owns a reservation is.
Stages == {"idle", "reserved", "boundary_failed", "begun", "not_spawned",
           "running", "finished", "gone"}

VARIABLES
    \* Durable state
    file,       \* fidelity-pending/<id>.json
    quarantine, \* ids with a <id>.json.corrupt
    receipt,    \* fidelity-pending/<id>.receipt
    ledger,     \* for each id, the tokens of its rows in the commands table
    \* The daemon
    up,         \* "down", "up", or "blocked": up with integrity issues
    pending,    \* pending_fidelity
    handler,    \* the stage of each request
    \* History
    overridden, \* reservations made for a command a human approved
    bound,      \* the upper bound each reservation was made with
    started,    \* reservations whose command was started
    faults      \* how many failures happened

durable == <<file, quarantine, receipt, ledger>>
vars == <<file, quarantine, receipt, ledger, up, pending, handler, overridden,
          bound, started, faults>>

TypeOK ==
    /\ file \in [Reservations -> DurableRecord]
    /\ quarantine \subseteq Reservations
    /\ receipt \in [Reservations -> {"None", "AcknowledgeExecuted", "ProveNotExecuted"}]
    /\ ledger \in [Reservations -> Seq(Nat)]
    /\ up \in {"down", "up", "blocked"}
    /\ pending \in [Reservations -> Pending]
    /\ handler \in [Reservations -> Stages]
    /\ overridden \subseteq Reservations /\ started \subseteq Reservations
    /\ bound \in [Reservations -> Nat]
    /\ faults \in Nat

Init ==
    /\ file = [r \in Reservations |-> NoFile]
    /\ quarantine = {}
    /\ receipt = [r \in Reservations |-> "None"]
    /\ ledger = [r \in Reservations |-> <<>>]
    /\ up = "up"
    /\ pending = [r \in Reservations |-> NotPending]
    /\ handler = [r \in Reservations |-> "idle"]
    /\ overridden = {} /\ started = {}
    /\ bound = [r \in Reservations |-> 0]
    /\ faults = 0

-----------------------------------------------------------------------------
(* Failures, the ledger, and the durable records *)

\* The step meets failure f, one of those it can meet, or none.
Meets(f, possible) ==
    \/ f = "none" /\ UNCHANGED faults
    \/ f \in possible \cap Faults /\ faults < MaxFaults /\ faults' = faults + 1

\* record_privacy_safe_fidelity_operation: INSERT OR IGNORE, where
\* fidelity_reservation_id is unique.
Record(rows, tokens) == IF rows = <<>> THEN <<tokens>> ELSE rows

Recorded == {r \in Reservations : ledger[r] # <<>>}
IsPending(r) == pending[r].state # "None"
PendingIds == {r \in Reservations : IsPending(r)}

\* The sum of a function's values: the units they stand for are counted.
Units(F) == UNION {{x} \X (1..F[x]) : x \in DOMAIN F}
Total(F) == Cardinality(Units(F))

\* The rows of the reservations R, and the tokens of each.
Rows(R) == UNION {{r} \X DOMAIN ledger[r] : r \in R}
TokensOf(R) == [row \in Rows(R) |-> ledger[row[1]][row[2]]]

\* fidelity_session_usage: COUNT and SUM over the rows of the session.
Operations == Cardinality(Rows(Reservations))
DeliveredTokens == Total(TokensOf(Reservations))
PendingTokens == Total([r \in PendingIds |-> pending[r].upper])

\* remaining.saturating_sub(used)
Saturating(x, y) == IF x >= y THEN x - y ELSE 0

Advance(r, stage) == handler' = [handler EXCEPT ![r] = stage]
Serving == up # "down"

-----------------------------------------------------------------------------
(* The requests of the ledger actor *)

\* Mutant: the reservations that are still pending are not counted.
FitsLedgerOnly(upper) ==
    /\ Saturating(MaxOperations, Operations) > 0
    /\ upper <= Saturating(MaxTokens, DeliveredTokens)

Fits(upper) ==
    /\ Saturating(MaxOperations, Operations) > Cardinality(PendingIds)
    /\ upper <= Saturating(Saturating(MaxTokens, DeliveredTokens), PendingTokens)

\* ReserveFidelity.  A request that does not fit, or meets a blocked writer, is
\* refused without a trace and its command is not run.  A human's approval
\* overrides the budget and reserves the whole token allowance.
Reserve(r, upper, override, f) ==
    /\ handler[r] = "idle"
    /\ up = "up"
    /\ IF override THEN upper = MaxTokens ELSE upper \in Sizes /\ Fits(upper)
    /\ Meets(f, {"persist", "persist_sync"})
    /\ file' = IF f = "persist" THEN file
               ELSE [file EXCEPT ![r] = [state |-> "Reserved", tokens |-> upper]]
    /\ pending' = IF f # "none" THEN pending
                  ELSE [pending EXCEPT ![r] = [state |-> "Reserved", upper |-> upper]]
    /\ overridden' = IF override THEN overridden \cup {r} ELSE overridden
    /\ bound' = [bound EXCEPT ![r] = upper]
    /\ Advance(r, IF f = "none" THEN "reserved" ELSE "gone")
    /\ UNCHANGED <<quarantine, receipt, ledger, up, started>>

\* BeginFidelity, the execution boundary.  If it fails the handler cancels.
Begin(r, f) ==
    /\ handler[r] = "reserved" /\ Serving /\ IsPending(r)
    /\ Meets(f, {"persist", "persist_sync"})
    /\ file' = IF f = "persist" THEN file ELSE [file EXCEPT ![r] =
                   [state |-> "Executing", tokens |-> pending[r].upper]]
    /\ pending' = IF f # "none" THEN pending ELSE [pending EXCEPT ![r].state = "Executing"]
    /\ Advance(r, IF f = "none" THEN "begun" ELSE "boundary_failed")
    /\ UNCHANGED <<quarantine, receipt, ledger, up, overridden, bound, started>>

\* CancelFidelity: the record is removed, and if that succeeded the share is
\* given back.
CancelFidelity(r, f) ==
    /\ Meets(f, {"remove", "remove_sync"})
    /\ f # "none" => file[r] # NoFile
    /\ file' = IF f = "remove" THEN file ELSE [file EXCEPT ![r] = NoFile]
    /\ pending' = IF f # "none" THEN pending ELSE [pending EXCEPT ![r] = NotPending]
    /\ Advance(r, "gone")
    /\ UNCHANGED <<quarantine, receipt, ledger, up, overridden, bound, started>>

\* cancel_fidelity: the policy asks, denies or fails, the job was cancelled, or
\* the execution boundary could not be made durable.  It is refused once the
\* execution may have begun.
Cancel(r, f) ==
    /\ handler[r] \in {"reserved", "boundary_failed"} /\ Serving
    /\ pending[r].state # "Executing"
    /\ CancelFidelity(r, f)

\* recover_fidelity_pre_spawn: the executor could not start the process.
RecoverPreSpawn(r, f) ==
    /\ handler[r] = "not_spawned" /\ Serving
    /\ CancelFidelity(r, f)

\* Mutant: the record of the outbox is removed before the row is written.
CompleteRemovesFirst(r, tokens, f) ==
    /\ handler[r] = "finished" /\ Serving /\ pending[r].state = "Executing"
    /\ tokens \in Sizes
    /\ Meets(f, {"ledger"})
    /\ file' = [file EXCEPT ![r] = NoFile]
    /\ ledger' = IF f = "ledger" THEN ledger
                 ELSE [ledger EXCEPT ![r] = Record(@, tokens)]
    /\ pending' = [pending EXCEPT ![r] = NotPending]
    /\ Advance(r, "gone")
    /\ UNCHANGED <<quarantine, receipt, up, overridden, bound, started>>

\* CompleteFidelity: the measured operation goes to the outbox record, from
\* there to the ledger, and then the record is removed.  Whatever fails leaves
\* the reservation pending.  The measured output may exceed the bound it was
\* reserved with, which fidelity_output_tokens_upper_bound takes from the size
\* of the files before the command runs.
Complete(r, tokens, f) ==
    /\ handler[r] = "finished" /\ Serving /\ pending[r].state = "Executing"
    /\ tokens \in Sizes
    /\ Meets(f, {"persist", "persist_sync", "ledger", "remove", "remove_sync"})
    /\ file' = CASE f = "persist" -> file
                 [] f \in {"persist_sync", "ledger", "remove"} ->
                      [file EXCEPT ![r] = [state |-> "Executed", tokens |-> tokens]]
                 [] OTHER -> [file EXCEPT ![r] = NoFile]
    /\ ledger' = IF f \in {"persist", "persist_sync", "ledger"} THEN ledger
                 ELSE [ledger EXCEPT ![r] = Record(@, tokens)]
    /\ pending' = IF f # "none" THEN pending ELSE [pending EXCEPT ![r] = NotPending]
    /\ Advance(r, "gone")
    /\ UNCHANGED <<quarantine, receipt, up, overridden, bound, started>>

\* CompleteFidelity of a reservation that was reconciled in the meantime.
CompleteRefused(r) ==
    /\ handler[r] = "finished" /\ Serving /\ pending[r].state # "Executing"
    /\ Advance(r, "gone")
    /\ UNCHANGED <<durable, up, pending, overridden, bound, started, faults>>

-----------------------------------------------------------------------------
(* The operator *)

\* `hzr doctor` lists the Executing records as unknown.  The operator
\* acknowledges any of them, and says of one that it was not executed only when
\* that is true: its request is over and its command was never started.  Nothing
\* in the daemon checks it; it is an assumption on the operator.
OperatorMay(r, resolution) ==
    resolution = "ProveNotExecuted" => handler[r] = "gone" /\ r \notin started

\* Mutant: the receipt is written before the acknowledged row.
ReconcileReceiptFirst(r, resolution, f) ==
    /\ Serving /\ OperatorMay(r, resolution)
    /\ receipt[r] = "None" /\ pending[r].state = "Executing"
    /\ Meets(f, {"ledger"})
    /\ receipt' = [receipt EXCEPT ![r] = resolution]
    /\ ledger' = IF resolution = "AcknowledgeExecuted" /\ f # "ledger"
                 THEN [ledger EXCEPT ![r] = Record(@, 0)] ELSE ledger
    /\ file' = IF f = "ledger" THEN file ELSE [file EXCEPT ![r] = NoFile]
    /\ pending' = IF f = "ledger" THEN pending ELSE [pending EXCEPT ![r] = NotPending]
    /\ UNCHANGED <<quarantine, up, handler, overridden, bound, started>>

\* ReconcileFidelity.  An acknowledged execution gets the row of the Executing
\* record, with no tokens; then the receipt is written, the record removed, and
\* the reservation released even if the record could not be removed.  A
\* reservation that has a receipt is answered from it and nothing changes.
Reconcile(r, resolution, f) ==
    /\ Serving /\ OperatorMay(r, resolution)
    /\ receipt[r] = "None" /\ pending[r].state = "Executing"
    /\ Meets(f, {"ledger", "persist", "persist_sync", "remove", "remove_sync"})
    /\ f = "ledger" => resolution = "AcknowledgeExecuted"
    /\ ledger' = IF resolution = "AcknowledgeExecuted" /\ f # "ledger"
                 THEN [ledger EXCEPT ![r] = Record(@, 0)] ELSE ledger
    /\ receipt' = IF f \in {"ledger", "persist"} THEN receipt
                  ELSE [receipt EXCEPT ![r] = resolution]
    /\ file' = IF f \in {"ledger", "persist", "persist_sync", "remove"} THEN file
               ELSE [file EXCEPT ![r] = NoFile]
    /\ pending' = IF f \in {"ledger", "persist", "persist_sync"} THEN pending
                  ELSE [pending EXCEPT ![r] = NotPending]
    /\ UNCHANGED <<quarantine, up, handler, overridden, bound, started>>

-----------------------------------------------------------------------------
(* The request handlers between two requests of the actor *)

Start(r) ==
    /\ handler[r] = "begun" /\ Serving
    /\ started' = started \cup {r}
    /\ Advance(r, "running")
    /\ UNCHANGED <<durable, up, pending, overridden, bound, faults>>

StartFails(r) ==
    /\ handler[r] = "begun" /\ Serving
    /\ Advance(r, "not_spawned")
    /\ UNCHANGED <<durable, up, pending, overridden, bound, started, faults>>

\* The command ended and its output was measured.
Finish(r) ==
    /\ handler[r] = "running" /\ Serving
    /\ Advance(r, "finished")
    /\ UNCHANGED <<durable, up, pending, overridden, bound, started, faults>>

\* The handler returns early with `?`, its client disconnects and the future is
\* dropped, or the executor fails after the start: no request reaches the actor.
Abandon(r) ==
    /\ handler[r] \notin {"idle", "gone"} /\ Serving
    /\ Advance(r, "gone")
    /\ UNCHANGED <<durable, up, pending, overridden, bound, started, faults>>

-----------------------------------------------------------------------------
(* The daemon stops and starts *)

\* The process exits, is killed or crashes.  A request of the actor that is cut
\* short leaves the durable state of the failure that stops at the same place,
\* so that a crash inside a step is that failure followed by this action.
Stop ==
    /\ Serving
    /\ up' = "down"
    /\ pending' = [r \in Reservations |-> NotPending]
    /\ handler' = [r \in Reservations |-> IF handler[r] = "idle" THEN "idle" ELSE "gone"]
    /\ UNCHANGED <<durable, overridden, bound, started, faults>>

\* Only a Reserved record may be older than RESERVED_FIDELITY_TTL and expire.
Expires(r) == file[r].state = "Reserved"

\* Mutant: an outbox record is loaded as a pending reservation.
SettledByReceipt(r) == file[r].state = "Executing" /\ receipt[r] # "None"

\* A record whose execution is settled: it is in the outbox, or has a receipt.
Settled(r) ==
    \/ file[r].state = "Executed"
    \/ file[r].state = "Executing" /\ receipt[r] # "None"

OwesRow(r) ==
    Settled(r) /\ (file[r].state = "Executing" => receipt[r] = "AcknowledgeExecuted")

\* An Executing record carries an operation without tokens.
RowTokens(r) == IF file[r].state = "Executed" THEN file[r].tokens ELSE 0

Blocks(bad) == IF bad = {} THEN "up" ELSE "blocked"

\* load_and_reconcile_durable_records.  `old` are the expired records, and `bad`
\* those that meet failure f; each counts as an integrity issue, which blocks
\* new reservations for the life of the process.
Boot(old, bad, f) ==
    LET dropped == old \cup {r \in Reservations : Settled(r)}
        spared  == IF f \in {"ledger", "remove", "unmovable"} THEN bad ELSE {}
        written == {r \in Reservations : OwesRow(r)} \
                       (IF f \in {"ledger", "unreadable", "unmovable"} THEN bad ELSE {})
        gone    == (dropped \cup bad) \ spared
    IN
    /\ up = "down"
    /\ \A r \in old : Expires(r)
    /\ Meets(f, {"ledger", "remove", "remove_sync", "unreadable", "unmovable"})
    /\ (f = "none") = (bad = {})
    /\ bad \subseteq CASE f = "ledger" -> {r \in Reservations : OwesRow(r)}
                       [] f \in {"remove", "remove_sync"} -> dropped
                       [] f \in {"unreadable", "unmovable"} ->
                            {r \in Reservations : file[r] # NoFile}
                       [] OTHER -> {}
    /\ up' = Blocks(bad)
    /\ ledger' = [r \in Reservations |->
                    IF r \in written THEN Record(ledger[r], RowTokens(r)) ELSE ledger[r]]
    /\ file' = [r \in Reservations |-> IF r \in gone THEN NoFile ELSE file[r]]
    /\ quarantine' = IF f = "unreadable" THEN quarantine \cup bad ELSE quarantine
    /\ pending' = [r \in Reservations |->
                     IF file[r] = NoFile \/ r \in dropped \cup bad THEN NotPending
                     ELSE [state |-> file[r].state, upper |-> file[r].tokens]]
    /\ UNCHANGED <<receipt, handler, overridden, bound, started>>

-----------------------------------------------------------------------------

Outcomes == {"none"} \cup Faults

Handle(r) ==
    \/ \E f \in Outcomes :
         \/ \E upper \in Sizes : Reserve(r, upper, FALSE, f)
         \/ Reserve(r, MaxTokens, TRUE, f)
         \/ Begin(r, f)
         \/ Cancel(r, f)
         \/ RecoverPreSpawn(r, f)
         \/ \E tokens \in Sizes : Complete(r, tokens, f)
    \/ Start(r) \/ StartFails(r) \/ Finish(r) \/ Abandon(r) \/ CompleteRefused(r)

Resolve(r) ==
    \E resolution \in {"AcknowledgeExecuted", "ProveNotExecuted"}, f \in Outcomes :
        Reconcile(r, resolution, f)

Restart ==
    \/ Stop
    \/ \E old, bad \in SUBSET Reservations, f \in Outcomes : Boot(old, bad, f)

Next == (\E r \in Reservations : Handle(r) \/ Resolve(r)) \/ Restart

Spec == Init /\ [][Next]_vars

\* The scheduler runs every handler, a supervisor starts the daemon again and
\* the operator does what `hzr doctor` says: acknowledges the unknown
\* executions, however often the daemon stops meanwhile, and restarts a blocked
\* daemon.  Nothing makes a healthy daemon stop.
LiveSpec ==
    /\ Spec
    /\ WF_vars(\E old \in SUBSET Reservations : Boot(old, {}, "none"))
    /\ WF_vars(up = "blocked" /\ Stop)
    /\ \A r \in Reservations :
         /\ WF_vars(Handle(r))
         /\ SF_vars(Reconcile(r, "AcknowledgeExecuted", "none"))

-----------------------------------------------------------------------------
(* Properties *)

\* A command that was started is never lost to the accounting: there is its row,
\* or a durable record from which `hzr doctor` or the next start will make one,
\* or a quarantined record (CompleteFidelity, ReconcileFidelity and the load).
RunAccounted ==
    \A r \in started :
        \/ ledger[r] # <<>>
        \/ file[r].state \in {"Executing", "Executed"}
        \/ r \in quarantine

\* A reconciliation receipt stays true: an acknowledged execution has its row,
\* and a command proved not to have run never runs later (ReconcileFidelity,
\* whatever fails in it and whatever is replayed later).  The latter may still
\* have a row: of an acknowledgement whose receipt could not be written.
ReceiptTruthful ==
    \A r \in Reservations :
        /\ receipt[r] = "AcknowledgeExecuted" => ledger[r] # <<>>
        /\ receipt[r] = "ProveNotExecuted" => r \notin started

\* The reservations that count against the allowance: those of commands no human
\* approved that ran, may have run, or still may run.
Held ==
    {r \in Reservations \ overridden :
        \/ r \in started
        \/ ledger[r] # <<>>
        \/ handler[r] \notin {"idle", "gone"}
        \/ /\ receipt[r] # "ProveNotExecuted"
           /\ \/ file[r].state \in {"Executing", "Executed"}
              \/ pending[r].state = "Executing"}

\* No interleaving of requests, failures and restarts runs more unapproved
\* commands than the session's allowance (ReserveFidelity with the load).
WithinAllowance == Cardinality(started \ overridden) <= MaxOperations

Lesser(x, y) == IF x <= y THEN x ELSE y

\* The tokens of each row of the reservations R, up to the bound of its reservation.
BoundedTokensOf(R) ==
    [row \in Rows(R) |-> Lesser(ledger[row[1]][row[2]], bound[row[1]])]

\* Nor do their rows take more than the token allowance, each counted up to the
\* bound it was reserved with: beyond the allowance the session's unapproved
\* commands deliver only what their outputs exceeded their own bounds by, which
\* later reservations then count (ReserveFidelity, CompleteFidelity, the load).
TokensWithinAllowance == Total(BoundedTokensOf(Reservations \ overridden)) <= MaxTokens

AtMostMaxOperations(R) == Cardinality(R) <= MaxOperations

Abstract == INSTANCE Allowance WITH
    Affordable <- AtMostMaxOperations, granted <- Held, ran <- started \ overridden

\* The reservations implement the abstract allowance: in particular a restart,
\* a failed write or a reconciliation never gives back the share of a command
\* that ran, nor lets one run whose share was given back.
AllowanceSpec == Abstract!Spec

\* Every command that was started eventually has its row, unless its record
\* became unreadable and was set aside (CompleteFidelity, the load and the
\* operator's ReconcileFidelity).
EventuallyRecorded ==
    \A r \in Reservations : r \in started ~> (ledger[r] # <<>> \/ r \in quarantine)

=============================================================================
