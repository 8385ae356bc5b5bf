------------------------------ MODULE Accounting ------------------------------
(***************************************************************************)
(* The way of an accounting receipt from the engine that writes it to its  *)
(* row in the ledger: producers append receipts to the journal of their    *)
(* correlation (fork-core tracking.rs), the daemon's sweeper and the       *)
(* handler of a managed call drain, record and acknowledge the journals    *)
(* (accounting_sweeper.rs, accounting.rs, api.rs), and the coverage store  *)
(* says for which operations the accounting is missing                     *)
(* (accounting_coverage.rs).                                               *)
(*                                                                         *)
(* Producers and the command line are processes of their own: only the     *)
(* journal lock orders them with a drain.  The sweeper decides from one    *)
(* listing of the directory, which is stale as soon as it is taken.        *)
(***************************************************************************)
EXTENDS Naturals, FiniteSets

CONSTANTS
    Correlations,
    Processes,      \* engine processes, each run at most once
    None,           \* no correlation
    MaxReceipts,    \* bound: how many receipts a process writes
    Grace,          \* ORPHAN_JOURNAL_GRACE_SECS, also the grace of a gap, in ticks
    Ttl,            \* ABANDONED_CONTEXT_TTL_SECS, in ticks
    Faults,         \* which faults occur
    MaxFaults       \* bound: how many of them, kills aside

ASSUME AccountingAssumption ==
    /\ None \notin Correlations
    /\ MaxReceipts \in Nat /\ MaxFaults \in Nat
    /\ Grace \in Nat \ {0} /\ Ttl \in Nat /\ Grace <= Ttl
    /\ Faults \subseteq {"append", "kill", "ledger", "coverage", "rename", "crash"}

Receipts == Processes \X (0 .. MaxReceipts - 1)
Files == {"active", "pending"}

\* Where a row got its attribution from: the registration, the managed call, or
\* nowhere (UNATTRIBUTED_PROJECT_PATH).
Attributions == {"registration", "call", "unattributed"}

\* The gap intervals of one workspace and session, by what tells them apart.
Families == {"registration", "invalid_accounting_context", "rejected_receipt_batch",
             "orphan_receipt_rejected", "call"}

VARIABLES
    \* The commands and their engine processes
    route,      \* how the command of a correlation was started
    corr,       \* the correlation in the environment of a process
    pc,         \* where a process is
    next,       \* ACCOUNTING_SEQUENCE: every process counts from zero
    old,        \* the processes of an earlier engine build
    lost,       \* the processes whose lock file was unlinked while they held it
    stray,      \* the processes whose open journal was renamed to .rejected
    written,    \* the receipts whose append returned
    \* The fork directory
    context,    \* accounting-context-<c>.json
    journal,    \* accounting-receipts-<c>.jsonl and .jsonl.pending
    empty,      \* the correlations whose active journal is there and empty
    torn,       \* the journals with a line that is no receipt
    failed,     \* accounting-failures-<c>.jsonl and .jsonl.pending that have events
    lock_file,  \* the correlations with a .lock file
    age,        \* ticks since each of the files was written
    rejected,   \* what an active journal became (.rejected), and a pending one (.jsonl.rejected)
    overwritten,    \* the receipts of such a file that a later rename replaced
    orphan_rejected,    \* whether an orphan was rejected
    \* The ledger and the coverage store
    rows,
    gap,        \* the families with an open interval
    gap_age,    \* ticks since last_failure_at_unix of the gap of the registrations
    history,    \* the families with a closed interval
    \* The daemon
    up,
    sweep,      \* where the sweeper is
    seen,       \* ForkInventory
    todo,       \* the contexts or orphans of this sweep that are left
    cur,        \* the correlation in work
    completed,  \* completed_at_unix of its context, as it was read
    batch,      \* the receipts of its pending journal, as they were drained
    left,       \* those of them that are not recorded yet
    call,       \* the handlers of managed calls
    faults

producers == <<route, corr, pc, next, old, lost, stray, written>>
directory == <<context, journal, empty, torn, failed, lock_file, rejected, overwritten,
               orphan_rejected>>
coverage == <<gap, gap_age, history>>
sweeper == <<sweep, seen, todo, cur, completed, batch, left>>
vars == <<producers, directory, age, rows, coverage, up, sweeper, call, faults>>

NoCall == [pc |-> "none", batch |-> {}, left |-> {}]
Nothing == [contexts |-> {}, journals |-> {}, receipts |-> {}, locks |-> {}]

ProducersOK ==
    /\ route \in [Correlations -> {"unused", "registering", "registered", "bare", "managed"}]
    /\ corr \in [Processes -> Correlations \cup {None}]
    /\ pc \in [Processes -> {"idle", "running", "writing", "signalling", "exited"}]
    /\ next \in [Processes -> 0 .. MaxReceipts]
    /\ old \subseteq Processes /\ lost \subseteq Processes /\ stray \subseteq Processes
    /\ written \subseteq {r \in Receipts : r[2] < next[r[1]]}

DirectoryOK ==
    /\ context \in [Correlations -> {"none", "open", "completed"}]
    /\ journal \in [Correlations -> [Files -> SUBSET Receipts]]
    /\ torn \subseteq Correlations \X Files /\ failed \subseteq Correlations \X Files
    /\ empty \subseteq Correlations /\ lock_file \subseteq Correlations
    /\ rejected \in [Correlations -> [Files -> SUBSET Receipts]]
    /\ overwritten \subseteq Receipts /\ orphan_rejected \in BOOLEAN

AgesOK ==
    age \in [context : [Correlations -> 0 .. Ttl],
             journal : [Correlations -> [Files -> 0 .. Grace]],
             lock : [Correlations -> 0 .. Grace]]

LedgerOK ==
    /\ rows \in [Receipts -> [Attributions -> Nat]]
    /\ gap \subseteq Families /\ history \subseteq Families
    /\ gap_age \in 0 .. Grace

SweeperOK ==
    /\ sweep \in {"idle", "contexts", "drain", "record", "recover", "rejected", "report", "close",
                  "orphans", "orphan_record", "orphan_clean", "orphan_report", "orphan_rename"}
    /\ seen \in [contexts : SUBSET Correlations, journals : SUBSET Correlations,
                 receipts : SUBSET (Correlations \X Files), locks : SUBSET Correlations]
    /\ todo \subseteq Correlations /\ cur \in Correlations \cup {None}
    /\ sweep \notin {"idle", "contexts", "orphans"} => cur # None
    /\ completed \in BOOLEAN
    /\ batch \subseteq Receipts /\ left \subseteq Receipts

CallsOK ==
    /\ call \in [Correlations -> [pc : {"none", "run", "record", "ack", "over"},
                                  batch : SUBSET Receipts, left : SUBSET Receipts]]
    /\ up \in BOOLEAN /\ faults \in 0 .. MaxFaults

TypeOK == ProducersOK /\ DirectoryOK /\ AgesOK /\ LedgerOK /\ SweeperOK /\ CallsOK

Init ==
    /\ route = [c \in Correlations |-> "unused"]
    /\ corr = [p \in Processes |-> None]
    /\ pc = [p \in Processes |-> "idle"]
    /\ next = [p \in Processes |-> 0]
    /\ old = {} /\ lost = {} /\ stray = {} /\ written = {}
    /\ context = [c \in Correlations |-> "none"]
    /\ journal = [c \in Correlations |-> [f \in Files |-> {}]]
    /\ empty = {} /\ torn = {} /\ failed = {} /\ lock_file = {}
    /\ age = [context |-> [c \in Correlations |-> 0],
              journal |-> [c \in Correlations |-> [f \in Files |-> 0]],
              lock |-> [c \in Correlations |-> 0]]
    /\ rejected = [c \in Correlations |-> [f \in Files |-> {}]]
    /\ overwritten = {} /\ orphan_rejected = FALSE
    /\ rows = [r \in Receipts |-> [a \in Attributions |-> 0]]
    /\ gap = {} /\ history = {} /\ gap_age = 0
    /\ up = TRUE
    /\ sweep = "idle" /\ seen = Nothing /\ todo = {} /\ cur = None
    /\ completed = FALSE /\ batch = {} /\ left = {}
    /\ call = [c \in Correlations |-> NoCall]
    /\ faults = 0

Fault(kind) == kind \in Faults /\ faults < MaxFaults /\ faults' = faults + 1

-----------------------------------------------------------------------------
(* The coverage store: record_missing, ensure_missing and recover, each    *)
(* atomic under the store's lock.  How many operations an interval counts, *)
(* and the ages nobody looks at, are left out.                             *)

Touched(k) == gap_age' = IF k = "registration" THEN 0 ELSE gap_age

RecordMissing(k) ==
    /\ gap' = gap \cup {k} /\ Touched(k)
    /\ UNCHANGED history

\* A registration recovered inside the grace was in flight: it is removed.
Settled(k) == k = "registration" /\ gap_age < Grace

Recover(k) ==
    /\ gap' = gap \ {k} /\ Touched(k)
    /\ history' = IF k \in gap /\ ~Settled(k) THEN history \cup {k} ELSE history

-----------------------------------------------------------------------------
(* The journals *)

Producers(c) == {p \in Processes : corr[p] = c}

\* Somebody holds the lock on the file the path names.
Locked(c) == \E p \in Producers(c) : pc[p] = "writing" /\ p \notin lost

HasLines(c, f) == journal[c][f] # {} \/ <<c, f>> \in torn
HasPending(c) == HasLines(c, "pending") \/ <<c, "pending">> \in failed

\* What drain_accounting_locked reads: the pending journals, or if there are none
\* the active ones, which it rotates first.
Source(c) == IF HasPending(c) THEN "pending" ELSE "active"
Drained(c) == journal[c][Source(c)]
DrainEmpty(c) == ~HasLines(c, Source(c)) /\ <<c, Source(c)>> \notin failed
DrainFailures(c) == <<c, Source(c)>> \in failed
DrainRejected(c, policy) ==
    \/ <<c, Source(c)>> \in torn
    \/ policy = "Exact" /\ \E r \in Drained(c) : r[1] \in old

Renamed(set, c) ==
    {x \in set : x # <<c, "active">>}
        \cup {<<c, "pending">> : x \in set \cap {<<c, "active">>}}

\* Mutant: a rotation that does not look for a pending batch overwrites it.
RotateOverPending(c) ==
    /\ ~Locked(c)
    /\ journal' = [journal EXCEPT ![c] = [active |-> {}, pending |-> journal[c]["active"]]]
    /\ torn' = Renamed(torn, c) /\ failed' = Renamed(failed, c)
    /\ lock_file' = lock_file \cup {c}
    /\ age' = [age EXCEPT !.journal[c]["pending"] = age.journal[c]["active"],
                          !.lock[c] = IF c \in lock_file THEN @ ELSE 0]

\* Mutant: a rotation that does not take the journal locks.
RotateUnlocked(c) ==
    IF HasPending(c)
    THEN UNCHANGED <<journal, torn, failed, lock_file, age>>
    ELSE /\ journal' = [journal EXCEPT ![c] = [active |-> {}, pending |-> journal[c]["active"]]]
         /\ torn' = Renamed(torn, c) /\ failed' = Renamed(failed, c)
         /\ age' = [age EXCEPT !.journal[c]["pending"] = age.journal[c]["active"]]
         /\ UNCHANGED lock_file

\* rotate_active_journals, under the journal locks, whose files it creates.  A
\* rename keeps the time of the file.
Rotate(c) ==
    IF HasPending(c)
    THEN UNCHANGED <<journal, torn, failed, lock_file, age>>
    ELSE /\ ~Locked(c)
         /\ journal' = [journal EXCEPT ![c] = [active |-> {}, pending |-> journal[c]["active"]]]
         /\ torn' = Renamed(torn, c) /\ failed' = Renamed(failed, c)
         /\ lock_file' = lock_file \cup {c}
         /\ age' = [age EXCEPT !.journal[c]["pending"] = age.journal[c]["active"],
                               !.lock[c] = IF c \in lock_file THEN @ ELSE 0]

\* acknowledge_accounting finds the batch it was given.
SameBatch(c, b) ==
    /\ journal[c]["pending"] = b /\ b # {}
    /\ <<c, "pending">> \notin torn \cup failed

Remove(c) == journal' = [journal EXCEPT ![c]["pending"] = {}]

\* remove_accounting_locks: a producer that holds the lock holds it no more for
\* those who open the path again.
RemoveLocks(C) ==
    /\ lock_file' = lock_file \ C
    /\ lost' = lost \cup {p \in Processes : corr[p] \in C /\ pc[p] = "writing"}

-----------------------------------------------------------------------------
(* The ledger *)

Key(r) == <<corr[r[1]], r[2]>>
HasRow(r) == \E a \in Attributions : rows[r][a] > 0
Recorded(r) == \E q \in Receipts : Key(q) = Key(r) /\ HasRow(q)

\* record_engine_accounting_receipt: INSERT OR IGNORE by correlation and sequence.
InsertReceipt(r, a) ==
    IF Recorded(r) THEN UNCHANGED rows ELSE rows' = [rows EXCEPT ![r][a] = @ + 1]

-----------------------------------------------------------------------------
(* The commands and their engines *)

\* register_with_command: the context is written and seen by others before the gap
\* is recorded.  Whoever registers may die in between.
Register(c) ==
    /\ route[c] = "unused"
    /\ route' = [route EXCEPT ![c] = "registering"]
    /\ context' = [context EXCEPT ![c] = "open"]
    /\ age' = [age EXCEPT !.context[c] = 0]
    /\ UNCHANGED <<corr, pc, next, old, lost, stray, written, journal, empty, torn, failed,
                   lock_file, rejected, overwritten, orphan_rejected, rows, coverage, up, sweeper,
                   call, faults>>

\* A registration whose gap cannot be recorded is taken back.
RegisterGap(c) ==
    /\ route[c] = "registering"
    /\ \/ /\ route' = [route EXCEPT ![c] = "registered"] /\ RecordMissing("registration")
          /\ UNCHANGED <<context, faults>>
       \/ /\ route' = [route EXCEPT ![c] = "bare"] /\ Fault("coverage")
          /\ context' = [context EXCEPT ![c] = "none"]
          /\ UNCHANGED coverage
    /\ UNCHANGED <<corr, pc, next, old, lost, stray, written, journal, empty, torn, failed,
                   lock_file, rejected, overwritten, orphan_rejected, age, rows, up, sweeper, call>>

\* Without a daemon the hook runs a command although its registration failed, here
\* before anything was written.
RunUnregistered(c) ==
    /\ route[c] = "unused" /\ "coverage" \in Faults
    /\ route' = [route EXCEPT ![c] = "bare"]
    /\ UNCHANGED <<corr, pc, next, old, lost, stray, written, directory, age, rows, coverage, up,
                   sweeper, call, faults>>

\* fork_run registers nothing: it drains the journal of its process itself.
StartCall(c) ==
    /\ up /\ route[c] = "unused"
    /\ route' = [route EXCEPT ![c] = "managed"]
    /\ call' = [call EXCEPT ![c].pc = "run"]
    /\ UNCHANGED <<corr, pc, next, old, lost, stray, written, directory, age, rows, coverage, up,
                   sweeper, faults>>

\* One shell command may run several engines, some in the background after it is
\* complete and for as long as they like; a managed call runs one.
Start(p, c) ==
    /\ pc[p] = "idle" /\ route[c] \in {"registered", "bare", "managed"}
    /\ route[c] = "managed" => call[c].pc = "run" /\ Producers(c) = {}
    /\ pc' = [pc EXCEPT ![p] = "running"] /\ corr' = [corr EXCEPT ![p] = c]
    /\ UNCHANGED <<route, next, old, lost, stray, written, directory, age, rows, coverage, up,
                   sweeper, call, faults>>

\* append_accounting_receipt, up to the lock and the open journal.
OpenJournal(p) ==
    /\ pc[p] = "running" /\ next[p] < MaxReceipts
    /\ ~Locked(corr[p])
    /\ pc' = [pc EXCEPT ![p] = "writing"]
    /\ lock_file' = lock_file \cup {corr[p]}
    /\ empty' = IF HasLines(corr[p], "active") THEN empty ELSE empty \cup {corr[p]}
    /\ age' = [age EXCEPT !.lock[corr[p]] = IF corr[p] \in lock_file THEN @ ELSE 0]
    /\ UNCHANGED <<route, corr, next, old, lost, stray, written, context, journal, torn, failed,
                   rejected, overwritten, orphan_rejected, rows, coverage, up, sweeper, call,
                   faults>>

\* Mutant: the sequence does not advance, and the next receipt has the same number.
EndAppendSameNumber(p, to) ==
    /\ pc[p] = "writing"
    /\ pc' = [pc EXCEPT ![p] = to]
    /\ lost' = lost \ {p} /\ stray' = stray \ {p}
    /\ UNCHANGED <<route, corr, next, old, context, lock_file, overwritten, orphan_rejected, rows,
                   coverage, up, sweeper, call>>

EndAppend(p, to) ==
    /\ pc[p] = "writing"
    /\ pc' = [pc EXCEPT ![p] = to] /\ next' = [next EXCEPT ![p] = @ + 1]
    /\ lost' = lost \ {p} /\ stray' = stray \ {p}
    /\ UNCHANGED <<route, corr, old, context, lock_file, overwritten, orphan_rejected, rows,
                   coverage, up, sweeper, call>>

\* A part of a line, or nothing, is left in the journal p opened.
TornLine(p, torn_line) ==
    LET c == corr[p]
    IN  IF torn_line /\ p \notin stray
        THEN /\ torn' = torn \cup {<<c, "active">>} /\ empty' = empty \ {c}
             /\ age' = [age EXCEPT !.journal[c]["active"] = 0]
        ELSE UNCHANGED <<torn, empty, age>>

WriteReceipt(p) ==
    LET c == corr[p]
        r == <<p, next[p]>>
    IN  /\ EndAppend(p, "running")
        /\ IF p \in stray
           THEN /\ rejected' = [rejected EXCEPT ![c]["active"] = @ \cup {r}]
                /\ UNCHANGED <<journal, empty, age>>
           ELSE /\ journal' = [journal EXCEPT ![c]["active"] = @ \cup {r}]
                /\ empty' = empty \ {c}
                /\ age' = [age EXCEPT !.journal[c]["active"] = 0]
                /\ UNCHANGED rejected
        /\ written' = written \cup {r}
        /\ UNCHANGED <<torn, failed, faults>>

\* The append fails, perhaps in the middle of a line.
AppendFails(p, torn_line) ==
    /\ Fault("append") /\ EndAppend(p, "signalling") /\ TornLine(p, torn_line)
    /\ UNCHANGED <<journal, failed, written, rejected>>

\* signal_accounting_failure, which gives up when another process signals too.
Signal(p, signalled) ==
    /\ pc[p] = "signalling"
    /\ pc' = [pc EXCEPT ![p] = "running"]
    /\ failed' = IF signalled THEN failed \cup {<<corr[p], "active">>} ELSE failed
    /\ UNCHANGED <<route, corr, next, old, lost, stray, written, context, journal, empty, torn,
                   lock_file, rejected, overwritten, orphan_rejected, age, rows, coverage, up,
                   sweeper, call, faults>>

\* A process is killed before its line or in the middle of it.
KilledWriting(p, torn_line) ==
    /\ "kill" \in Faults /\ EndAppend(p, "exited") /\ TornLine(p, torn_line)
    /\ UNCHANGED <<journal, failed, written, rejected, faults>>

Exit(p) ==
    /\ pc[p] = "running"
    /\ pc' = [pc EXCEPT ![p] = "exited"]
    /\ UNCHANGED <<route, corr, next, old, lost, stray, written, directory, age, rows, coverage,
                   up, sweeper, call, faults>>

\* complete: after the process the caller owns exited, or for a command the hook
\* discarded; engines in the background may go on.  The owner of a killed or hooked
\* command never comes here.
Complete(c) ==
    /\ route[c] = "registered" /\ context[c] = "open"
    /\ context' = [context EXCEPT ![c] = "completed"]
    /\ Recover("registration")
    /\ UNCHANGED <<producers, journal, empty, torn, failed, lock_file, rejected, overwritten,
                   orphan_rejected, age, rows, up, sweeper, call, faults>>

-----------------------------------------------------------------------------
(* sweep: the contexts *)

\* ForkInventory::read, at least a second after the last sweep: an append that was
\* under way then is over.
SweepStart ==
    /\ up /\ sweep = "idle" /\ lost = {} /\ stray = {}
    /\ seen' = [contexts |-> {c \in Correlations : context[c] # "none"},
                journals |-> empty \cup {c \in Correlations : \E f \in Files :
                                            HasLines(c, f) \/ <<c, f>> \in failed},
                receipts |-> {x \in Correlations \X Files : HasLines(x[1], x[2])}
                                \cup {<<c, "active">> : c \in empty},
                locks |-> lock_file]
    /\ todo' = seen'.contexts
    /\ sweep' = "contexts"
    /\ UNCHANGED <<producers, directory, age, rows, coverage, up, cur, completed, batch, left,
                   call, faults>>

\* The context in work is done.
NextContext ==
    /\ sweep' = "contexts" /\ todo' = todo \ {cur} /\ cur' = None
    /\ completed' = FALSE /\ batch' = {} /\ left' = {}
    /\ UNCHANGED seen

\* retire_context
RetireContext(c) ==
    /\ context' = [context EXCEPT ![c] = "none"]
    /\ RemoveLocks({c})
    /\ UNCHANGED <<route, corr, pc, next, old, stray, written, journal, empty, torn, failed,
                   rejected, overwritten, orphan_rejected>>

\* A context without a journal in the listing: the context alone, as it is now,
\* decides.
Quiet(c) == sweep = "contexts" /\ c \in todo /\ c \notin seen.journals

SkipContext(c) ==
    /\ todo' = todo \ {c}
    /\ UNCHANGED <<sweep, seen, cur, completed, batch, left, age, rows, up, call, faults>>

RetireCompleted(c) ==
    /\ Quiet(c) /\ context[c] = "completed"
    /\ RetireContext(c) /\ SkipContext(c)
    /\ UNCHANGED coverage

RetireAbandoned(c) ==
    /\ Quiet(c) /\ context[c] = "open" /\ age.context[c] >= Ttl
    /\ RetireContext(c) /\ SkipContext(c)
    /\ Recover("registration")

KeepOpen(c) ==
    /\ Quiet(c) /\ context[c] = "open" /\ age.context[c] < Ttl
    /\ SkipContext(c)
    /\ UNCHANGED <<producers, directory, coverage>>

\* record_context_failure of a registration that was taken back after the listing.
ContextVanished(c) ==
    /\ sweep = "contexts" /\ c \in todo /\ context[c] = "none"
    /\ \/ RecordMissing("invalid_accounting_context")
       \/ "coverage" \in Faults /\ UNCHANGED coverage
    /\ SkipContext(c)
    /\ UNCHANGED <<producers, directory>>

\* sweep_context reads the context, and then drains.
ReadContext(c) ==
    /\ sweep = "contexts" /\ c \in todo /\ c \in seen.journals /\ context[c] # "none"
    /\ sweep' = "drain" /\ cur' = c /\ completed' = (context[c] = "completed")
    /\ UNCHANGED <<producers, directory, age, rows, coverage, up, seen, todo, batch, left, call,
                   faults>>

CanDrain(c) == HasPending(c) \/ ~Locked(c)

DrainNothing ==
    /\ sweep = "drain" /\ CanDrain(cur) /\ DrainEmpty(cur)
    /\ IF completed
       THEN RetireContext(cur) /\ UNCHANGED age
       ELSE /\ Rotate(cur)
            /\ UNCHANGED <<producers, context, empty, rejected, overwritten, orphan_rejected>>
    /\ NextContext
    /\ UNCHANGED <<rows, coverage, up, call, faults>>

TakeBatch(c, to) ==
    /\ Rotate(c)
    /\ batch' = Drained(c) /\ left' = Drained(c) /\ sweep' = to
    /\ UNCHANGED <<producers, context, empty, rejected, overwritten, orphan_rejected, rows,
                   coverage, up, seen, completed, call, faults>>

DrainReady ==
    /\ sweep = "drain" /\ ~DrainEmpty(cur)
    /\ ~DrainRejected(cur, "Exact") /\ ~DrainFailures(cur)
    /\ TakeBatch(cur, "record")
    /\ UNCHANGED <<todo, cur>>

DrainRejects ==
    /\ sweep = "drain" /\ ~DrainEmpty(cur)
    /\ DrainRejected(cur, "Exact") \/ DrainFailures(cur)
    /\ TakeBatch(cur, "rejected")
    /\ UNCHANGED <<todo, cur>>

RecordReceipt(r) ==
    /\ sweep = "record" /\ r \in left
    /\ InsertReceipt(r, "registration")
    /\ left' = left \ {r}
    /\ UNCHANGED <<producers, directory, age, coverage, up, sweep, seen, todo, cur, completed,
                   batch, call, faults>>

\* The sweep goes on with the next context: record_context_failure.
RecordFails ==
    /\ sweep = "record" /\ left # {} /\ Fault("ledger")
    /\ RecordMissing("registration") /\ NextContext
    /\ UNCHANGED <<producers, directory, age, rows, up, call>>

Acknowledge ==
    /\ sweep = "record" /\ left = {}
    /\ IF SameBatch(cur, batch)
       THEN /\ Remove(cur) /\ sweep' = "recover"
            /\ UNCHANGED <<coverage, seen, todo, cur, completed, batch, left>>
       ELSE RecordMissing("registration") /\ NextContext /\ UNCHANGED journal
    /\ UNCHANGED <<producers, context, empty, torn, failed, lock_file, rejected, overwritten,
                   orphan_rejected, age, rows, up, call, faults>>

RecoverGap ==
    /\ sweep = "recover"
    /\ \/ Recover("registration") /\ UNCHANGED faults
       \/ Fault("coverage") /\ UNCHANGED coverage
    /\ NextContext
    /\ UNCHANGED <<producers, directory, age, rows, up, call>>

\* Journals of c that are there are renamed to names of their own, over what an
\* earlier rejection left under them.
Reject(c, files) ==
    LET moved == {f \in files : HasLines(c, f) \/ (f = "active" /\ c \in empty)}
    IN  /\ rejected' = [rejected EXCEPT ![c] =
                           [f \in Files |-> IF f \in moved THEN journal[c][f] ELSE @[f]]]
        /\ overwritten' = overwritten \cup UNION {rejected[c][f] : f \in moved}
        /\ journal' = [journal EXCEPT ![c] = [f \in Files |-> IF f \in moved THEN {} ELSE @[f]]]
        /\ torn' = torn \ ({c} \X moved)

\* What failing renames leave in its place
Left(kept) == IF kept = {} THEN UNCHANGED faults ELSE Fault("rename")

\* quarantine_pending_journals: the receipts and the failures.
Quarantine ==
    /\ sweep = "rejected"
    /\ \E kept \in SUBSET {"receipts", "failures"} :
          /\ Left(kept)
          /\ Reject(cur, IF "receipts" \in kept THEN {} ELSE {"pending"})
          /\ failed' = IF "failures" \in kept THEN failed ELSE failed \ {<<cur, "pending">>}
    /\ sweep' = "report"
    /\ UNCHANGED <<producers, context, empty, lock_file, orphan_rejected, age, rows, coverage, up,
                   seen, todo, cur, completed, batch, left, call>>

ReportRejected ==
    /\ sweep = "report"
    /\ \/ /\ RecordMissing("rejected_receipt_batch") /\ sweep' = "close"
          /\ UNCHANGED <<seen, todo, cur, completed, batch, left, faults>>
       \/ Fault("coverage") /\ NextContext /\ UNCHANGED coverage
    /\ UNCHANGED <<producers, directory, age, rows, up, call>>

CloseRejected ==
    /\ sweep = "close"
    /\ Recover("rejected_receipt_batch") /\ NextContext
    /\ UNCHANGED <<producers, directory, age, rows, up, call, faults>>

-----------------------------------------------------------------------------
(* sweep_orphan_journals: journals without a context in the listing, not    *)
(* written to for the grace                                                *)

\* Mutant: a journal is an orphan by its age alone.
OrphanByAge(c, f) ==
    <<c, f>> \in seen.receipts /\ HasLines(c, f) /\ age.journal[c][f] >= Grace

\* Mutant: a batch that was drained and not acknowledged is not looked for.
OrphanNotPending(c, f) ==
    /\ f = "active" /\ <<c, f>> \in seen.receipts /\ c \notin seen.contexts
    /\ HasLines(c, f) /\ age.journal[c][f] >= Grace

Orphan(c, f) ==
    /\ <<c, f>> \in seen.receipts /\ c \notin seen.contexts
    /\ HasLines(c, f) /\ age.journal[c][f] >= Grace

\* The orphans, and of each the journals among them: the active one comes first.
FindOrphans ==
    /\ sweep = "contexts" /\ todo = {}
    /\ seen' = [seen EXCEPT !.receipts = {x \in @ : Orphan(x[1], x[2])}]
    /\ todo' = {x[1] : x \in seen'.receipts}
    /\ sweep' = "orphans"
    /\ UNCHANGED <<producers, directory, age, rows, coverage, up, cur, completed, batch, left,
                   call, faults>>

\* An error ends the whole sweep.
SweepEnds ==
    /\ sweep' = "idle" /\ seen' = Nothing /\ todo' = {} /\ cur' = None
    /\ completed' = FALSE /\ batch' = {} /\ left' = {}

SkipOrphan(c) ==
    /\ sweep = "orphans" /\ c \in todo /\ DrainEmpty(c)
    /\ Rotate(c)
    /\ todo' = todo \ {c}
    /\ UNCHANGED <<producers, context, empty, rejected, overwritten, orphan_rejected, rows,
                   coverage, up, sweep, seen, cur, completed, batch, left, call, faults>>

OrphanReady(c) ==
    /\ sweep = "orphans" /\ c \in todo /\ ~DrainEmpty(c)
    /\ ~DrainRejected(c, "RecordedBuild") /\ ~DrainFailures(c)
    /\ TakeBatch(c, "orphan_record")
    /\ todo' = todo \ {c} /\ cur' = c

OrphanRejects(c) ==
    /\ sweep = "orphans" /\ c \in todo /\ ~DrainEmpty(c)
    /\ DrainRejected(c, "RecordedBuild") \/ DrainFailures(c)
    /\ TakeBatch(c, "orphan_report")
    /\ todo' = todo \ {c} /\ cur' = c

OrphanDone ==
    /\ sweep' = "orphans" /\ cur' = None /\ batch' = {} /\ left' = {}
    /\ UNCHANGED <<seen, todo, completed>>

\* Mutant: the evidence is renamed although the gap could not be recorded.
ReportOrphanOrNot ==
    /\ sweep = "orphan_report" /\ sweep' = "orphan_rename"
    /\ \/ RecordMissing("orphan_receipt_rejected") /\ UNCHANGED faults
       \/ Fault("coverage") /\ UNCHANGED coverage
    /\ UNCHANGED <<producers, directory, age, rows, up, seen, todo, cur, completed, batch, left,
                   call>>

\* quarantine_orphan_journal: nothing is renamed unless the gap is recorded.
ReportOrphan ==
    /\ sweep = "orphan_report"
    /\ \/ /\ RecordMissing("orphan_receipt_rejected") /\ sweep' = "orphan_rename"
          /\ UNCHANGED <<seen, todo, cur, completed, batch, left, faults>>
       \/ Fault("coverage") /\ OrphanDone /\ UNCHANGED coverage
    /\ UNCHANGED <<producers, directory, age, rows, up, call>>

\* With the active journal in the listing both are renamed: what was appended to it
\* after the rotation goes unread, and an append under way ends in the renamed file.
\* The failures stay.
RenameOrphan ==
    /\ sweep = "orphan_rename"
    /\ LET files == IF <<cur, "active">> \in seen.receipts THEN Files ELSE {"pending"}
       IN  \E kept \in SUBSET files :
             /\ Left(kept) /\ Reject(cur, files \ kept)
             /\ IF "active" \in files \ kept
                THEN /\ empty' = empty \ {cur}
                     /\ stray' = stray \cup {p \in Producers(cur) : pc[p] = "writing"}
                ELSE UNCHANGED <<empty, stray>>
    /\ orphan_rejected' = TRUE
    /\ OrphanDone
    /\ UNCHANGED <<route, corr, pc, next, old, lost, written, context, failed, lock_file, age,
                   rows, coverage, up, call>>

RecordOrphan(r) ==
    /\ sweep = "orphan_record" /\ r \in left
    /\ InsertReceipt(r, "unattributed")
    /\ left' = left \ {r}
    /\ UNCHANGED <<producers, directory, age, coverage, up, sweep, seen, todo, cur, completed,
                   batch, call, faults>>

RecordOrphanFails ==
    /\ sweep = "orphan_record" /\ left # {} /\ Fault("ledger")
    /\ SweepEnds
    /\ UNCHANGED <<producers, directory, age, rows, coverage, up, call>>

AcknowledgeOrphan ==
    /\ sweep = "orphan_record" /\ left = {}
    /\ IF SameBatch(cur, batch)
       THEN /\ Remove(cur) /\ sweep' = "orphan_clean"
            /\ UNCHANGED <<seen, todo, cur, completed, batch, left>>
       ELSE SweepEnds /\ UNCHANGED journal
    /\ UNCHANGED <<producers, context, empty, torn, failed, lock_file, rejected, overwritten,
                   orphan_rejected, age, rows, coverage, up, call, faults>>

CleanOrphan ==
    /\ sweep = "orphan_clean"
    /\ RemoveLocks({cur}) /\ Recover("orphan_receipt_rejected") /\ OrphanDone
    /\ UNCHANGED <<route, corr, pc, next, old, stray, written, context, journal, empty, torn,
                   failed, rejected, overwritten, orphan_rejected, age, rows, up, call, faults>>

\* remove_stale_locks, by the listing the sweep began with.
SweepLocks ==
    /\ sweep = "orphans" /\ todo = {}
    /\ RemoveLocks({c \in seen.locks \cap lock_file :
                      /\ c \notin seen.contexts \cup seen.journals
                      /\ age.lock[c] >= Grace})
    /\ SweepEnds
    /\ UNCHANGED <<route, corr, pc, next, old, stray, written, context, journal, empty, torn,
                   failed, rejected, overwritten, orphan_rejected, age, rows, coverage, up, call,
                   faults>>

-----------------------------------------------------------------------------
(* commit_fork_accounting: the handler of a managed call drains the journal *)
(* of the process it ran.                                                  *)

CallOver(c) == call' = [call EXCEPT ![c] = [NoCall EXCEPT !.pc = "over"]]

CallDrains(c) ==
    /\ call[c].pc = "run" /\ Producers(c) # {}
    /\ \A p \in Producers(c) : pc[p] = "exited"

\* Without a receipt, or with a line that is none, the call is missing; the journal
\* is left to the orphans.
CallUnaccounted(c) ==
    /\ CallDrains(c)
    /\ DrainEmpty(c) \/ DrainRejected(c, "Exact")
    /\ Rotate(c) /\ RecordMissing("call") /\ CallOver(c)
    /\ UNCHANGED <<producers, context, empty, rejected, overwritten, orphan_rejected, rows, up,
                   sweeper, faults>>

CallReady(c) ==
    /\ CallDrains(c) /\ ~DrainEmpty(c) /\ ~DrainRejected(c, "Exact")
    /\ Rotate(c)
    /\ call' = [call EXCEPT ![c] = [pc |-> "record", batch |-> Drained(c), left |-> Drained(c)]]
    /\ UNCHANGED <<producers, context, empty, rejected, overwritten, orphan_rejected, rows,
                   coverage, up, sweeper, faults>>

CallRecord(c, r) ==
    /\ call[c].pc = "record" /\ r \in call[c].left
    /\ InsertReceipt(r, "call")
    /\ call' = [call EXCEPT ![c].left = @ \ {r}]
    /\ UNCHANGED <<producers, directory, age, coverage, up, sweeper, faults>>

CallRecordFails(c) ==
    /\ call[c].pc = "record" /\ call[c].left # {} /\ Fault("ledger")
    /\ RecordMissing("call") /\ CallOver(c)
    /\ UNCHANGED <<producers, directory, age, rows, up, sweeper>>

\* The failures a process signalled are pending with its receipts.
CallRecorded(c) ==
    /\ call[c].pc = "record" /\ call[c].left = {}
    /\ IF <<c, "pending">> \in failed
       THEN RecordMissing("call") /\ CallOver(c)
       ELSE Recover("call") /\ call' = [call EXCEPT ![c].pc = "ack"]
    /\ UNCHANGED <<producers, directory, age, rows, up, sweeper, faults>>

CallAcknowledge(c) ==
    /\ call[c].pc = "ack"
    /\ IF SameBatch(c, call[c].batch) THEN Remove(c) ELSE UNCHANGED journal
    /\ CallOver(c)
    /\ UNCHANGED <<producers, context, empty, torn, failed, lock_file, rejected, overwritten,
                   orphan_rejected, age, rows, coverage, up, sweeper, faults>>

\* The client goes away and the handler's future is dropped where it waits.
CallDropped(c) ==
    /\ call[c].pc \in {"run", "record"}
    /\ CallOver(c)
    /\ UNCHANGED <<producers, directory, age, rows, coverage, up, sweeper, faults>>

-----------------------------------------------------------------------------
(* Time, crashes and restarts *)

\* The ages that matter are those below a limit: older files count as at the limit.
Older(n, limit) == IF n < limit THEN n + 1 ELSE limit

\* An append is shorter than a tick.  What does not exist has no age.
Tick ==
    /\ \A p \in Processes : pc[p] # "writing"
    /\ age' = [context |-> [c \in Correlations |->
                              IF context[c] = "none" THEN 0 ELSE Older(age.context[c], Ttl)],
               journal |-> [c \in Correlations |-> [f \in Files |->
                              IF HasLines(c, f) THEN Older(age.journal[c][f], Grace) ELSE 0]],
               lock |-> [c \in Correlations |->
                              IF c \in lock_file THEN Older(age.lock[c], Grace) ELSE 0]]
    /\ gap_age' = IF "registration" \in gap THEN Older(gap_age, Grace) ELSE 0
    /\ UNCHANGED <<producers, directory, rows, gap, history, up, sweeper, call, faults>>

\* The daemon dies; files, ledger and producers stay.
Crash ==
    /\ up /\ Fault("crash")
    /\ up' = FALSE
    /\ SweepEnds
    /\ call' = [c \in Correlations |->
                  IF call[c].pc = "none" THEN NoCall ELSE [NoCall EXCEPT !.pc = "over"]]
    /\ UNCHANGED <<producers, directory, age, rows, coverage>>

\* The new daemon may come with a new engine: receipts of the processes so far are
\* then those of an earlier build.
Restart(upgraded) ==
    /\ ~up /\ up' = TRUE
    /\ old' = IF upgraded THEN {p \in Processes : pc[p] # "idle"} ELSE old
    /\ UNCHANGED <<route, corr, pc, next, lost, stray, written, directory, age, rows, coverage,
                   sweeper, call, faults>>

-----------------------------------------------------------------------------

Commands ==
    \/ \E c \in Correlations :
           Register(c) \/ RegisterGap(c) \/ RunUnregistered(c) \/ StartCall(c) \/ Complete(c)
    \/ \E p \in Processes, c \in Correlations : Start(p, c)
    \/ \E p \in Processes : OpenJournal(p) \/ WriteReceipt(p) \/ Exit(p)
    \/ \E p \in Processes, b \in BOOLEAN :
           AppendFails(p, b) \/ Signal(p, b) \/ KilledWriting(p, b)

SweepStep ==
    \/ SweepStart
    \/ \E c \in Correlations : RetireCompleted(c) \/ RetireAbandoned(c) \/ KeepOpen(c)
    \/ \E c \in Correlations : ContextVanished(c) \/ ReadContext(c)
    \/ DrainNothing \/ DrainReady \/ DrainRejects
    \/ \E r \in Receipts : RecordReceipt(r) \/ RecordOrphan(r)
    \/ Acknowledge \/ RecoverGap \/ Quarantine \/ ReportRejected \/ CloseRejected
    \/ FindOrphans
    \/ \E c \in Correlations : SkipOrphan(c) \/ OrphanReady(c) \/ OrphanRejects(c)
    \/ ReportOrphan \/ RenameOrphan \/ AcknowledgeOrphan \/ CleanOrphan \/ SweepLocks

CallStep(c) ==
    \/ CallUnaccounted(c) \/ CallReady(c) \/ CallRecorded(c) \/ CallAcknowledge(c)
    \/ \E r \in Receipts : CallRecord(c, r)

Next ==
    \/ Commands
    \/ SweepStep \/ RecordFails \/ RecordOrphanFails
    \/ \E c \in Correlations : CallStep(c) \/ CallRecordFails(c) \/ CallDropped(c)
    \/ Tick \/ Crash
    \/ \E b \in BOOLEAN : Restart(b)

Spec == Init /\ [][Next]_vars

\* run sweeps for ever, an append ends, time passes and a daemon that died is started
\* again.  Nothing is assumed of the commands, the hosts and the callers.
LiveSpec ==
    /\ Spec
    /\ WF_vars(SweepStep) /\ WF_vars(Tick)
    /\ WF_vars(\E b \in BOOLEAN : Restart(b))
    /\ \A p \in Processes : WF_vars(WriteReceipt(p))

-----------------------------------------------------------------------------
(* Properties *)

InJournal(r) == \E c \in Correlations, f \in Files : r \in journal[c][f]
InRejected(r) == \E c \in Correlations, f \in Files : r \in rejected[c][f]

\* Not recorded for good: a rejected journal keeps its receipts only until the next one
\* of its command is renamed over it.
SetAside(r) == InRejected(r) \/ r \in overwritten

\* A receipt whose append returned is in a journal, was set aside with a rejected one, or
\* the ledger has a row for its operation and sequence: no rotation, drain,
\* acknowledgement, crash, failed insert or failed rename between the two loses it.  What
\* is lost is only what a later rejection of the same command overwrites.
KeyKept == \A r \in written : InJournal(r) \/ SetAside(r) \/ Recorded(r)

\* No drain rotates a journal away under an append: the locks see to it, and where a sweep
\* unlinked the lock file under its holder, it is done with that command, and the next
\* one comes when the append is over (SweepStart).
RotationWaits ==
    [][\A c \in Correlations, p \in Processes :
           /\ journal'[c]["pending"] # {} /\ journal[c]["pending"] = {}
           => ~(corr[p] = c /\ pc[p] = "writing")]_vars

\* A rejected orphan is never renamed away silently: a gap of its family is open, or
\* was and a later orphan closed it.
OrphanRejectionReported ==
    orphan_rejected => "orphan_receipt_rejected" \in gap \cup history

\* The ledger forgets who ran a command only once its registration is gone: the orphan
\* pass records nothing of a correlation with a context, however old its listing is.
AttributionKept ==
    [][\A r \in Receipts : rows'[r]["unattributed"] > rows[r]["unattributed"]
           => context[corr[r[1]]] = "none"]_vars

\* Every receipt comes to its end: its operation and sequence get their row, or its
\* journal is rejected, whatever became of its registration, its call or the daemon.
ReceiptsSettle ==
    \A r \in Receipts : r \in written ~> Recorded(r) \/ SetAside(r)

\* Every receipt whose append returned is counted, if its journal is not rejected.
EveryReceiptCounted == \A r \in written : InJournal(r) \/ SetAside(r) \/ HasRow(r)

=============================================================================
