------------------------------ MODULE ExecJobs ------------------------------
(***************************************************************************)
(* The durable command jobs of hzrd (crates/hzr-daemon/src/exec_jobs.rs,   *)
(* exec_jobs/retention.rs, exec_jobs/receipts.rs, exec_jobs/output.rs).    *)
(*                                                                         *)
(* A client names every command by an operation id and may send start,     *)
(* wait and cancel for it any number of times, in any order.  The daemon   *)
(* keeps one JSON record per id, an optional output directory, and, once   *)
(* the record has been reclaimed, a compact receipt in SQLite.  Every      *)
(* handler runs under the mutex on the table of active jobs; the spawned   *)
(* jobs, the clock, crashes and power losses interleave with it.           *)
(***************************************************************************)
EXTENDS Integers, FiniteSets

CONSTANTS
    Ids,            \* operation ids
    Workspaces,     \* canonical workspace directories
    Hashes,         \* request hashes
    NoHash,         \* the empty hash of a cancellation tombstone
    NoRecord,       \* no record, or no receipt
    NoId,           \* nobody reads output
    NoOp,           \* no admission is in progress
    MaxActive,      \* MAX_ACTIVE_JOBS
    MaxRecords,     \* MAX_RECORDS
    MaxUnits,       \* MAX_STORE_BYTES, in worst-case jobs (record and output)
    ReceiptSize,    \* how much of the registry the receipt of an id takes
    MaxReceiptSize, \* MAX_RECEIPT_BYTES, the page quota of the registry
    KeepRecent,     \* KEEP_RECENT_RECORDS
    Batch,          \* COMPACTION_BATCH
    Disruptions,    \* the kinds of failure that can happen
    MaxDisruptions  \* bound: how many of them, in all

\* The failures the code meets: the process dies; the machine loses power and
\* with it the directory updates that were not synchronised; the daemon is
\* restarted in order; a record write fails before the rename; it fails after
\* the rename, when the directory is synchronised; the receipt transaction
\* fails; a record or an output directory cannot be removed.
DisruptionKinds ==
    {"crash", "power", "shutdown", "write", "sync", "receipt", "unlink", "output"}

ASSUME ConstantsAssumption ==
    /\ NoHash \notin Hashes
    /\ NoId \notin Ids
    /\ MaxActive \in Nat \ {0} /\ MaxRecords \in Nat \ {0} /\ MaxUnits \in Nat \ {0}
    /\ ReceiptSize \in [Ids -> Nat] /\ MaxReceiptSize \in Nat
    /\ KeepRecent \in Nat /\ Batch \in Nat \ {0}
    /\ Disruptions \subseteq DisruptionKinds
    /\ MaxDisruptions \in Nat

Terminal == {"Completed", "Failed", "Cancelled", "Interrupted"}

\* JobRecord with its ExecJobSnapshot.  `outcome` tells apart what the
\* properties need: a result held in the record, a result spilled to the output
\* directory, an approval request, a command that was not started, or, with the
\* error execution_result_expired, nothing any more.  `at` is the file's mtime.
Record == [ws: Workspaces, hash: Hashes \cup {NoHash},
           state: Terminal \cup {"Running"}, rev: Nat,
           outcome: {"none", "inline", "spilled", "ask", "refused", "expired"},
           at: Nat]

ASSUME NoRecordAssumption == NoRecord \notin Record

\* An admission under the mutex: the request, the files still to be examined
\* by the reclamation, the batch being removed, and whether bytes are short.
Admission == [kind: {"start", "cancel"}, id: Ids, ws: Workspaces,
              hash: Hashes \cup {NoHash}, step: {"scan", "unlink", "write"},
              list: SUBSET Ids, batch: SUBSET Ids, full: BOOLEAN, pressure: BOOLEAN]

ASSUME NoOpAssumption == NoOp \notin Admission

VARIABLES
    \* The execution store
    recs,       \* the JSON records, as the file system shows them
    survivors,  \* for each id, the contents a power loss may leave behind
    receipts,   \* the committed replay receipts
    outputs,    \* ids that have an output directory
    clock,      \* number of record files written
    horizon,    \* files with an mtime up to here are older than RESULT_GRACE
    \* The daemon process
    mode,       \* "down", "boot", "up" or "drain"
    phase,      \* how far the spawned task of an id has come
    job,        \* the copy of the record the spawned task owns
    result,     \* what execute_command returned to the task
    cancelled,  \* active ids whose cancellation was sent
    approvals,  \* ids whose approval request is pending in the ApprovalStore
    op,         \* the admission that holds the mutex
    reader,     \* the id whose output is being read under the mutex
    \* History
    execs,      \* how often the command of an id was started
    seen,       \* the newest snapshot a client has been given
    disruptions \* how many failures happened

store == <<recs, survivors, receipts, outputs, clock>>
tasks == <<phase, job, result>>
vars == <<recs, survivors, receipts, outputs, clock, horizon, mode, phase, job,
          result, cancelled, approvals, op, reader, execs, seen, disruptions>>

Unseen == [state |-> "none", rev |-> 0]

TypeOK ==
    /\ recs \in [Ids -> Record \cup {NoRecord}]
    /\ survivors \in [Ids -> SUBSET (Record \cup {NoRecord})]
    /\ receipts \in [Ids -> Record \cup {NoRecord}]
    /\ outputs \subseteq Ids
    /\ clock \in Nat /\ horizon \in Nat
    /\ mode \in {"down", "boot", "up", "drain"}
    /\ phase \in [Ids -> {"none", "queued", "cleared", "running", "done"}]
    /\ job \in [Ids -> Record \cup {NoRecord}]
    /\ result \in [Ids -> {"none", "inline", "spilled", "ask", "refused", "error"}]
    /\ cancelled \subseteq Ids /\ approvals \subseteq Ids
    /\ op \in Admission \cup {NoOp}
    /\ reader \in Ids \cup {NoId}
    /\ execs \in [Ids -> Nat]
    /\ seen \in [Ids -> [state: Terminal \cup {"Running", "none"}, rev: Nat]]
    /\ disruptions \in 0..MaxDisruptions

Init ==
    /\ recs = [i \in Ids |-> NoRecord]
    /\ survivors = [i \in Ids |-> {NoRecord}]
    /\ receipts = [i \in Ids |-> NoRecord]
    /\ outputs = {} /\ clock = 0 /\ horizon = 0
    /\ mode = "up"
    /\ phase = [i \in Ids |-> "none"]
    /\ job = [i \in Ids |-> NoRecord]
    /\ result = [i \in Ids |-> "none"]
    /\ cancelled = {} /\ approvals = {}
    /\ op = NoOp /\ reader = NoId
    /\ execs = [i \in Ids |-> 0]
    /\ seen = [i \in Ids |-> Unseen]
    /\ disruptions = 0

-----------------------------------------------------------------------------
(* Reading and writing the store *)

Active == {i \in Ids : phase[i] # "none"}
Stored == {i \in Ids : recs[i] # NoRecord}

\* The mutex on the table of active jobs is free.
LockFree == op = NoOp /\ reader = NoId

Disrupt(kind) ==
    /\ kind \in Disruptions
    /\ disruptions < MaxDisruptions
    /\ disruptions' = disruptions + 1

\* Mutant: receipts are written but not consulted.
ReadRecordWithoutReceipt(id) == recs[id]

\* read_record: the full record, else the receipt.
ReadRecord(id) == IF recs[id] # NoRecord THEN recs[id] ELSE receipts[id]

\* read_record fails when a full record contradicts its receipt.
Readable(id) ==
    (recs[id] # NoRecord /\ receipts[id] # NoRecord) =>
        (recs[id].ws = receipts[id].ws /\ recs[id].hash = receipts[id].hash)

SyncDirectory == survivors' = [i \in Ids |-> {recs'[i]}]

\* write_record: temporary file, rename, directory sync.  `how` says where it
\* failed, if it did; a crash after the rename is an unsynced write and a crash.
WriteRecord(id, rec, how) ==
    \/ /\ how = "failed"
       /\ Disrupt("write")
       /\ UNCHANGED <<recs, survivors, clock>>
    \/ /\ how \in {"ok", "unsynced"}
       /\ clock' = clock + 1
       /\ recs' = [recs EXCEPT ![id] = [rec EXCEPT !.at = clock + 1]]
       /\ IF how = "ok"
          THEN SyncDirectory /\ UNCHANGED disruptions
          ELSE /\ survivors' = [survivors EXCEPT ![id] = @ \cup {recs'[id]}]
               /\ Disrupt("sync")

WriteOutcomes == {"ok", "unsynced", "failed"}

\* inactive_snapshot, the snapshot it returns: a running record without an
\* active job is interrupted.
InactiveSnapshot(id) ==
    LET rec == ReadRecord(id) IN
    IF rec.state = "Running" /\ id \notin Active
    THEN [rec EXCEPT !.state = "Interrupted", !.rev = rec.rev + 1]
    ELSE rec

\* inactive_snapshot, its effect, and the delivery of the snapshot.  A failed
\* write is only logged.
DeliverSnapshot(id) ==
    LET snapshot == InactiveSnapshot(id) IN
    /\ IF snapshot # ReadRecord(id)
       THEN \E how \in WriteOutcomes : WriteRecord(id, snapshot, how)
       ELSE UNCHANGED <<recs, survivors, clock, disruptions>>
    /\ seen' = [seen EXCEPT ![id] = [state |-> snapshot.state, rev |-> snapshot.rev]]

-----------------------------------------------------------------------------
(* start, wait and cancel *)

\* start for an id that is known: the stored snapshot is delivered, whatever
\* became of it, if workspace and request agree; the command is not run again.
StartKnown(id, ws, hash) ==
    /\ mode = "up" /\ LockFree
    /\ Readable(id)
    /\ ReadRecord(id) # NoRecord
    /\ ReadRecord(id).ws = ws
    /\ ReadRecord(id).hash \in {NoHash, hash}
    /\ DeliverSnapshot(id)
    /\ UNCHANGED <<receipts, outputs, horizon, mode, tasks, cancelled, approvals,
                   op, reader, execs>>

\* wait, one turn of its loop; a cancel of a known id ends in the same wait.
Wait(id, ws) ==
    /\ mode = "up" /\ LockFree
    /\ Readable(id)
    /\ ReadRecord(id) # NoRecord
    /\ ReadRecord(id).ws = ws
    /\ DeliverSnapshot(id)
    /\ UNCHANGED <<receipts, outputs, horizon, mode, tasks, cancelled, approvals,
                   op, reader, execs>>

\* cancel of a known id: its job is signalled if it is active.
CancelKnown(id, ws) ==
    /\ mode = "up" /\ LockFree
    /\ Readable(id)
    /\ ReadRecord(id) # NoRecord
    /\ ReadRecord(id).ws = ws
    /\ id \in Active
    /\ cancelled' = cancelled \cup {id}
    /\ UNCHANGED <<store, horizon, mode, tasks, approvals, op, reader, execs, seen,
                   disruptions>>

\* Mutant: no room is kept for the job being admitted.
BytesShortForOthers == Cardinality(outputs) + Cardinality(Active) > MaxUnits

\* Usage::fits.  An output directory counts as one worst-case job, and so does
\* every active job and the one to be admitted; the bytes of the records and of
\* the registry, small beside them, are not counted.
BytesShort == Cardinality(outputs) + Cardinality(Active) + 1 > MaxUnits
Fits == Cardinality(Stored) < MaxRecords /\ ~BytesShort

\* A file is old enough to be reclaimed.
Aged(id) == recs[id].at <= horizon

\* Mutant: one more than KEEP_RECENT records is kept.
ReclaimableOffByOne ==
    {i \in Stored :
        /\ Aged(i)
        /\ BytesShort \/ Cardinality({j \in Stored : recs[j].at > recs[i].at}) > KeepRecent}

\* The files reserve_record_capacity looks at: of all records, or of all but
\* the newest KEEP_RECENT, the ones older than the grace period.
Reclaimable ==
    {i \in Stored :
        /\ Aged(i)
        /\ BytesShort \/ Cardinality({j \in Stored : recs[j].at > recs[i].at}) >= KeepRecent}

\* Mutant: a tombstone, having no request hash, does not bind the id.
AdmitOverTombstone(kind, id, ws, hash) ==
    /\ mode = "up" /\ LockFree
    /\ ReadRecord(id) # NoRecord => ReadRecord(id).hash = NoHash
    /\ kind = "start" => Cardinality(Active) < MaxActive
    /\ op' = [kind |-> kind, id |-> id, ws |-> ws, hash |-> hash,
              step |-> "write", list |-> {}, batch |-> {}, full |-> FALSE,
              pressure |-> FALSE]
    /\ UNCHANGED <<store, horizon, mode, tasks, cancelled, approvals, reader, execs,
                   seen, disruptions>>

\* An unknown id is admitted: start needs a free slot, both need room.
Admit(kind, id, ws, hash) ==
    /\ mode = "up" /\ LockFree
    /\ ReadRecord(id) = NoRecord
    /\ kind = "start" => Cardinality(Active) < MaxActive
    /\ op' = [kind |-> kind, id |-> id, ws |-> ws, hash |-> hash,
              step |-> IF Fits THEN "write" ELSE "scan",
              list |-> IF Fits THEN {} ELSE Reclaimable,
              batch |-> {}, full |-> FALSE, pressure |-> BytesShort]
    /\ UNCHANGED <<store, horizon, mode, tasks, cancelled, approvals, reader, execs,
                   seen, disruptions>>

Start(id, ws, hash) == Admit("start", id, ws, hash)
CancelUnknown(id, ws) == Admit("cancel", id, ws, NoHash)

-----------------------------------------------------------------------------
(* Reclamation under the mutex *)

\* Mutant: reclamation does not ask whether an approval is pending.
EligibleDespiteApproval(list) == {i \in list : recs[i].state # "Running"}

\* Terminal records without a live approval.
Eligible(list) ==
    {i \in list : recs[i].state # "Running" /\ ~(recs[i].outcome = "ask" /\ i \in approvals)}

\* The oldest of the eligible files, at most one batch of them.
NextBatch(list) ==
    {i \in Eligible(list) :
        Cardinality({j \in Eligible(list) : recs[j].at < recs[i].at}) < Batch}

\* Mutants: the receipt forgets the request hash; it restarts the revision.
ExpiredWithoutHash(rec) ==
    [rec EXCEPT !.hash = NoHash, !.outcome = "expired", !.rev = rec.rev + 1, !.at = 0]
ExpiredFromStart(rec) ==
    [rec EXCEPT !.outcome = "expired", !.rev = 1, !.at = 0]

\* What a reclaimed record leaves behind.
Expired(rec) ==
    [rec EXCEPT !.outcome = "expired", !.rev = rec.rev + 1, !.at = 0]

\* ReceiptStore::store refuses a receipt that contradicts the stored one.
Conflicts(id) ==
    LET rec == Expired(recs[id]) IN
    /\ receipts[id] # NoRecord
    /\ \/ receipts[id].ws # rec.ws
       \/ receipts[id].hash # rec.hash
       \/ receipts[id].state # rec.state
       \/ receipts[id].rev # rec.rev

\* Receipts are never discarded: the registry takes those of a batch, which may
\* already be in it, while its page quota lasts.
ReceiptsFit(batch) ==
    LET kept == {i \in Ids : receipts[i] # NoRecord} \cup batch
    IN  Cardinality(UNION {{i} \X (1..ReceiptSize[i]) : i \in kept}) <= MaxReceiptSize

AdmissionFails == op' = NoOp

\* compact, first half: the receipts of a batch are committed, all or none.
CommitReceipts ==
    /\ op # NoOp /\ op.step = "scan"
    /\ Eligible(op.list) # {}
    /\ LET batch == NextBatch(op.list) IN
       \/ /\ \A i \in batch : ~Conflicts(i)
          /\ ReceiptsFit(batch)
          /\ receipts' = [i \in Ids |-> IF i \in batch /\ receipts[i] = NoRecord
                                        THEN Expired(recs[i]) ELSE receipts[i]]
          /\ op' = [op EXCEPT !.step = "unlink", !.batch = batch,
                              !.full = Cardinality(batch) = Batch,
                              !.list = {i \in op.list \ batch :
                                            \A j \in batch : recs[j].at < recs[i].at}]
          /\ UNCHANGED disruptions
       \/ /\ (\E i \in batch : Conflicts(i)) \/ ~ReceiptsFit(batch)
          /\ AdmissionFails
          /\ UNCHANGED <<receipts, disruptions>>
       \/ /\ Disrupt("receipt")
          /\ AdmissionFails
          /\ UNCHANGED receipts
    /\ UNCHANGED <<recs, survivors, outputs, clock, horizon, mode, tasks, cancelled,
                   approvals, reader, execs, seen>>

\* compact, second half, file by file: the record is removed, and after it the
\* output directory.  An error ends the admission without a directory sync.
UnlinkRecord(id) ==
    /\ op # NoOp /\ op.step = "unlink"
    /\ id \in op.batch
    /\ op.batch \subseteq Stored
    /\ \/ /\ recs' = [recs EXCEPT ![id] = NoRecord]
          /\ survivors' = [survivors EXCEPT ![id] = @ \cup {NoRecord}]
          /\ UNCHANGED <<op, disruptions>>
       \/ /\ Disrupt("unlink")
          /\ AdmissionFails
          /\ UNCHANGED <<recs, survivors>>
    /\ UNCHANGED <<receipts, outputs, clock, horizon, mode, tasks, cancelled,
                   approvals, reader, execs, seen>>

\* Mutant: the output goes before the record that points to it.
RemoveOutputFirst(id) ==
    /\ op # NoOp /\ op.step = "unlink"
    /\ id \in op.batch
    /\ outputs' = outputs \ {id}
    /\ op' = [op EXCEPT !.batch = IF id \in Stored THEN @ ELSE @ \ {id}]
    /\ UNCHANGED <<recs, survivors, receipts, clock, horizon, mode, tasks, cancelled,
                   approvals, reader, execs, seen, disruptions>>

RemoveOutput(id) ==
    /\ op # NoOp /\ op.step = "unlink"
    /\ id \in op.batch \ Stored
    /\ \/ /\ outputs' = outputs \ {id}
          /\ op' = [op EXCEPT !.batch = @ \ {id}]
          /\ UNCHANGED disruptions
       \/ /\ id \in outputs
          /\ Disrupt("output")
          /\ AdmissionFails
          /\ UNCHANGED outputs
    /\ UNCHANGED <<recs, survivors, receipts, clock, horizon, mode, tasks, cancelled,
                   approvals, reader, execs, seen>>

\* compact ends with a directory sync; under byte pressure a full batch that
\* made room ends the reclamation.
FinishBatch ==
    /\ op # NoOp /\ op.step = "unlink"
    /\ op.batch = {}
    /\ UNCHANGED recs
    /\ \/ /\ SyncDirectory
          /\ op' = [op EXCEPT !.step = IF op.full /\ op.pressure /\ Fits
                                       THEN "write" ELSE "scan"]
          /\ UNCHANGED disruptions
       \/ /\ Disrupt("sync")
          /\ AdmissionFails
          /\ UNCHANGED survivors
    /\ UNCHANGED <<receipts, outputs, clock, horizon, mode, tasks, cancelled,
                   approvals, reader, execs, seen>>

\* Nothing is left to reclaim: there is room now, or the request is refused.
FinishScan ==
    /\ op # NoOp /\ op.step = "scan"
    /\ Eligible(op.list) = {}
    /\ IF Fits THEN op' = [op EXCEPT !.step = "write"] ELSE AdmissionFails
    /\ UNCHANGED <<store, horizon, mode, tasks, cancelled, approvals, reader, execs,
                   seen, disruptions>>

\* start persists the running record and then spawns the job; cancel persists a
\* tombstone.  If the record cannot be persisted no job is spawned.
NewRecord ==
    [ws |-> op.ws, hash |-> op.hash,
     state |-> IF op.kind = "start" THEN "Running" ELSE "Cancelled",
     rev |-> 1, outcome |-> "none", at |-> 0]

\* Mutant: the job is spawned although the directory sync failed.
PersistNewUnsynced ==
    /\ op # NoOp /\ op.step = "write"
    /\ \E how \in WriteOutcomes :
        /\ WriteRecord(op.id, NewRecord, how)
        /\ IF op.kind = "start" /\ how # "failed"
           THEN /\ phase' = [phase EXCEPT ![op.id] = "queued"]
                /\ job' = [job EXCEPT ![op.id] = NewRecord]
                /\ seen' = [seen EXCEPT ![op.id] = [state |-> "Running", rev |-> 1]]
           ELSE UNCHANGED <<phase, job, seen>>
    /\ op' = NoOp
    /\ UNCHANGED <<receipts, outputs, horizon, mode, result, cancelled, approvals,
                   reader, execs>>

PersistNew ==
    /\ op # NoOp /\ op.step = "write"
    /\ \E how \in WriteOutcomes :
        /\ WriteRecord(op.id, NewRecord, how)
        /\ IF op.kind = "start" /\ how = "ok"
           THEN /\ phase' = [phase EXCEPT ![op.id] = "queued"]
                /\ job' = [job EXCEPT ![op.id] = NewRecord]
                /\ seen' = [seen EXCEPT ![op.id] = [state |-> "Running", rev |-> 1]]
           ELSE UNCHANGED <<phase, job, seen>>
    /\ op' = NoOp
    /\ UNCHANGED <<receipts, outputs, horizon, mode, result, cancelled, approvals,
                   reader, execs>>

-----------------------------------------------------------------------------
(* The spawned job: execute_command, then the completion under the mutex *)

SetTask(id, ph, res) ==
    /\ phase' = [phase EXCEPT ![id] = ph]
    /\ result' = [result EXCEPT ![id] = res]

\* The command is not started: the policy asks, denies or fails, the job is
\* already cancelled, or its preparation fails.
NotStarted(id) ==
    /\ mode \in {"up", "drain"}
    /\ phase[id] \in {"queued", "cleared"}
    /\ \/ /\ phase[id] = "queued"
          /\ SetTask(id, "done", "ask")
          /\ approvals' = approvals \cup {id}
       \/ /\ \/ SetTask(id, "done", "error")
             \/ phase[id] = "queued" /\ SetTask(id, "done", "refused")
          /\ UNCHANGED approvals
    /\ UNCHANGED <<store, horizon, mode, job, cancelled, op, reader, execs, seen,
                   disruptions>>

\* execute_command looks at the cancellation once before the process exists.
PassCancellationCheck(id) ==
    /\ mode \in {"up", "drain"}
    /\ phase[id] = "queued"
    /\ id \notin cancelled
    /\ SetTask(id, "cleared", "none")
    /\ UNCHANGED <<store, horizon, mode, job, cancelled, approvals, op, reader,
                   execs, seen, disruptions>>

Spawn(id) ==
    /\ mode \in {"up", "drain"}
    /\ phase[id] = "cleared"
    /\ SetTask(id, "running", "none")
    /\ execs' = [execs EXCEPT ![id] = @ + 1]
    /\ UNCHANGED <<store, horizon, mode, job, cancelled, approvals, op, reader,
                   seen, disruptions>>

\* The process ends by itself, by its timeout or by cancellation; large output
\* was spilled to the directory of the id.
ProcessEnds(id) ==
    /\ mode \in {"up", "drain"}
    /\ phase[id] = "running"
    /\ \/ SetTask(id, "done", "inline") /\ UNCHANGED outputs
       \/ SetTask(id, "done", "spilled") /\ outputs' = outputs \cup {id}
       \/ SetTask(id, "done", "error") /\ UNCHANGED outputs
    /\ UNCHANGED <<recs, survivors, receipts, clock, horizon, mode, job, cancelled,
                   approvals, op, reader, execs, seen, disruptions>>

\* Mutant: the error of a failed job is stored as its outcome.
CompletedRecordWithError(id) ==
    [job[id] EXCEPT
        !.rev = job[id].rev + 1,
        !.state = IF result[id] = "error" THEN "Failed"
                  ELSE IF id \in cancelled THEN "Cancelled" ELSE "Completed",
        !.outcome = result[id]]

CompletedRecord(id) ==
    [job[id] EXCEPT
        !.rev = job[id].rev + 1,
        !.state = IF result[id] = "error" THEN "Failed"
                  ELSE IF id \in cancelled THEN "Cancelled" ELSE "Completed",
        !.outcome = IF result[id] = "error" THEN "none" ELSE result[id]]

\* Mutant: a failed write returns early, before the job leaves the table.
CompleteOrReturn(id) ==
    /\ mode \in {"up", "drain"} /\ LockFree
    /\ phase[id] = "done"
    /\ \E how \in WriteOutcomes :
        /\ WriteRecord(id, CompletedRecord(id), how)
        /\ phase' = [phase EXCEPT ![id] = IF how = "failed" THEN "stuck" ELSE "none"]
    /\ job' = [job EXCEPT ![id] = NoRecord]
    /\ result' = [result EXCEPT ![id] = "none"]
    /\ cancelled' = cancelled \ {id}
    /\ UNCHANGED <<receipts, outputs, horizon, mode, approvals, op, reader, execs,
                   seen>>

\* The completion is written and the job leaves the table, written or not.
Complete(id) ==
    /\ mode \in {"up", "drain"} /\ LockFree
    /\ phase[id] = "done"
    /\ \E how \in WriteOutcomes : WriteRecord(id, CompletedRecord(id), how)
    /\ phase' = [phase EXCEPT ![id] = "none"]
    /\ job' = [job EXCEPT ![id] = NoRecord]
    /\ result' = [result EXCEPT ![id] = "none"]
    /\ cancelled' = cancelled \ {id}
    /\ UNCHANGED <<receipts, outputs, horizon, mode, approvals, op, reader, execs,
                   seen>>

-----------------------------------------------------------------------------
(* Approvals, output readers and time *)

\* exec_approval takes the approval, once, and runs the command.
Approve(id) ==
    /\ mode = "up"
    /\ id \in approvals
    /\ approvals' = approvals \ {id}
    /\ execs' = [execs EXCEPT ![id] = @ + 1]
    /\ UNCHANGED <<store, horizon, mode, tasks, cancelled, op, reader, seen,
                   disruptions>>

\* A pending approval expires or is evicted by a newer one.
ApprovalLapses(id) ==
    /\ id \in approvals
    /\ approvals' = approvals \ {id}
    /\ UNCHANGED <<store, horizon, mode, tasks, cancelled, op, reader, execs, seen,
                   disruptions>>

\* read_page holds the mutex from the lookup to the end of the hashing.
ReadOutputBegin(id, ws) ==
    /\ mode = "up" /\ LockFree
    /\ Readable(id)
    /\ recs[id] # NoRecord
    /\ recs[id].ws = ws
    /\ recs[id].state # "Running"
    /\ recs[id].outcome = "spilled"
    /\ id \in outputs
    /\ reader' = id
    /\ UNCHANGED <<store, horizon, mode, tasks, cancelled, approvals, op, execs,
                   seen, disruptions>>

ReadOutputEnd ==
    /\ reader # NoId
    /\ reader' = NoId
    /\ UNCHANGED <<store, horizon, mode, tasks, cancelled, approvals, op, execs,
                   seen, disruptions>>

\* Files grow older than the grace period, oldest first.
GracePasses ==
    /\ horizon < clock
    /\ horizon' \in (horizon + 1)..clock
    /\ UNCHANGED <<store, mode, tasks, cancelled, approvals, op, reader, execs, seen,
                   disruptions>>

-----------------------------------------------------------------------------
(* Shutdown, crash, power loss and restart *)

\* Everything in the memory of the process is gone.
LoseMemory ==
    /\ mode' = "down"
    /\ phase' = [i \in Ids |-> "none"]
    /\ job' = [i \in Ids |-> NoRecord]
    /\ result' = [i \in Ids |-> "none"]
    /\ cancelled' = {} /\ approvals' = {}
    /\ op' = NoOp /\ reader' = NoId

\* The server has stopped accepting requests; every active job is cancelled.
Shutdown ==
    /\ mode = "up" /\ LockFree
    /\ Disrupt("shutdown")
    /\ mode' = "drain"
    /\ cancelled' = Active
    /\ UNCHANGED <<store, horizon, tasks, approvals, op, reader, execs, seen>>

\* The process leaves, after the jobs have drained or after the grace of 5 s.
Exit ==
    /\ mode = "drain" /\ LockFree
    /\ LoseMemory
    /\ UNCHANGED <<store, horizon, execs, seen, disruptions>>

Crash ==
    /\ mode # "down"
    /\ Disrupt("crash")
    /\ LoseMemory
    /\ UNCHANGED <<store, horizon, execs, seen>>

\* Every file is left with one of the contents not yet ruled out by a sync.
PowerLoss ==
    /\ Disrupt("power")
    /\ LoseMemory
    /\ \E left \in [Ids -> UNION {survivors[i] : i \in Ids}] :
        /\ \A i \in Ids : left[i] \in survivors[i]
        /\ recs' = left
    /\ SyncDirectory
    /\ UNCHANGED <<receipts, outputs, clock, horizon, execs, seen>>

Boot ==
    /\ mode = "down"
    /\ mode' = "boot"
    /\ UNCHANGED <<store, horizon, tasks, cancelled, approvals, op, reader, execs,
                   seen, disruptions>>

\* Mutant: recovery runs a command that was interrupted.
BootReplay(id) ==
    /\ mode = "boot"
    /\ recs[id] # NoRecord
    /\ recs[id].state = "Running"
    /\ phase[id] = "none"
    /\ phase' = [phase EXCEPT ![id] = "queued"]
    /\ job' = [job EXCEPT ![id] = recs[id]]
    /\ mode' = "up"
    /\ UNCHANGED <<recs, survivors, receipts, outputs, clock, horizon, result,
                   cancelled, approvals, op, reader, execs, seen, disruptions>>

\* ExecJobs::new: a record that still says running is interrupted, never run;
\* if that cannot be persisted the daemon does not come up.
BootInterrupt(id) ==
    /\ mode = "boot"
    /\ recs[id] # NoRecord
    /\ recs[id].state = "Running"
    /\ \E how \in WriteOutcomes :
        /\ WriteRecord(id, [recs[id] EXCEPT !.state = "Interrupted",
                                            !.rev = recs[id].rev + 1], how)
        /\ mode' = IF how = "ok" THEN "boot" ELSE "down"
    /\ UNCHANGED <<receipts, outputs, horizon, tasks, cancelled, approvals, op,
                   reader, execs, seen>>

\* Output whose record was reclaimed.
Orphaned == {i \in outputs : recs[i] = NoRecord /\ receipts[i] # NoRecord}

\* recover_compaction: orphaned output is removed; then the daemon serves.  If a
\* directory cannot be removed the daemon does not come up.
BootFinish ==
    /\ mode = "boot"
    /\ \A i \in Stored : recs[i].state # "Running"
    /\ \/ /\ mode' = "up"
          /\ outputs' = outputs \ Orphaned
          /\ UNCHANGED disruptions
       \/ /\ mode' = "down"
          /\ \E removed \in SUBSET Orphaned :
                removed # Orphaned /\ outputs' = outputs \ removed
          /\ Disrupt("output")
    /\ UNCHANGED <<recs, survivors, receipts, clock, horizon, tasks, cancelled,
                   approvals, op, reader, execs, seen>>

-----------------------------------------------------------------------------
Request ==
    \E id \in Ids, ws \in Workspaces :
        \/ \E hash \in Hashes : StartKnown(id, ws, hash) \/ Start(id, ws, hash)
        \/ Wait(id, ws)
        \/ CancelKnown(id, ws)
        \/ CancelUnknown(id, ws)
        \/ ReadOutputBegin(id, ws)

Reclamation ==
    \/ CommitReceipts
    \/ \E id \in Ids : UnlinkRecord(id) \/ RemoveOutput(id)
    \/ FinishBatch
    \/ FinishScan

Job(id) ==
    \/ NotStarted(id)
    \/ PassCancellationCheck(id)
    \/ Spawn(id)
    \/ ProcessEnds(id)
    \/ Complete(id)

Environment ==
    \/ \E id \in Ids : Approve(id) \/ ApprovalLapses(id)
    \/ GracePasses
    \/ Shutdown
    \/ Crash
    \/ PowerLoss

Lifecycle ==
    \/ Exit
    \/ Boot
    \/ \E id \in Ids : BootInterrupt(id)
    \/ BootFinish

Next ==
    \/ Request
    \/ Reclamation
    \/ PersistNew
    \/ ReadOutputEnd
    \/ \E id \in Ids : Job(id)
    \/ Environment
    \/ Lifecycle

Spec == Init /\ [][Next]_vars

-----------------------------------------------------------------------------
(* Fairness: tokio runs every ready task; its mutex serves waiters in order,   *)
(* so a completion that waits for it again and again gets it; commands end by  *)
(* their timeout; the clock runs, approvals lapse; a client retries its start and   *)
(* polls its job.                                                              *)

Progress ==
    /\ \A id \in Ids : /\ WF_vars(Job(id) /\ phase[id] # "done")
                       /\ SF_vars(Complete(id))
    /\ WF_vars(Reclamation \/ PersistNew)
    /\ WF_vars(ReadOutputEnd)
    /\ WF_vars(Lifecycle)

Retries ==
    /\ WF_vars(GracePasses)
    /\ \A id \in Ids : WF_vars(ApprovalLapses(id))
    /\ \A id \in Ids :
        /\ SF_vars(\E ws \in Workspaces, hash \in Hashes : Start(id, ws, hash))
        /\ SF_vars(\E ws \in Workspaces : Wait(id, ws))

LiveSpec == Spec /\ Progress /\ Retries

-----------------------------------------------------------------------------
(* Properties *)

\* "Reusing the same ID never launches another command": whatever is retried,
\* cancelled, approved, lost or reclaimed, a command is started at most once.
AtMostOnce == \A i \in Ids : execs[i] <= 1

\* "A cancelled HTTP start may still arrive later. Its ID must never execute":
\* an id that has a cancellation tombstone, or the receipt of one, was not
\* executed and has no job that could.
TombstoneNeverRuns ==
    \A i \in Ids :
        (ReadRecord(i) # NoRecord /\ ReadRecord(i).hash = NoHash)
            => execs[i] = 0 /\ phase[i] = "none" /\ i \notin approvals

\* An id is bound, durably: neither a crash nor a power loss can make the
\* daemon forget it.
Bound(i) == receipts[i] # NoRecord \/ NoRecord \notin survivors[i]

\* "replay receipts are never discarded": an id that was executed, or may still
\* be, is durably bound, at every point of the reclamation and the recovery.
ExecutedStaysBound ==
    \A i \in Ids : (execs[i] > 0 \/ phase[i] # "none" \/ i \in approvals) => Bound(i)

\* "Execution operation IDs remain bound to their original workspace and request":
\* no step, reclamation and power loss included, frees a bound id or moves it to
\* another request; a tombstone stays one.
BindingStable ==
    [][\A i \in Ids : Bound(i) =>
          /\ ReadRecord(i)' # NoRecord
          /\ ReadRecord(i)'.ws = ReadRecord(i).ws
          /\ ReadRecord(i)'.hash = ReadRecord(i).hash]_vars

\* "Existing terminal states remain unchanged", and `deliver` never refuses the
\* revision a client was given: what a client would be told now never goes back
\* behind what one was told before, across failed writes, restart and expiry.
ClientNeverGoesBack ==
    \A i \in Ids : seen[i].state # "none" =>
        /\ ReadRecord(i) # NoRecord
        /\ seen[i].rev <= InactiveSnapshot(i).rev
        /\ seen[i].state \in Terminal => seen[i].state = InactiveSnapshot(i).state

\* The reservation of reserve_record_capacity is sound: what is spilled and what
\* the active jobs may still spill stays within the budget, and so does the
\* number of records.
QuotaRespected ==
    /\ Cardinality(outputs \cup Active) <= MaxUnits
    /\ Cardinality(Stored) <= MaxRecords
    /\ Cardinality(Active) <= MaxActive

\* A record that points to spilled output still has it: reclamation removes the
\* record first, and a restart finishes what a crash left half done.  "Output
\* readers hold a lease through the complete read and hash check, so reclamation
\* cannot remove a file they are reading": nor does the record of one go.
SpilledOutputKept ==
    /\ \A i \in Stored : recs[i].outcome = "spilled" => i \in outputs
    /\ reader # NoId => reader \in outputs /\ recs[reader] # NoRecord

\* "live approval capabilities remain protected": the record that carries a
\* pending approval is not removed while the daemon runs.
LiveApprovalKept ==
    [][\A i \in approvals :
          (recs[i] # NoRecord /\ recs[i].outcome = "ask" /\ mode' # "down")
              => recs'[i] = recs[i]]_vars

\* Every job that was admitted ends, and leaves the table of active jobs even if
\* its completion cannot be written.
JobsEnd == \A i \in Ids : phase[i] = "queued" ~> phase[i] = "none"

\* "Their database has a 256 MiB page quota; failure to retain an ID rejects
\* admission rather than allowing replay": an admission of the id that can go on
\* only by reclaiming records whose receipts no longer fit.
RegistryFull(i) ==
    /\ op # NoOp /\ op.id = i /\ op.step = "scan"
    /\ Eligible(op.list) # {}
    /\ ~ReceiptsFit(NextBatch(op.list))

\* "Execution history no longer permanently blocks `hzr exec` at 20,000 entries":
\* a start that is retried is admitted in the end, however full the store of
\* records is; only the quota of the receipt registry can keep it out.
EveryStartAdmitted == \A i \in Ids : <>(ReadRecord(i) # NoRecord \/ RegistryFull(i))

-----------------------------------------------------------------------------
\* The promise without the mechanism: see OnceOnly.  An id is spent when it is
\* durably bound and neither a job nor an approval can still start its command.
Spent == {i \in Ids : /\ Bound(i)
                      /\ phase[i] \notin {"queued", "cleared"}
                      /\ i \notin approvals}

Once == INSTANCE OnceOnly WITH spent <- Spent

\* The jobs implement the abstract specification.
OnceSpec == Once!Spec

=============================================================================
