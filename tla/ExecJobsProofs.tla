--------------------------- MODULE ExecJobsProofs ---------------------------
(***************************************************************************)
(* Proofs about ExecJobs for every set of ids, workspaces and requests,    *)
(* every limit and every number of failures.                               *)
(***************************************************************************)
EXTENDS ExecJobs, TLAPS

-----------------------------------------------------------------------------
(* Type correctness *)

\* A record written by WriteRecord is a record, however the write ends.
LEMMA WriteRecordType ==
    ASSUME TypeOK, NEW id \in Ids, NEW rec \in Record, NEW how \in WriteOutcomes,
           WriteRecord(id, rec, how)
    PROVE  /\ recs' \in [Ids -> Record \cup {NoRecord}]
           /\ survivors' \in [Ids -> SUBSET (Record \cup {NoRecord})]
           /\ clock' \in Nat
           /\ disruptions' \in 0..MaxDisruptions
<1>1. CASE how = "failed"
  BY <1>1, ConstantsAssumption DEF TypeOK, WriteRecord, Disrupt
<1>2. CASE how # "failed"
  <2>0. clock + 1 \in Nat
    BY DEF TypeOK
  <2>1. [rec EXCEPT !.at = clock + 1] \in Record
    BY <2>0 DEF Record
  <2>2. clock' \in Nat /\ recs' \in [Ids -> Record \cup {NoRecord}]
    BY <1>2, <2>1 DEF TypeOK, WriteRecord
  <2>3. survivors' \in [Ids -> SUBSET (Record \cup {NoRecord})]
    BY <1>2, <2>2 DEF TypeOK, WriteRecord, SyncDirectory
  <2>4. disruptions' \in 0..MaxDisruptions
    BY <1>2, ConstantsAssumption DEF TypeOK, WriteRecord, Disrupt
  <2>5. QED  BY <2>2, <2>3, <2>4
<1>3. QED  BY <1>1, <1>2

\* The snapshot that inactive_snapshot returns is a record.
LEMMA InactiveSnapshotType ==
    ASSUME TypeOK, NEW id \in Ids, ReadRecord(id) # NoRecord
    PROVE  InactiveSnapshot(id) \in Record
<1>1. ReadRecord(id) \in Record
  BY DEF TypeOK, ReadRecord
<1>2. ReadRecord(id).rev + 1 \in Nat
  BY <1>1 DEF Record
<1>3. QED  BY <1>1, <1>2 DEF InactiveSnapshot, Terminal, Record

\* Delivering a snapshot keeps the types of what it changes.
LEMMA DeliverSnapshotType ==
    ASSUME TypeOK, NEW id \in Ids, ReadRecord(id) # NoRecord, DeliverSnapshot(id)
    PROVE  /\ recs' \in [Ids -> Record \cup {NoRecord}]
           /\ survivors' \in [Ids -> SUBSET (Record \cup {NoRecord})]
           /\ clock' \in Nat
           /\ disruptions' \in 0..MaxDisruptions
           /\ seen' \in [Ids -> [state: Terminal \cup {"Running", "none"}, rev: Nat]]
<1> DEFINE snap == InactiveSnapshot(id)
<1>1. snap \in Record
  BY InactiveSnapshotType
<1>2. seen' \in [Ids -> [state: Terminal \cup {"Running", "none"}, rev: Nat]]
  <2>1. seen' = [seen EXCEPT ![id] = [state |-> snap.state, rev |-> snap.rev]]
    BY DEF DeliverSnapshot
  <2>2. [state |-> snap.state, rev |-> snap.rev]
            \in [state: Terminal \cup {"Running", "none"}, rev: Nat]
    BY <1>1 DEF Record
  <2>3. QED  BY <2>1, <2>2 DEF TypeOK
<1>3. CASE snap # ReadRecord(id)
  <2>1. PICK how \in WriteOutcomes : WriteRecord(id, snap, how)
    BY <1>3 DEF DeliverSnapshot
  <2>2. QED  BY <2>1, <1>1, <1>2, WriteRecordType
<1>4. CASE snap = ReadRecord(id)
  BY <1>2, <1>4 DEF DeliverSnapshot, TypeOK
<1>5. QED  BY <1>3, <1>4

\* What a reclaimed record leaves behind is a record.
LEMMA ExpiredType ==
    ASSUME NEW rec \in Record
    PROVE  Expired(rec) \in Record
<1>1. rec.rev + 1 \in Nat
  BY DEF Record
<1>2. QED  BY <1>1 DEF Expired, Record

\* The next batch consists of files the scan still has to look at.
LEMMA NextBatchInList ==
    ASSUME NEW list
    PROVE  NextBatch(list) \subseteq Eligible(list) /\ Eligible(list) \subseteq list
BY DEF NextBatch, Eligible

\* The record a start or a cancel creates is a record.
LEMMA NewRecordType ==
    ASSUME op \in Admission
    PROVE  NewRecord \in Record
BY DEF NewRecord, Admission, Record, Terminal

\* The record a finished job writes is a record.
LEMMA CompletedRecordType ==
    ASSUME TypeOK, NEW id \in Ids, job[id] # NoRecord, result[id] # "none"
    PROVE  CompletedRecord(id) \in Record
<1>1. job[id] \in Record
  BY DEF TypeOK
<1>2. job[id].rev + 1 \in Nat
  BY <1>1 DEF Record
<1>3. result[id] = "error" \/ result[id] \in {"inline", "spilled", "ask", "refused"}
  BY DEF TypeOK
<1>4. QED  BY <1>1, <1>2, <1>3 DEF CompletedRecord, Record, Terminal

-----------------------------------------------------------------------------
(* The inductive invariant *)

\* The copy of its record is with the task as long as there is one, and a task
\* that is done has a result.
TaskInv ==
    \A i \in Ids : /\ phase[i] # "none" <=> job[i] # NoRecord
                   /\ phase[i] = "done" => result[i] # "none"

\* What the file system shows is one of the contents that may survive, and an
\* id of which nothing is visible has left nothing that could come back.
DiskInv ==
    \A i \in Ids :
        /\ recs[i] \in survivors[i]
        /\ (recs[i] = NoRecord /\ receipts[i] = NoRecord) => survivors[i] = {NoRecord}

\* The admission that holds the mutex: its id is unknown, what it will look at
\* has a record, what it removes has a receipt, and only a start has a hash.
AdmissionInv ==
    op # NoOp =>
        /\ mode = "up"
        /\ ReadRecord(op.id) = NoRecord
        /\ op.list \subseteq Stored
        /\ op.list \cap op.batch = {}
        /\ \A i \in op.batch : receipts[i] # NoRecord
        /\ op.kind = "start" => op.hash # NoHash

\* Something may start the command of the id, or has.
Live(i) == execs[i] > 0 \/ phase[i] # "none" \/ i \in approvals

\* Of the right to start the command of an id, there is one at most: a job that
\* has not started it, an approval, or the start itself.
BudgetInv ==
    \A i \in Ids :
        /\ execs[i] \in {0, 1}
        /\ phase[i] \in {"queued", "cleared"} => execs[i] = 0 /\ i \notin approvals
        /\ i \in approvals => execs[i] = 0

\* Everything that the store, the receipts and the task hold of an id.
Contents(i) == (survivors[i] \cup {receipts[i], job[i]}) \ {NoRecord}

SameBinding(a, b) == a.ws = b.ws /\ a.hash = b.hash

\* All of it is bound to one workspace and one request, and if that is the
\* request of a tombstone nothing starts the command.
BindingInv ==
    \A i \in Ids :
        /\ \A a, b \in Contents(i) : SameBinding(a, b)
        /\ \A a \in Contents(i) : a.hash = NoHash => ~Live(i)

IInv == TypeOK /\ TaskInv /\ DiskInv /\ AdmissionInv /\ BudgetInv /\ ExecutedStaysBound
        /\ BindingInv

\* The initial state satisfies the invariant.
LEMMA InitInv == Init => IInv
<1> SUFFICES ASSUME Init PROVE IInv
  OBVIOUS
<1>1. TypeOK
  BY ConstantsAssumption DEF Init, TypeOK, Unseen
<1>2. TaskInv /\ DiskInv /\ AdmissionInv
  BY DEF Init, TaskInv, DiskInv, AdmissionInv
<1>3. BudgetInv /\ ExecutedStaysBound /\ BindingInv
  BY DEF Init, BudgetInv, ExecutedStaysBound, BindingInv, Contents
<1>4. QED  BY <1>1, <1>2, <1>3 DEF IInv

\* Every step keeps the types.
LEMMA TypeStep == IInv /\ [Next]_vars => TypeOK'
<1> SUFFICES ASSUME IInv, [Next]_vars PROVE TypeOK'
  OBVIOUS
<1> USE ConstantsAssumption
<1>0. TypeOK
  BY DEF IInv
<1>1. ASSUME NEW id \in Ids, NEW ws \in Workspaces, NEW hash \in Hashes,
             StartKnown(id, ws, hash)
      PROVE  TypeOK'
  BY <1>0, <1>1, DeliverSnapshotType DEF StartKnown, TypeOK, tasks
<1>2. ASSUME NEW id \in Ids, NEW ws \in Workspaces, Wait(id, ws)
      PROVE  TypeOK'
  BY <1>0, <1>2, DeliverSnapshotType DEF Wait, TypeOK, tasks
<1>3. ASSUME NEW id \in Ids, NEW ws \in Workspaces, CancelKnown(id, ws)
      PROVE  TypeOK'
  BY <1>0, <1>3 DEF CancelKnown, TypeOK, tasks, store
<1>4. ASSUME NEW kind \in {"start", "cancel"}, NEW id \in Ids, NEW ws \in Workspaces,
             NEW hash \in Hashes \cup {NoHash}, Admit(kind, id, ws, hash)
      PROVE  TypeOK'
  <2>1. (IF Fits THEN {} ELSE Reclaimable) \in SUBSET Ids
    BY DEF Reclaimable, Stored
  <2>2. BytesShort \in BOOLEAN
    BY DEF BytesShort
  <2>3. op' \in Admission
    BY <1>4, <2>1, <2>2 DEF Admit, Admission
  <2>4. QED  BY <1>0, <1>4, <2>3 DEF Admit, TypeOK, tasks, store
<1>5. ASSUME NEW id \in Ids, NEW ws \in Workspaces, ReadOutputBegin(id, ws)
      PROVE  TypeOK'
  BY <1>0, <1>5 DEF ReadOutputBegin, TypeOK, tasks, store
<1>6. CASE CommitReceipts
  <2> DEFINE batch == NextBatch(op.list)
  <2>1. op \in Admission
    BY <1>0, <1>6 DEF CommitReceipts, TypeOK
  <2>2. batch \subseteq op.list /\ op.list \subseteq Stored /\ op.list \subseteq Ids
    BY <1>6, <2>1, NextBatchInList DEF CommitReceipts, IInv, AdmissionInv, Admission
  <2>3. receipts' \in [Ids -> Record \cup {NoRecord}]
    <3>1. \A i \in batch : recs[i] \in Record
      BY <1>0, <2>2 DEF TypeOK, Stored
    <3>2. \A i \in batch : Expired(recs[i]) \in Record
      BY <3>1, ExpiredType
    <3>3. QED  BY <1>0, <1>6, <3>2 DEF CommitReceipts, TypeOK
  <2>4. op' \in Admission \cup {NoOp}
    <3>1. (Cardinality(batch) = Batch) \in BOOLEAN
      OBVIOUS
    <3>2. {i \in op.list \ batch : \A j \in batch : recs[j].at < recs[i].at} \in SUBSET Ids
      BY <2>2
    <3>3. batch \in SUBSET Ids
      BY <2>2
    <3>4. QED  BY <1>6, <2>1, <3>1, <3>2, <3>3 DEF CommitReceipts, AdmissionFails, Admission
  <2>5. disruptions' \in 0..MaxDisruptions
    BY <1>0, <1>6 DEF CommitReceipts, TypeOK, Disrupt
  <2>6. QED  BY <1>0, <1>6, <2>3, <2>4, <2>5 DEF CommitReceipts, TypeOK, tasks
<1>7. ASSUME NEW id \in Ids, UnlinkRecord(id)
      PROVE  TypeOK'
  <2>1. recs' \in [Ids -> Record \cup {NoRecord}]
    BY <1>0, <1>7 DEF UnlinkRecord, TypeOK
  <2>2. survivors' \in [Ids -> SUBSET (Record \cup {NoRecord})]
    BY <1>0, <1>7 DEF UnlinkRecord, TypeOK
  <2>3. op' \in Admission \cup {NoOp} /\ disruptions' \in 0..MaxDisruptions
    BY <1>0, <1>7 DEF UnlinkRecord, TypeOK, AdmissionFails, Disrupt
  <2>4. QED  BY <1>0, <1>7, <2>1, <2>2, <2>3 DEF UnlinkRecord, TypeOK, tasks
<1>8. ASSUME NEW id \in Ids, RemoveOutput(id)
      PROVE  TypeOK'
  <2>1. op \in Admission
    BY <1>0, <1>8 DEF RemoveOutput, TypeOK
  <2>2. op' \in Admission \cup {NoOp}
    BY <1>8, <2>1 DEF RemoveOutput, AdmissionFails, Admission
  <2>3. QED  BY <1>0, <1>8, <2>2 DEF RemoveOutput, TypeOK, tasks, Disrupt
<1>9. CASE FinishBatch
  <2>1. op \in Admission
    BY <1>0, <1>9 DEF FinishBatch, TypeOK
  <2>2. op' \in Admission \cup {NoOp}
    BY <1>9, <2>1 DEF FinishBatch, AdmissionFails, Admission
  <2>3. QED  BY <1>0, <1>9, <2>2 DEF FinishBatch, TypeOK, tasks, SyncDirectory, Disrupt
<1>10. CASE FinishScan
  <2>1. op \in Admission
    BY <1>0, <1>10 DEF FinishScan, TypeOK
  <2>2. op' \in Admission \cup {NoOp}
    BY <1>10, <2>1 DEF FinishScan, AdmissionFails, Admission
  <2>3. QED  BY <1>0, <1>10, <2>2 DEF FinishScan, TypeOK, tasks, store
<1>11. CASE PersistNew
  <2>1. op \in Admission
    BY <1>0, <1>11 DEF PersistNew, TypeOK
  <2>2. NewRecord \in Record /\ op.id \in Ids
    BY <2>1, NewRecordType DEF Admission
  <2>3. PICK how \in WriteOutcomes : WriteRecord(op.id, NewRecord, how)
    BY <1>11 DEF PersistNew
  <2>4. /\ recs' \in [Ids -> Record \cup {NoRecord}]
        /\ survivors' \in [Ids -> SUBSET (Record \cup {NoRecord})]
        /\ clock' \in Nat
        /\ disruptions' \in 0..MaxDisruptions
    BY <1>0, <2>2, <2>3, WriteRecordType
  <2>5. /\ phase' \in [Ids -> {"none", "queued", "cleared", "running", "done"}]
        /\ job' \in [Ids -> Record \cup {NoRecord}]
    <3>1. \/ /\ phase' = [phase EXCEPT ![op.id] = "queued"]
             /\ job' = [job EXCEPT ![op.id] = NewRecord]
          \/ UNCHANGED <<phase, job>>
      BY <1>11 DEF PersistNew
    <3>2. phase' \in [Ids -> {"none", "queued", "cleared", "running", "done"}]
      BY <1>0, <2>2, <3>1 DEF TypeOK
    <3>3. job' \in [Ids -> Record \cup {NoRecord}]
      BY <1>0, <2>2, <3>1 DEF TypeOK
    <3>4. QED  BY <3>2, <3>3
  <2>6. seen' \in [Ids -> [state: Terminal \cup {"Running", "none"}, rev: Nat]]
    BY <1>0, <1>11, <2>2 DEF PersistNew, TypeOK
  <2>7. QED  BY <1>0, <1>11, <2>4, <2>5, <2>6 DEF PersistNew, TypeOK
<1>12. CASE ReadOutputEnd
  BY <1>0, <1>12 DEF ReadOutputEnd, TypeOK, tasks, store
<1>13. ASSUME NEW id \in Ids, NotStarted(id)
       PROVE  TypeOK'
  BY <1>0, <1>13 DEF NotStarted, SetTask, TypeOK, store
<1>14. ASSUME NEW id \in Ids, PassCancellationCheck(id)
       PROVE  TypeOK'
  BY <1>0, <1>14 DEF PassCancellationCheck, SetTask, TypeOK, store
<1>15. ASSUME NEW id \in Ids, Spawn(id)
       PROVE  TypeOK'
  BY <1>0, <1>15 DEF Spawn, SetTask, TypeOK, store
<1>16. ASSUME NEW id \in Ids, ProcessEnds(id)
       PROVE  TypeOK'
  BY <1>0, <1>16 DEF ProcessEnds, SetTask, TypeOK
<1>17. ASSUME NEW id \in Ids, Complete(id)
       PROVE  TypeOK'
  <2>1. CompletedRecord(id) \in Record
    BY <1>0, <1>17, CompletedRecordType DEF Complete, IInv, TaskInv
  <2>2. PICK how \in WriteOutcomes : WriteRecord(id, CompletedRecord(id), how)
    BY <1>17 DEF Complete
  <2>3. /\ recs' \in [Ids -> Record \cup {NoRecord}]
        /\ survivors' \in [Ids -> SUBSET (Record \cup {NoRecord})]
        /\ clock' \in Nat
        /\ disruptions' \in 0..MaxDisruptions
    BY <1>0, <2>1, <2>2, WriteRecordType
  <2>4. QED  BY <1>0, <1>17, <2>3 DEF Complete, TypeOK
<1>18. ASSUME NEW id \in Ids, Approve(id)
       PROVE  TypeOK'
  BY <1>0, <1>18 DEF Approve, TypeOK, tasks, store
<1>19. ASSUME NEW id \in Ids, ApprovalLapses(id)
       PROVE  TypeOK'
  BY <1>0, <1>19 DEF ApprovalLapses, TypeOK, tasks, store
<1>20. CASE GracePasses
  BY <1>0, <1>20 DEF GracePasses, TypeOK, tasks, store
<1>21. CASE Shutdown
  BY <1>0, <1>21 DEF Shutdown, TypeOK, tasks, store, Disrupt, Active
<1>22. CASE Crash
  BY <1>0, <1>22 DEF Crash, LoseMemory, TypeOK, store, Disrupt
<1>23. CASE PowerLoss
  <2>1. recs' \in [Ids -> Record \cup {NoRecord}]
    BY <1>0, <1>23 DEF PowerLoss, TypeOK
  <2>2. survivors' \in [Ids -> SUBSET (Record \cup {NoRecord})]
    BY <1>23, <2>1 DEF PowerLoss, SyncDirectory
  <2>3. QED  BY <1>0, <1>23, <2>1, <2>2 DEF PowerLoss, LoseMemory, TypeOK, Disrupt
<1>24. CASE Exit
  BY <1>0, <1>24 DEF Exit, LoseMemory, TypeOK, store
<1>25. CASE Boot
  BY <1>0, <1>25 DEF Boot, TypeOK, tasks, store
<1>26. ASSUME NEW id \in Ids, BootInterrupt(id)
       PROVE  TypeOK'
  <2> DEFINE rec == [recs[id] EXCEPT !.state = "Interrupted", !.rev = recs[id].rev + 1]
  <2>1. recs[id] \in Record
    BY <1>0, <1>26 DEF BootInterrupt, TypeOK
  <2>2. recs[id].rev + 1 \in Nat
    BY <2>1 DEF Record
  <2>3. rec \in Record
    BY <2>1, <2>2 DEF Record, Terminal
  <2>4. PICK how \in WriteOutcomes :
            WriteRecord(id, rec, how) /\ mode' = IF how = "ok" THEN "boot" ELSE "down"
    BY <1>26 DEF BootInterrupt
  <2>5. /\ recs' \in [Ids -> Record \cup {NoRecord}]
        /\ survivors' \in [Ids -> SUBSET (Record \cup {NoRecord})]
        /\ clock' \in Nat
        /\ disruptions' \in 0..MaxDisruptions
    BY <1>0, <2>3, <2>4, WriteRecordType
  <2>6. QED  BY <1>0, <1>26, <2>4, <2>5 DEF BootInterrupt, TypeOK, tasks
<1>27. CASE BootFinish
  <2>1. /\ mode' \in {"down", "up"} /\ outputs' \subseteq Ids
        /\ disruptions' \in 0..MaxDisruptions
    BY <1>0, <1>27 DEF BootFinish, TypeOK, Disrupt
  <2>2. QED  BY <1>0, <1>27, <2>1 DEF BootFinish, TypeOK, tasks
<1>28. CASE UNCHANGED vars
  BY <1>0, <1>28 DEF TypeOK, vars
<1>29. QED
  BY <1>1, <1>2, <1>3, <1>4, <1>5, <1>6, <1>7, <1>8, <1>9, <1>10, <1>11, <1>12, <1>13,
     <1>14, <1>15, <1>16, <1>17, <1>18, <1>19, <1>20, <1>21, <1>22, <1>23, <1>24, <1>25,
     <1>26, <1>27, <1>28
     DEF Next, Request, Start, CancelUnknown, Reclamation, Job, Environment, Lifecycle

-----------------------------------------------------------------------------
(* The store *)

\* What a write does to the visible and to the surviving contents.
LEMMA WriteEffect ==
    ASSUME TypeOK, DiskInv, NEW id \in Ids, NEW rec \in Record, NEW how \in WriteOutcomes,
           WriteRecord(id, rec, how)
    PROVE  /\ [rec EXCEPT !.at = clock + 1] \in Record
           /\ \A i \in Ids : recs'[i] \in survivors'[i]
           /\ \A i \in Ids \ {id} : recs'[i] = recs[i] /\ survivors'[i] \subseteq survivors[i]
           /\ survivors'[id] \subseteq survivors[id] \cup {[rec EXCEPT !.at = clock + 1]}
           /\ how # "failed" => recs'[id] = [rec EXCEPT !.at = clock + 1]
           /\ how = "failed" => recs' = recs /\ survivors' = survivors
           /\ how = "ok" => survivors'[id] = {[rec EXCEPT !.at = clock + 1]}
<1>1. clock + 1 \in Nat
  BY DEF TypeOK
<1>2. [rec EXCEPT !.at = clock + 1] \in Record
  BY <1>1 DEF Record
<1>3. CASE how = "failed"
  BY <1>2, <1>3 DEF WriteRecord, DiskInv
<1>4. CASE how = "ok"
  <2>1. recs' = [recs EXCEPT ![id] = [rec EXCEPT !.at = clock + 1]]
    BY <1>4 DEF WriteRecord
  <2>2. recs'[id] = [rec EXCEPT !.at = clock + 1] /\ \A i \in Ids \ {id} : recs'[i] = recs[i]
    BY <2>1 DEF TypeOK
  <2>3. \A i \in Ids : survivors'[i] = {recs'[i]}
    BY <1>4 DEF WriteRecord, SyncDirectory
  <2>4. \A i \in Ids : recs[i] \in survivors[i]
    BY DEF DiskInv
  <2>5. QED  BY <1>2, <1>4, <2>2, <2>3, <2>4
<1>5. CASE how = "unsynced"
  <2>1. recs' = [recs EXCEPT ![id] = [rec EXCEPT !.at = clock + 1]]
    BY <1>5 DEF WriteRecord
  <2>2. recs'[id] = [rec EXCEPT !.at = clock + 1] /\ \A i \in Ids \ {id} : recs'[i] = recs[i]
    BY <2>1 DEF TypeOK
  <2>3. survivors' = [survivors EXCEPT ![id] = @ \cup {recs'[id]}]
    BY <1>5 DEF WriteRecord
  <2>4. /\ survivors'[id] = survivors[id] \cup {[rec EXCEPT !.at = clock + 1]}
        /\ \A i \in Ids \ {id} : survivors'[i] = survivors[i]
    BY <2>2, <2>3 DEF TypeOK
  <2>5. \A i \in Ids : recs'[i] \in survivors'[i]
    BY <2>2, <2>4 DEF DiskInv
  <2>6. QED  BY <1>2, <1>5, <2>2, <2>4, <2>5
<1>6. QED  BY <1>3, <1>4, <1>5 DEF WriteOutcomes

\* A write leaves the store consistent and forgets no id.
LEMMA WriteKeeps ==
    ASSUME TypeOK, DiskInv, NEW id \in Ids, NEW rec \in Record, NEW how \in WriteOutcomes,
           WriteRecord(id, rec, how), UNCHANGED receipts
    PROVE  DiskInv' /\ \A i \in Ids : Bound(i) => Bound(i)'
<1> DEFINE new == [rec EXCEPT !.at = clock + 1]
<1>1. /\ new \in Record
      /\ \A i \in Ids : recs'[i] \in survivors'[i]
      /\ \A i \in Ids \ {id} : recs'[i] = recs[i] /\ survivors'[i] \subseteq survivors[i]
      /\ survivors'[id] \subseteq survivors[id] \cup {new}
      /\ how # "failed" => recs'[id] = new
      /\ how = "failed" => recs' = recs /\ survivors' = survivors
  BY WriteEffect
<1>2. new # NoRecord
  BY <1>1, NoRecordAssumption
<1> HIDE DEF new
<1>3. DiskInv'
  BY <1>1, <1>2 DEF DiskInv
<1>4. \A i \in Ids : Bound(i) => Bound(i)'
  BY <1>1, <1>2 DEF Bound
<1>5. QED  BY <1>3, <1>4

\* A write that keeps the binding of something the daemon holds of the id.
Rewrite(id) ==
    \E rec \in Record, how \in WriteOutcomes :
        /\ WriteRecord(id, rec, how)
        /\ \E old \in Contents(id) : SameBinding(rec, old)

\* The delivery of a snapshot leaves the store alone or rewrites a record.
LEMMA DeliverRewrites ==
    ASSUME IInv, NEW id \in Ids, ReadRecord(id) # NoRecord, DeliverSnapshot(id)
    PROVE  UNCHANGED <<recs, survivors>> \/ Rewrite(id)
<1> DEFINE snap == InactiveSnapshot(id)
<1>1. ReadRecord(id) \in Contents(id) /\ ReadRecord(id) \in Record
  BY DEF IInv, DiskInv, TypeOK, ReadRecord, Contents
<1>2. SameBinding(snap, ReadRecord(id))
  BY <1>1 DEF InactiveSnapshot, SameBinding, Record
<1>3. CASE snap # ReadRecord(id)
  <2>1. PICK how \in WriteOutcomes : WriteRecord(id, snap, how)
    BY <1>3 DEF DeliverSnapshot
  <2>2. snap \in Record
    BY InactiveSnapshotType DEF IInv
  <2>3. QED  BY <1>1, <1>2, <2>1, <2>2 DEF Rewrite
<1>4. CASE snap = ReadRecord(id)
  BY <1>4 DEF DeliverSnapshot
<1>5. QED  BY <1>3, <1>4

\* Every step of the system, by what it does to records and receipts.
LEMMA StoreSteps ==
    ASSUME IInv, [Next]_vars
    PROVE  \/ UNCHANGED <<recs, survivors, receipts>>
           \/ op = NoOp /\ op' = NoOp /\ UNCHANGED receipts /\ \E id \in Ids : Rewrite(id)
           \/ PersistNew
           \/ CommitReceipts
           \/ \E id \in Ids : UnlinkRecord(id)
           \/ FinishBatch
           \/ PowerLoss
<1>1. ASSUME NEW id \in Ids, NEW ws \in Workspaces, NEW hash \in Hashes,
             StartKnown(id, ws, hash)
      PROVE  \/ UNCHANGED <<recs, survivors, receipts>>
             \/ op = NoOp /\ op' = NoOp /\ UNCHANGED receipts /\ Rewrite(id)
  BY <1>1, DeliverRewrites DEF StartKnown, LockFree
<1>2. ASSUME NEW id \in Ids, NEW ws \in Workspaces, Wait(id, ws)
      PROVE  \/ UNCHANGED <<recs, survivors, receipts>>
             \/ op = NoOp /\ op' = NoOp /\ UNCHANGED receipts /\ Rewrite(id)
  BY <1>2, DeliverRewrites DEF Wait, LockFree
<1>3. ASSUME NEW id \in Ids, Complete(id)
      PROVE  op = NoOp /\ op' = NoOp /\ UNCHANGED receipts /\ Rewrite(id)
  <2>1. job[id] \in Record /\ job[id] \in Contents(id)
    BY <1>3 DEF Complete, IInv, TaskInv, TypeOK, Contents
  <2>2. CompletedRecord(id) \in Record
    BY <1>3, CompletedRecordType DEF Complete, IInv, TaskInv
  <2>3. SameBinding(CompletedRecord(id), job[id])
    BY <2>1 DEF CompletedRecord, SameBinding, Record
  <2>4. QED  BY <1>3, <2>1, <2>2, <2>3 DEF Complete, Rewrite, LockFree
<1>4. ASSUME NEW id \in Ids, BootInterrupt(id)
      PROVE  op = NoOp /\ op' = NoOp /\ UNCHANGED receipts /\ Rewrite(id)
  <2> DEFINE rec == [recs[id] EXCEPT !.state = "Interrupted", !.rev = recs[id].rev + 1]
  <2>1. recs[id] \in Record /\ recs[id] \in Contents(id)
    BY <1>4 DEF BootInterrupt, IInv, DiskInv, TypeOK, Contents
  <2>2. recs[id].rev + 1 \in Nat
    BY <2>1 DEF Record
  <2>3. rec \in Record /\ SameBinding(rec, recs[id])
    BY <2>1, <2>2 DEF Record, Terminal, SameBinding
  <2>4. op = NoOp
    BY <1>4 DEF BootInterrupt, IInv, AdmissionInv
  <2>5. QED  BY <1>4, <2>1, <2>3, <2>4 DEF BootInterrupt, Rewrite
<1>5. QED
  BY <1>1, <1>2, <1>3, <1>4
     DEF Next, Request, Start, CancelUnknown, Reclamation, Job, Environment, Lifecycle,
         CancelKnown, Admit, ReadOutputBegin, RemoveOutput, FinishScan, ReadOutputEnd,
         NotStarted, PassCancellationCheck, Spawn, ProcessEnds, Approve, ApprovalLapses,
         GracePasses, Shutdown, Crash, Exit, Boot, BootFinish, store, vars

\* The store shows what may survive, after every step.
LEMMA DiskStep == IInv /\ [Next]_vars => DiskInv'
<1> SUFFICES ASSUME IInv, [Next]_vars PROVE DiskInv'
  OBVIOUS
<1>0. TypeOK /\ DiskInv /\ NoRecord \notin Record
  BY NoRecordAssumption DEF IInv
<1>1. CASE UNCHANGED <<recs, survivors, receipts>>
  BY <1>0, <1>1 DEF DiskInv
<1>2. ASSUME NEW id \in Ids, Rewrite(id), UNCHANGED receipts
      PROVE  DiskInv'
  <2>1. PICK rec \in Record, how \in WriteOutcomes :
            WriteRecord(id, rec, how) /\ \E old \in Contents(id) : SameBinding(rec, old)
    BY <1>2 DEF Rewrite
  <2>2. QED  BY <1>0, <1>2, <2>1, WriteKeeps
<1>3. CASE PersistNew
  <2>1. op \in Admission
    BY <1>0, <1>3 DEF PersistNew, TypeOK
  <2>2. NewRecord \in Record /\ op.id \in Ids
    BY <2>1, NewRecordType DEF Admission
  <2>3. PICK how \in WriteOutcomes : WriteRecord(op.id, NewRecord, how)
    BY <1>3 DEF PersistNew
  <2>4. UNCHANGED receipts
    BY <1>3 DEF PersistNew
  <2>5. QED  BY <1>0, <2>2, <2>3, <2>4, WriteKeeps
<1>4. CASE CommitReceipts
  <2>1. UNCHANGED <<recs, survivors>>
    BY <1>4 DEF CommitReceipts
  <2>2. \A i \in Ids : receipts'[i] = NoRecord => receipts[i] = NoRecord
    BY <1>0, <1>4 DEF CommitReceipts, TypeOK
  <2>3. QED  BY <1>0, <2>1, <2>2 DEF DiskInv
<1>5. ASSUME NEW id \in Ids, UnlinkRecord(id)
      PROVE  DiskInv'
  <2>1. receipts[id] # NoRecord
    BY <1>5 DEF UnlinkRecord, IInv, AdmissionInv
  <2>2. QED  BY <1>0, <1>5, <2>1 DEF UnlinkRecord, DiskInv, TypeOK
<1>6. CASE FinishBatch
  BY <1>0, <1>6 DEF FinishBatch, SyncDirectory, DiskInv
<1>7. CASE PowerLoss
  BY <1>0, <1>7 DEF PowerLoss, SyncDirectory, DiskInv
<1>8. QED  BY <1>1, <1>2, <1>3, <1>4, <1>5, <1>6, <1>7, StoreSteps

\* No step makes the daemon forget an id.
LEMMA BoundKept ==
    ASSUME IInv, [Next]_vars, NEW i \in Ids, Bound(i)
    PROVE  Bound(i)'
<1>0. TypeOK /\ DiskInv /\ NoRecord \notin Record
  BY NoRecordAssumption DEF IInv
<1>1. CASE UNCHANGED <<recs, survivors, receipts>>
  BY <1>1 DEF Bound
<1>2. ASSUME NEW id \in Ids, Rewrite(id), UNCHANGED receipts
      PROVE  Bound(i)'
  <2>1. PICK rec \in Record, how \in WriteOutcomes :
            WriteRecord(id, rec, how) /\ \E old \in Contents(id) : SameBinding(rec, old)
    BY <1>2 DEF Rewrite
  <2>2. QED  BY <1>0, <1>2, <2>1, WriteKeeps
<1>3. CASE PersistNew
  <2>1. op \in Admission
    BY <1>0, <1>3 DEF PersistNew, TypeOK
  <2>2. NewRecord \in Record /\ op.id \in Ids
    BY <2>1, NewRecordType DEF Admission
  <2>3. PICK how \in WriteOutcomes : WriteRecord(op.id, NewRecord, how)
    BY <1>3 DEF PersistNew
  <2>4. UNCHANGED receipts
    BY <1>3 DEF PersistNew
  <2>5. QED  BY <1>0, <2>2, <2>3, <2>4, WriteKeeps
<1>4. CASE CommitReceipts
  <2>1. UNCHANGED survivors
    BY <1>4 DEF CommitReceipts
  <2>2. receipts'[i] = NoRecord => receipts[i] = NoRecord
    BY <1>0, <1>4 DEF CommitReceipts, TypeOK
  <2>3. QED  BY <2>1, <2>2 DEF Bound
<1>5. ASSUME NEW id \in Ids, UnlinkRecord(id)
      PROVE  Bound(i)'
  <2>1. receipts[id] # NoRecord
    BY <1>5 DEF UnlinkRecord, IInv, AdmissionInv
  <2>2. QED  BY <1>0, <1>5, <2>1 DEF UnlinkRecord, Bound, TypeOK
<1>6. CASE FinishBatch
  BY <1>0, <1>6 DEF FinishBatch, SyncDirectory, DiskInv, Bound
<1>7. CASE PowerLoss
  BY <1>0, <1>7 DEF PowerLoss, SyncDirectory, DiskInv, Bound
<1>8. QED  BY <1>1, <1>2, <1>3, <1>4, <1>5, <1>6, <1>7, StoreSteps

\* The admission that holds the mutex is the only one to change the store.
LEMMA AdmissionStep == IInv /\ [Next]_vars => AdmissionInv'
<1> SUFFICES ASSUME IInv, [Next]_vars, op' # NoOp PROVE AdmissionInv'
  BY DEF AdmissionInv
<1>0. TypeOK /\ AdmissionInv /\ NoRecord \notin Record /\ NoHash \notin Hashes
  BY NoRecordAssumption, ConstantsAssumption DEF IInv
<1>1. ASSUME NEW kind \in {"start", "cancel"}, NEW id \in Ids, NEW ws \in Workspaces,
             NEW hash \in Hashes \cup {NoHash}, kind = "start" => hash \in Hashes,
             Admit(kind, id, ws, hash)
      PROVE  AdmissionInv'
  <2>1. (IF Fits THEN {} ELSE Reclaimable) \subseteq Stored
    BY DEF Reclaimable
  <2>2. UNCHANGED <<recs, receipts, mode>> /\ mode = "up" /\ ReadRecord(id) = NoRecord
    BY <1>1 DEF Admit, store
  <2>3. /\ op'.id = id /\ op'.kind = kind /\ op'.hash = hash
        /\ op'.list = (IF Fits THEN {} ELSE Reclaimable) /\ op'.batch = {}
    BY <1>1 DEF Admit
  <2>4. Stored' = Stored /\ ReadRecord(id)' = NoRecord
    BY <2>2 DEF Stored, ReadRecord
  <2>5. QED  BY <1>0, <1>1, <2>1, <2>2, <2>3, <2>4 DEF AdmissionInv, ReadRecord
<1>2. CASE CommitReceipts
  <2> DEFINE batch == NextBatch(op.list)
  <2>1. op \in Admission
    BY <1>0, <1>2 DEF CommitReceipts, TypeOK
  <2>2. batch \subseteq op.list /\ op.list \subseteq Stored
    BY <1>0, <1>2, NextBatchInList DEF CommitReceipts, AdmissionInv
  <2>3. /\ op' = [op EXCEPT !.step = "unlink", !.batch = batch,
                            !.full = Cardinality(batch) = Batch,
                            !.list = {i \in op.list \ batch :
                                          \A j \in batch : recs[j].at < recs[i].at}]
        /\ receipts' = [i \in Ids |-> IF i \in batch /\ receipts[i] = NoRecord
                                      THEN Expired(recs[i]) ELSE receipts[i]]
        /\ UNCHANGED <<recs, mode>>
    BY <1>2 DEF CommitReceipts, AdmissionFails
  <2>4. /\ op'.id = op.id /\ op'.kind = op.kind /\ op'.hash = op.hash
        /\ op'.batch = batch /\ op'.list \subseteq op.list \ batch
    BY <2>1, <2>3 DEF Admission
  <2>5. op.id \in Ids /\ op.id \notin batch /\ recs[op.id] = NoRecord /\ receipts[op.id] = NoRecord
    BY <1>0, <1>2, <2>1, <2>2 DEF CommitReceipts, AdmissionInv, Admission, Stored, ReadRecord
  <2>6. \A i \in batch : i \in Ids /\ recs[i] \in Record
    BY <1>0, <2>2 DEF TypeOK, Stored
  <2>7. \A i \in batch : receipts'[i] # NoRecord
    BY <1>0, <2>3, <2>6, ExpiredType
  <2>8. ReadRecord(op.id)' = NoRecord /\ Stored' = Stored
    BY <2>3, <2>5 DEF ReadRecord, Stored
  <2>9. QED  BY <1>0, <1>2, <2>2, <2>3, <2>4, <2>7, <2>8 DEF AdmissionInv, CommitReceipts, ReadRecord
<1>3. ASSUME NEW id \in Ids, UnlinkRecord(id)
      PROVE  AdmissionInv'
  <2>1. op' = op /\ op # NoOp /\ recs' = [recs EXCEPT ![id] = NoRecord] /\ UNCHANGED <<receipts, mode>>
    BY <1>3 DEF UnlinkRecord, AdmissionFails
  <2>2. QED  BY <1>0, <1>3, <2>1 DEF UnlinkRecord, AdmissionInv, ReadRecord, Stored, TypeOK
<1>4. ASSUME NEW id \in Ids, RemoveOutput(id)
      PROVE  AdmissionInv'
  BY <1>0, <1>4 DEF RemoveOutput, AdmissionFails, AdmissionInv, ReadRecord, Stored, TypeOK, Admission
<1>5. CASE FinishBatch \/ FinishScan
  BY <1>0, <1>5 DEF FinishBatch, FinishScan, AdmissionFails, AdmissionInv, ReadRecord, Stored,
                    TypeOK, Admission, store
<1>6. CASE op = op' /\ UNCHANGED <<recs, receipts, mode>>
  BY <1>0, <1>6 DEF AdmissionInv, ReadRecord, Stored
<1>7. QED
  BY <1>1, <1>2, <1>3, <1>4, <1>5, <1>6, ConstantsAssumption
     DEF Next, Request, Start, CancelUnknown, Reclamation, Job, Environment, Lifecycle,
         StartKnown, Wait, Complete, BootInterrupt, PersistNew, PowerLoss, LockFree,
         CancelKnown, ReadOutputBegin, ReadOutputEnd, IInv, AdmissionInv,
         NotStarted, PassCancellationCheck, Spawn, ProcessEnds, Approve, ApprovalLapses,
         GracePasses, Shutdown, Crash, Exit, Boot, BootFinish, LoseMemory, store, vars

-----------------------------------------------------------------------------
(* Tasks, approvals and executions *)

\* An admission that may still write its record finds nothing of its id: no
\* task, no approval, no execution, and nothing in the store.
LEMMA AdmittedIsNew ==
    ASSUME IInv, op # NoOp
    PROVE  /\ op.id \in Ids
           /\ ~Live(op.id) /\ execs[op.id] = 0
           /\ Contents(op.id) = {}
<1>1. op \in Admission /\ op.id \in Ids
  BY DEF IInv, TypeOK, Admission
<1>2. recs[op.id] = NoRecord /\ receipts[op.id] = NoRecord
  BY <1>1 DEF IInv, AdmissionInv, ReadRecord
<1>3. survivors[op.id] = {NoRecord}
  BY <1>1, <1>2 DEF IInv, DiskInv
<1>4. ~Bound(op.id)
  BY <1>2, <1>3 DEF Bound
<1>5. ~Live(op.id)
  BY <1>1, <1>4 DEF IInv, ExecutedStaysBound, Live
<1>6. job[op.id] = NoRecord
  BY <1>1, <1>5 DEF IInv, TaskInv, Live
<1>7. execs[op.id] = 0
  BY <1>1, <1>5 DEF Live, IInv, TypeOK
<1>8. QED  BY <1>1, <1>2, <1>3, <1>5, <1>6, <1>7 DEF Contents

\* A new record brings a task for an id that has none, or no task at all.
LEMMA PersistNewTasks ==
    ASSUME IInv, PersistNew
    PROVE  /\ UNCHANGED <<result, approvals, execs, receipts>>
           /\ \/ UNCHANGED <<phase, job>>
              \/ /\ op.kind = "start"
                 /\ WriteRecord(op.id, NewRecord, "ok")
                 /\ phase' = [phase EXCEPT ![op.id] = "queued"]
                 /\ job' = [job EXCEPT ![op.id] = NewRecord]
BY DEF PersistNew

\* The right to start a command is never doubled, and tasks keep their record.
LEMMA BudgetStep == IInv /\ [Next]_vars => TaskInv' /\ BudgetInv'
<1> SUFFICES ASSUME IInv, [Next]_vars PROVE TaskInv' /\ BudgetInv'
  OBVIOUS
<1>0. TypeOK /\ TaskInv /\ BudgetInv /\ NoRecord \notin Record
  BY NoRecordAssumption DEF IInv
<1>1. CASE PersistNew
  <2>1. op \in Admission /\ op # NoOp
    BY <1>0, <1>1 DEF PersistNew, TypeOK
  <2>2. /\ op.id \in Ids /\ phase[op.id] = "none" /\ op.id \notin approvals
        /\ execs[op.id] = 0 /\ NewRecord # NoRecord
    BY <1>0, <2>1, AdmittedIsNew, NewRecordType DEF Live
  <2>3. QED  BY <1>0, <1>1, <2>2, PersistNewTasks DEF TaskInv, BudgetInv, TypeOK
<1>2. ASSUME NEW id \in Ids, NotStarted(id)
      PROVE  TaskInv' /\ BudgetInv'
  BY <1>0, <1>2 DEF NotStarted, SetTask, TaskInv, BudgetInv, TypeOK
<1>3. ASSUME NEW id \in Ids, PassCancellationCheck(id)
      PROVE  TaskInv' /\ BudgetInv'
  BY <1>0, <1>3 DEF PassCancellationCheck, SetTask, TaskInv, BudgetInv, TypeOK
<1>4. ASSUME NEW id \in Ids, Spawn(id)
      PROVE  TaskInv' /\ BudgetInv'
  BY <1>0, <1>4 DEF Spawn, SetTask, TaskInv, BudgetInv, TypeOK
<1>5. ASSUME NEW id \in Ids, ProcessEnds(id)
      PROVE  TaskInv' /\ BudgetInv'
  BY <1>0, <1>5 DEF ProcessEnds, SetTask, TaskInv, BudgetInv, TypeOK
<1>6. ASSUME NEW id \in Ids, Complete(id)
      PROVE  TaskInv' /\ BudgetInv'
  BY <1>0, <1>6 DEF Complete, TaskInv, BudgetInv, TypeOK
<1>7. ASSUME NEW id \in Ids, Approve(id) \/ ApprovalLapses(id)
      PROVE  TaskInv' /\ BudgetInv'
  BY <1>0, <1>7 DEF Approve, ApprovalLapses, TaskInv, BudgetInv, TypeOK, tasks
<1>8. CASE LoseMemory /\ UNCHANGED execs
  BY <1>0, <1>8 DEF LoseMemory, TaskInv, BudgetInv
<1>9. CASE UNCHANGED <<phase, job, result, approvals, execs>>
  BY <1>0, <1>9 DEF TaskInv, BudgetInv
<1>10. QED
  BY <1>1, <1>2, <1>3, <1>4, <1>5, <1>6, <1>7, <1>8, <1>9
     DEF Next, Request, Start, CancelUnknown, Reclamation, Job, Environment, Lifecycle,
         StartKnown, Wait, CancelKnown, Admit, ReadOutputBegin, CommitReceipts, UnlinkRecord,
         RemoveOutput, FinishBatch, FinishScan, ReadOutputEnd, GracePasses, Shutdown, Crash,
         PowerLoss, Exit, Boot, BootInterrupt, BootFinish, tasks, vars

\* An id comes to life only when its new record is persisted for a start.
LEMMA LiveSteps ==
    ASSUME IInv, [Next]_vars, NEW i \in Ids, Live(i)', ~Live(i)
    PROVE  PersistNew /\ i = op.id /\ job'[i] # NoRecord
<1>0. TypeOK /\ TaskInv /\ BudgetInv /\ NoRecord \notin Record
  BY NoRecordAssumption DEF IInv
<1>1. CASE PersistNew
  <2>1. op \in Admission
    BY <1>0, <1>1 DEF PersistNew, TypeOK
  <2>2. NewRecord \in Record /\ op.id \in Ids
    BY <2>1, NewRecordType DEF Admission
  <2>3. QED  BY <1>0, <1>1, <2>2, PersistNewTasks DEF Live, TypeOK
<1>2. ASSUME NEW id \in Ids,
             NotStarted(id) \/ PassCancellationCheck(id) \/ Spawn(id) \/ ProcessEnds(id)
      PROVE  FALSE
  BY <1>0, <1>2 DEF NotStarted, PassCancellationCheck, Spawn, ProcessEnds, SetTask, Live, TypeOK
<1>3. ASSUME NEW id \in Ids, Complete(id)
      PROVE  FALSE
  BY <1>0, <1>3 DEF Complete, Live, TypeOK
<1>4. ASSUME NEW id \in Ids, Approve(id) \/ ApprovalLapses(id)
      PROVE  FALSE
  BY <1>0, <1>4 DEF Approve, ApprovalLapses, Live, TypeOK, tasks
<1>5. CASE LoseMemory /\ UNCHANGED execs
  BY <1>0, <1>5 DEF LoseMemory, Live
<1>6. CASE UNCHANGED <<phase, approvals, execs>>
  BY <1>0, <1>6 DEF Live
<1>7. QED
  BY <1>1, <1>2, <1>3, <1>4, <1>5, <1>6
     DEF Next, Request, Start, CancelUnknown, Reclamation, Job, Environment, Lifecycle,
         StartKnown, Wait, CancelKnown, Admit, ReadOutputBegin, CommitReceipts, UnlinkRecord,
         RemoveOutput, FinishBatch, FinishScan, ReadOutputEnd, GracePasses, Shutdown, Crash,
         PowerLoss, Exit, Boot, BootInterrupt, BootFinish, tasks, vars

\* What was executed, or may be, stays durably bound.
LEMMA ExecutedStep == IInv /\ [Next]_vars => ExecutedStaysBound'
<1> SUFFICES ASSUME IInv, [Next]_vars, NEW i \in Ids, Live(i)' PROVE Bound(i)'
  BY DEF ExecutedStaysBound, Live
<1>0. TypeOK /\ DiskInv /\ NoRecord \notin Record
  BY NoRecordAssumption DEF IInv
<1>1. CASE Live(i)
  BY <1>1, BoundKept DEF IInv, ExecutedStaysBound, Live
<1>2. CASE ~Live(i)
  <2>1. PersistNew /\ i = op.id /\ job'[i] # NoRecord
    BY <1>2, LiveSteps
  <2>2. op \in Admission /\ op # NoOp
    BY <1>0, <2>1 DEF PersistNew, TypeOK
  <2>3. NewRecord \in Record
    BY <2>2, NewRecordType
  <2>4. job[i] = NoRecord
    BY <2>1, <2>2, AdmittedIsNew DEF Contents, IInv, TaskInv, Live
  <2>5. WriteRecord(i, NewRecord, "ok")
    BY <2>1, <2>4, PersistNewTasks
  <2>6. survivors'[i] = {[NewRecord EXCEPT !.at = clock + 1]}
        /\ [NewRecord EXCEPT !.at = clock + 1] \in Record
    BY <1>0, <2>3, <2>5, WriteEffect DEF WriteOutcomes
  <2>7. QED  BY <1>0, <2>6 DEF Bound
<1>3. QED  BY <1>1, <1>2

-----------------------------------------------------------------------------
(* Bindings *)

\* A task's copy of the record is kept or dropped, but for a new start.
LEMMA JobSteps ==
    ASSUME IInv, [Next]_vars, NEW i \in Ids
    PROVE  job'[i] \in {job[i], NoRecord} \/ (PersistNew /\ i = op.id)
<1>0. TypeOK
  BY DEF IInv
<1>1. CASE PersistNew
  <2>1. op.id \in Ids
    BY <1>0, <1>1 DEF PersistNew, TypeOK, Admission
  <2>2. QED  BY <1>0, <1>1, <2>1, PersistNewTasks DEF TypeOK
<1>2. ASSUME NEW id \in Ids, Complete(id)
      PROVE  job'[i] \in {job[i], NoRecord}
  BY <1>0, <1>2 DEF Complete, TypeOK
<1>3. CASE LoseMemory
  BY <1>3 DEF LoseMemory
<1>4. CASE UNCHANGED job
  BY <1>4
<1>5. QED
  BY <1>1, <1>2, <1>3, <1>4
     DEF Next, Request, Start, CancelUnknown, Reclamation, Job, Environment, Lifecycle,
         StartKnown, Wait, CancelKnown, Admit, ReadOutputBegin, CommitReceipts, UnlinkRecord,
         RemoveOutput, FinishBatch, FinishScan, ReadOutputEnd, NotStarted, Spawn,
         PassCancellationCheck, ProcessEnds, Approve, ApprovalLapses, GracePasses, Shutdown,
         Crash, PowerLoss, Exit, Boot, BootInterrupt, BootFinish, tasks, vars

\* What is held of an id after a step has the binding of something that was held
\* before, unless the id is new; then all of it has the binding of the request.
LEMMA ContentsSteps ==
    ASSUME IInv, [Next]_vars, NEW i \in Ids
    PROVE  \/ \A a \in Contents(i)' : \E b \in Contents(i) : SameBinding(a, b)
           \/ /\ PersistNew /\ i = op.id
              /\ Contents(i) = {}
              /\ \A a \in Contents(i)' : a.ws = op.ws /\ a.hash = op.hash
<1> DEFINE Inherits(r) == r # NoRecord => \E b \in Contents(i) : SameBinding(r, b)
<1>0. TypeOK /\ DiskInv /\ NoRecord \notin Record
  BY NoRecordAssumption DEF IInv
<1>1. CASE PersistNew /\ i = op.id
  <2>1. op \in Admission /\ op # NoOp
    BY <1>0, <1>1 DEF PersistNew, TypeOK
  <2>2. NewRecord \in Record /\ NewRecord.ws = op.ws /\ NewRecord.hash = op.hash
    BY <2>1, NewRecordType DEF NewRecord
  <2>3. Contents(i) = {}
    BY <1>1, <2>1, AdmittedIsNew
  <2>4. PICK how \in WriteOutcomes : WriteRecord(i, NewRecord, how)
    BY <1>1 DEF PersistNew
  <2> DEFINE new == [NewRecord EXCEPT !.at = clock + 1]
  <2>5. new.ws = op.ws /\ new.hash = op.hash
    BY <2>2 DEF Record
  <2>6. survivors'[i] \subseteq survivors[i] \cup {new}
    BY <1>0, <2>2, <2>4, WriteEffect
  <2>7. receipts'[i] = receipts[i] /\ job'[i] \in {job[i], NewRecord}
    BY <1>0, <1>1, PersistNewTasks DEF TypeOK
  <2> HIDE DEF new
  <2>8. QED  BY <1>1, <2>2, <2>3, <2>5, <2>6, <2>7 DEF Contents
<1>2. CASE ~(PersistNew /\ i = op.id)
  <2>1. Inherits(job'[i])
    BY <1>2, JobSteps DEF Contents, SameBinding
  <2>2. \A a \in survivors[i] \cup {receipts[i]} : Inherits(a)
    BY DEF Contents, SameBinding
  <2>3. Inherits(receipts'[i]) /\ \A a \in survivors'[i] : Inherits(a)
    <3>1. CASE UNCHANGED <<survivors, receipts>>
      BY <2>2, <3>1
    <3>2. ASSUME NEW id \in Ids, Rewrite(id), UNCHANGED receipts
          PROVE  Inherits(receipts'[i]) /\ \A a \in survivors'[i] : Inherits(a)
      <4>1. PICK rec \in Record, how \in WriteOutcomes :
                WriteRecord(id, rec, how) /\ \E old \in Contents(id) : SameBinding(rec, old)
        BY <3>2 DEF Rewrite
      <4> DEFINE new == [rec EXCEPT !.at = clock + 1]
      <4>2. SameBinding(new, rec)
        BY DEF SameBinding, Record
      <4>3. id # i => survivors'[i] \subseteq survivors[i]
        BY <1>0, <4>1, WriteEffect
      <4>4. id = i => survivors'[i] \subseteq survivors[i] \cup {new}
        BY <1>0, <4>1, WriteEffect
      <4>5. id = i => Inherits(new)
        BY <4>1, <4>2 DEF SameBinding
      <4> HIDE DEF new
      <4>6. QED  BY <2>2, <3>2, <4>3, <4>4, <4>5
    <3>3. CASE PersistNew /\ i # op.id
      <4>1. op \in Admission /\ op.id \in Ids
        BY <1>0, <3>3 DEF PersistNew, TypeOK, Admission
      <4>2. NewRecord \in Record
        BY <4>1, NewRecordType
      <4>3. PICK how \in WriteOutcomes : WriteRecord(op.id, NewRecord, how)
        BY <3>3 DEF PersistNew
      <4>4. survivors'[i] \subseteq survivors[i] /\ receipts' = receipts
        BY <1>0, <3>3, <4>1, <4>2, <4>3, WriteEffect DEF PersistNew
      <4>5. QED  BY <2>2, <4>4
    <3>4. CASE CommitReceipts
      <4>1. survivors' = survivors
        BY <3>4 DEF CommitReceipts
      <4>2. receipts'[i] = receipts[i] \/ (i \in NextBatch(op.list) /\ receipts'[i] = Expired(recs[i]))
        BY <1>0, <3>4 DEF CommitReceipts, TypeOK
      <4>3. i \in NextBatch(op.list) => recs[i] \in Record /\ recs[i] \in Contents(i)
        BY <1>0, <3>4, NextBatchInList
           DEF CommitReceipts, IInv, AdmissionInv, Stored, TypeOK, DiskInv, Contents
      <4>4. recs[i] \in Record => SameBinding(Expired(recs[i]), recs[i])
        BY DEF Expired, SameBinding, Record
      <4>5. QED  BY <2>2, <4>1, <4>2, <4>3, <4>4
    <3>5. ASSUME NEW id \in Ids, UnlinkRecord(id)
          PROVE  Inherits(receipts'[i]) /\ \A a \in survivors'[i] : Inherits(a)
      <4>1. survivors'[i] \subseteq survivors[i] \cup {NoRecord} /\ receipts' = receipts
        BY <1>0, <3>5 DEF UnlinkRecord, TypeOK
      <4>2. QED  BY <2>2, <4>1
    <3>6. CASE FinishBatch
      <4>1. survivors'[i] \subseteq survivors[i] /\ receipts' = receipts
        BY <1>0, <3>6 DEF FinishBatch, SyncDirectory, DiskInv
      <4>2. QED  BY <2>2, <4>1
    <3>7. CASE PowerLoss
      <4>1. survivors'[i] \subseteq survivors[i] /\ receipts' = receipts
        BY <1>0, <3>7 DEF PowerLoss, SyncDirectory
      <4>2. QED  BY <2>2, <4>1
    <3>8. QED  BY <1>2, <3>1, <3>2, <3>3, <3>4, <3>5, <3>6, <3>7, StoreSteps
  <2>4. QED  BY <2>1, <2>3 DEF Contents
<1>3. QED  BY <1>1, <1>2

\* All that is held of an id stays bound to one request, and the request of a
\* tombstone never comes to life.
LEMMA BindingStep == IInv /\ [Next]_vars => BindingInv'
<1> SUFFICES ASSUME IInv, [Next]_vars, NEW i \in Ids
             PROVE  /\ \A a, b \in Contents(i)' : SameBinding(a, b)
                    /\ \A a \in Contents(i)' : a.hash = NoHash => ~Live(i)'
  BY DEF BindingInv, SameBinding
<1>0. BindingInv
  BY DEF IInv
<1>1. CASE PersistNew /\ i = op.id /\ \A a \in Contents(i)' : a.ws = op.ws /\ a.hash = op.hash
  <2>1. op \in Admission /\ op # NoOp
    BY <1>1 DEF PersistNew, IInv, TypeOK
  <2>2. CASE op.kind = "start"
    BY <1>1, <2>1, <2>2 DEF IInv, AdmissionInv, SameBinding
  <2>3. CASE op.kind # "start"
    <3>1. ~Live(i)'
      BY <1>1, <2>1, <2>3, AdmittedIsNew, PersistNewTasks DEF Live
    <3>2. QED  BY <1>1, <3>1 DEF SameBinding
  <2>4. QED  BY <2>2, <2>3
<1>2. CASE ~PersistNew /\ \A a \in Contents(i)' : \E b \in Contents(i) : SameBinding(a, b)
  BY <1>0, <1>2, LiveSteps DEF BindingInv, SameBinding
<1>3. CASE i # op.id /\ \A a \in Contents(i)' : \E b \in Contents(i) : SameBinding(a, b)
  BY <1>0, <1>3, LiveSteps DEF BindingInv, SameBinding
<1>4. QED
  <2>1. CASE PersistNew /\ i = op.id
    <3>1. Contents(i) = {}
      BY <2>1, AdmittedIsNew DEF PersistNew
    <3>2. \A a \in Contents(i)' : a.ws = op.ws /\ a.hash = op.hash
      BY <3>1, ContentsSteps
    <3>3. QED  BY <1>1, <2>1, <3>2
  <2>2. CASE ~(PersistNew /\ i = op.id)
    BY <1>2, <1>3, <2>2, ContentsSteps
  <2>3. QED  BY <2>1, <2>2

-----------------------------------------------------------------------------
(* Theorems *)

\* The invariant is inductive.
LEMMA StepInv == IInv /\ [Next]_vars => IInv'
BY TypeStep, DiskStep, AdmissionStep, BudgetStep, ExecutedStep, BindingStep DEF IInv

\* Every reachable state satisfies the inductive invariant.
THEOREM Invariance == Spec => []IInv
BY InitInv, StepInv, PTL DEF Spec

\* The state of the jobs keeps its type.
THEOREM TypeCorrect == Spec => []TypeOK
<1>1. IInv => TypeOK
  BY DEF IInv
<1>2. QED  BY <1>1, Invariance, PTL

\* No command is started twice: retries, cancellations, approvals, failed writes,
\* crashes, power losses and reclamation included.
THEOREM StartedAtMostOnce == Spec => []AtMostOnce
<1>1. IInv => AtMostOnce
  BY DEF IInv, BudgetInv, AtMostOnce
<1>2. QED  BY <1>1, Invariance, PTL

\* An id whose command ran, or may still run, cannot be forgotten, at whatever
\* point of reclamation or recovery the power fails.
THEOREM ExecutedIdsStayBound == Spec => []ExecutedStaysBound
<1>1. IInv => ExecutedStaysBound
  BY DEF IInv
<1>2. QED  BY <1>1, Invariance, PTL

\* An id cancelled before its start arrives never executes.
THEOREM TombstonesHold == Spec => []TombstoneNeverRuns
<1>1. IInv => TombstoneNeverRuns
  <2> SUFFICES ASSUME IInv, NEW i \in Ids, ReadRecord(i) # NoRecord, ReadRecord(i).hash = NoHash
               PROVE  execs[i] = 0 /\ phase[i] = "none" /\ i \notin approvals
    BY DEF TombstoneNeverRuns
  <2>1. ReadRecord(i) \in Contents(i)
    BY DEF IInv, DiskInv, ReadRecord, Contents
  <2>2. ~Live(i)
    BY <2>1 DEF IInv, BindingInv
  <2>3. QED  BY <2>2 DEF Live, IInv, TypeOK
<1>2. QED  BY <1>1, Invariance, PTL

\* A durably bound id is never freed and never moved to another request.
THEOREM BindingsAreStable == Spec => BindingStable
<1>1. ASSUME IInv, [Next]_vars
      PROVE  \A i \in Ids : Bound(i) =>
                 /\ ReadRecord(i)' # NoRecord
                 /\ ReadRecord(i)'.ws = ReadRecord(i).ws
                 /\ ReadRecord(i)'.hash = ReadRecord(i).hash
  <2> SUFFICES ASSUME NEW i \in Ids, Bound(i)
               PROVE  /\ ReadRecord(i)' # NoRecord
                      /\ SameBinding(ReadRecord(i)', ReadRecord(i))
    BY DEF SameBinding
  <2>1. IInv' /\ Bound(i)'
    BY <1>1, StepInv, BoundKept
  <2>2. ReadRecord(i) \in Contents(i)
    BY <1>1 DEF IInv, DiskInv, Bound, ReadRecord, Contents
  <2>3. ReadRecord(i)' \in Contents(i)' /\ ReadRecord(i)' # NoRecord
    BY <2>1 DEF IInv, DiskInv, Bound, ReadRecord, Contents
  <2>4. \E b \in Contents(i) : SameBinding(ReadRecord(i)', b)
    BY <1>1, <2>2, <2>3, ContentsSteps
  <2>5. QED  BY <1>1, <2>2, <2>3, <2>4 DEF IInv, BindingInv, SameBinding
<1>2. QED  BY <1>1, Invariance, PTL DEF Spec, BindingStable

-----------------------------------------------------------------------------
(* Refinement of OnceOnly *)

\* A start of the command, by its job or by its approval, is a Run.
LEMMA RunSteps ==
    ASSUME IInv, [Next]_vars, NEW id \in Ids, Spawn(id) \/ Approve(id)
    PROVE  Once!Run(id)
<1>0. TypeOK /\ BudgetInv
  BY DEF IInv
<1>1. id \notin Spent /\ execs[id] = 0 /\ Live(id)
  BY <1>0 DEF Spawn, Approve, Spent, BudgetInv, Live
<1>2. execs' = [execs EXCEPT ![id] = 1]
  BY <1>1 DEF Spawn, Approve
<1>3. /\ \A i \in Ids \ {id} : phase'[i] = phase[i] /\ (i \in approvals' <=> i \in approvals)
      /\ phase'[id] \notin {"queued", "cleared"} /\ id \notin approvals'
  BY <1>0 DEF Spawn, Approve, SetTask, TypeOK, BudgetInv, tasks
<1>4. \A i \in Ids : Bound(i)' <=> Bound(i)
  BY DEF Spawn, Approve, Bound, store
<1>5. Bound(id)
  BY <1>1 DEF IInv, ExecutedStaysBound, Live
<1>6. Spent' = Spent \cup {id}
  BY <1>3, <1>4, <1>5 DEF Spent
<1>7. QED  BY <1>1, <1>2, <1>6 DEF Once!Run

\* Every other step may spend ids and brings none back.
LEMMA SpendSteps ==
    ASSUME IInv, [Next]_vars, \A id \in Ids : ~Spawn(id) /\ ~Approve(id)
    PROVE  Once!Spend
<1>0. TypeOK /\ NoRecord \notin Record
  BY NoRecordAssumption DEF IInv
<1>1. UNCHANGED execs
  BY DEF Next, Request, Start, CancelUnknown, Reclamation, Job, Environment, Lifecycle,
         StartKnown, Wait, CancelKnown, Admit, ReadOutputBegin, CommitReceipts, UnlinkRecord,
         RemoveOutput, FinishBatch, FinishScan, PersistNew, ReadOutputEnd, NotStarted,
         PassCancellationCheck, ProcessEnds, Complete, ApprovalLapses, GracePasses, Shutdown,
         Crash, PowerLoss, Exit, Boot, BootInterrupt, BootFinish, vars
<1>2. ASSUME NEW i \in Spent
      PROVE  phase'[i] \notin {"queued", "cleared"} /\ i \notin approvals'
  <2>1. i \in Ids /\ Bound(i) /\ phase[i] \notin {"queued", "cleared"} /\ i \notin approvals
    BY <1>2 DEF Spent
  <2>2. CASE PersistNew
    <3>1. i # op.id /\ op.id \in Ids
      <4>1. op # NoOp /\ op.id \in Ids
        BY <2>2, AdmittedIsNew DEF PersistNew
      <4>2. receipts[op.id] = NoRecord /\ recs[op.id] = NoRecord
        BY <4>1 DEF IInv, AdmissionInv, ReadRecord
      <4>3. ~Bound(op.id)
        BY <4>1, <4>2 DEF IInv, DiskInv, Bound
      <4>4. QED  BY <2>1, <4>1, <4>3
    <3>2. QED  BY <1>0, <2>1, <2>2, <3>1, PersistNewTasks DEF TypeOK
  <2>3. ASSUME NEW id \in Ids, NotStarted(id) \/ PassCancellationCheck(id) \/ ProcessEnds(id)
        PROVE  phase'[i] \notin {"queued", "cleared"} /\ i \notin approvals'
    BY <1>0, <2>1, <2>3 DEF NotStarted, PassCancellationCheck, ProcessEnds, SetTask, TypeOK
  <2>4. ASSUME NEW id \in Ids, Complete(id)
        PROVE  phase'[i] \notin {"queued", "cleared"} /\ i \notin approvals'
    BY <1>0, <2>1, <2>4 DEF Complete, TypeOK
  <2>5. ASSUME NEW id \in Ids, ApprovalLapses(id)
        PROVE  phase'[i] \notin {"queued", "cleared"} /\ i \notin approvals'
    BY <2>1, <2>5 DEF ApprovalLapses, tasks
  <2>6. CASE LoseMemory
    BY <2>1, <2>6 DEF LoseMemory
  <2>7. CASE UNCHANGED <<phase, approvals>>
    BY <2>1, <2>7
  <2>8. QED
    BY <2>2, <2>3, <2>4, <2>5, <2>6, <2>7
       DEF Next, Request, Start, CancelUnknown, Reclamation, Job, Environment, Lifecycle,
           StartKnown, Wait, CancelKnown, Admit, ReadOutputBegin, CommitReceipts, UnlinkRecord,
           RemoveOutput, FinishBatch, FinishScan, ReadOutputEnd, GracePasses, Shutdown, Crash,
           PowerLoss, Exit, Boot, BootInterrupt, BootFinish, tasks, vars
<1>3. Spent \subseteq Spent'
  BY <1>2, BoundKept DEF Spent
<1>4. Spent' \in SUBSET Ids
  BY DEF Spent
<1>5. QED  BY <1>1, <1>3, <1>4 DEF Once!Spend

\* The jobs, with their records, receipts, crashes and reclamation, implement the
\* abstract specification: an id is spent by its one run and stays spent.
THEOREM ImplementsOnceOnly == Spec => OnceSpec
<1>1. Init => Once!Init
  BY DEF Init, Once!Init, Spent, Bound
<1>2. IInv /\ [Next]_vars => [Once!Next]_<<Spent, execs>>
  BY RunSteps, SpendSteps DEF Once!Next
<1>3. QED  BY <1>1, <1>2, Invariance, PTL DEF Spec, OnceSpec, Once!Spec

=============================================================================
