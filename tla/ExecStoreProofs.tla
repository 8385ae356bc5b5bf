--------------------------- MODULE ExecStoreProofs ---------------------------
(***************************************************************************)
(* Proofs about what ExecJobs keeps and removes: live approvals, spilled   *)
(* output, the snapshots given to clients, and the quota of the store.     *)
(***************************************************************************)
EXTENDS ExecJobsProofs, FiniteSetTheorems

-----------------------------------------------------------------------------
(* The inductive invariant *)

\* Only a daemon that is up or draining has jobs.  The record of each is on disk,
\* running, at the revision of the task's copy; a result is there only when the
\* task is done, and spilled output is in its directory.
JobInv ==
    \A i \in Ids :
        /\ phase[i] # "none" =>
               /\ mode \in {"up", "drain"}
               /\ recs[i] # NoRecord
               /\ recs[i].state = "Running"
               /\ recs[i].rev = job[i].rev
        /\ result[i] # "none" => phase[i] = "done"
        /\ result[i] = "spilled" => i \in outputs

\* No content that may survive is running and has an outcome; a receipt is of a
\* job that ended.
RecordInv ==
    \A i \in Ids :
        /\ \A r \in survivors[i] :
               r # NoRecord /\ r.state = "Running" => r.outcome = "none"
        /\ receipts[i] # NoRecord => receipts[i].state # "Running"

\* A record about to be unlinked is terminal, carries no live approval, and has a
\* receipt of the same state at the next revision.
BatchInv ==
    op # NoOp =>
        \A i \in op.batch : recs[i] # NoRecord =>
            /\ recs[i].state # "Running"
            /\ recs[i].outcome = "ask" => i \notin approvals
            /\ receipts[i].state = recs[i].state
            /\ receipts[i].rev = recs[i].rev + 1

\* While output is read nobody else holds the mutex, and what is read is there.
ReaderInv ==
    reader # NoId => /\ op = NoOp /\ mode = "up"
                     /\ reader \in outputs /\ recs[reader] # NoRecord

StoreInv == IInv /\ JobInv /\ RecordInv /\ BatchInv /\ ReaderInv

\* A job that was admitted keeps its share of the bytes until its output is
\* removed, and an admission that passed Fits finds room when it writes.
UnitsInv ==
    /\ IsFiniteSet(outputs) /\ IsFiniteSet(Active)
    /\ Cardinality(outputs \cup Active) <= MaxUnits
    /\ Cardinality(Active) <= MaxActive
    /\ op # NoOp =>
           /\ op.step = "write" => Cardinality(outputs \cup Active) < MaxUnits
           /\ op.kind = "start" => Cardinality(Active) < MaxActive

\* The same for the number of records.
RecordsInv ==
    /\ IsFiniteSet(Stored)
    /\ Cardinality(Stored) <= MaxRecords
    /\ op # NoOp => (op.step = "write" => Cardinality(Stored) < MaxRecords)

\* A record that points to spilled output has it.
SpillInv == \A i \in Stored : recs[i].outcome = "spilled" => i \in outputs

-----------------------------------------------------------------------------
(* What steps do to the store *)

\* At most the record of one id is written, with the new contents or not at all.
Writes(id, new) ==
    /\ new \in Record
    /\ \A i \in Ids \ {id} : recs'[i] = recs[i] /\ survivors'[i] \subseteq survivors[i]
    /\ recs'[id] \in {recs[id], new}
    /\ survivors'[id] \subseteq survivors[id] \cup {new}

\* That is what WriteRecord does, however it ends.
LEMMA WriteRecordWrites ==
    ASSUME TypeOK, DiskInv, NEW id \in Ids, NEW rec \in Record, NEW how \in WriteOutcomes,
           WriteRecord(id, rec, how)
    PROVE  /\ Writes(id, [rec EXCEPT !.at = clock + 1])
           /\ how = "ok" => recs'[id] = [rec EXCEPT !.at = clock + 1]
<1> DEFINE new == [rec EXCEPT !.at = clock + 1]
<1>1. /\ new \in Record
      /\ \A i \in Ids \ {id} : recs'[i] = recs[i] /\ survivors'[i] \subseteq survivors[i]
      /\ survivors'[id] \subseteq survivors[id] \cup {new}
      /\ how # "failed" => recs'[id] = new
      /\ how = "failed" => recs' = recs
  BY WriteEffect
<1> HIDE DEF new
<1>2. Writes(id, new) /\ (how = "ok" => recs'[id] = new)
  BY <1>1 DEF Writes
<1>3. QED  BY <1>2 DEF new

\* Writing a record again with another time changes nothing else of it.
LEMMA TimeOnly ==
    ASSUME NEW rec \in Record, NEW t
    PROVE  LET new == [rec EXCEPT !.at = t] IN
           new.state = rec.state /\ new.rev = rec.rev /\ new.outcome = rec.outcome
BY DEF Record

\* An inactive running record is interrupted, at the next revision, and nothing
\* but records, clock, mode and what clients saw changes.
Interrupts(id) ==
    /\ op = NoOp /\ phase[id] = "none"
    /\ recs[id] # NoRecord /\ recs[id].state = "Running" /\ recs[id].outcome = "none"
    /\ \E new : /\ Writes(id, new)
                /\ new.state = "Interrupted"
                /\ new.outcome = "none"
                /\ new.rev = recs[id].rev + 1
    /\ UNCHANGED <<receipts, outputs, tasks, approvals, op, reader>>
    /\ mode' = mode \/ mode = "boot"

\* Writing an interrupted running record interrupts it.
LEMMA InterruptWrites ==
    ASSUME StoreInv, NEW id \in Ids, recs[id] # NoRecord, recs[id].state = "Running",
           NEW how \in WriteOutcomes,
           WriteRecord(id, [recs[id] EXCEPT !.state = "Interrupted",
                                            !.rev = recs[id].rev + 1], how),
           op = NoOp, phase[id] = "none", mode' = mode \/ mode = "boot",
           UNCHANGED <<receipts, outputs, tasks, approvals, op, reader>>
    PROVE  Interrupts(id)
<1> DEFINE rec == [recs[id] EXCEPT !.state = "Interrupted", !.rev = recs[id].rev + 1]
           new == [rec EXCEPT !.at = clock + 1]
<1>0. TypeOK /\ DiskInv /\ RecordInv
  BY DEF StoreInv, IInv
<1>1. recs[id] \in Record /\ recs[id] \in survivors[id]
  BY <1>0 DEF TypeOK, DiskInv
<1>2. recs[id].rev + 1 \in Nat /\ recs[id].outcome = "none"
  BY <1>0, <1>1 DEF Record, RecordInv
<1>3. /\ rec \in Record
      /\ rec.state = "Interrupted" /\ rec.rev = recs[id].rev + 1 /\ rec.outcome = "none"
  BY <1>1, <1>2 DEF Record, Terminal
<1> HIDE DEF rec
<1>4. Writes(id, new)
  BY <1>0, <1>3, WriteRecordWrites DEF rec
<1>5. new.state = "Interrupted" /\ new.rev = recs[id].rev + 1 /\ new.outcome = "none"
  BY <1>3, TimeOnly
<1> HIDE DEF new
<1>6. QED  BY <1>2, <1>4, <1>5 DEF Interrupts

\* The delivery of a snapshot leaves the store alone or interrupts the record.
LEMMA DeliverInterrupts ==
    ASSUME StoreInv, NEW id \in Ids, ReadRecord(id) # NoRecord, DeliverSnapshot(id),
           op = NoOp, UNCHANGED <<receipts, outputs, mode, tasks, approvals, op, reader>>
    PROVE  UNCHANGED <<recs, survivors>> \/ Interrupts(id)
<1> DEFINE snap == InactiveSnapshot(id)
<1>1. CASE snap # ReadRecord(id)
  <2>1. ReadRecord(id).state = "Running" /\ id \notin Active
    BY <1>1 DEF InactiveSnapshot
  <2>2. ReadRecord(id) = recs[id] /\ recs[id] # NoRecord
    BY <2>1 DEF ReadRecord, StoreInv, RecordInv
  <2>3. snap = [recs[id] EXCEPT !.state = "Interrupted", !.rev = recs[id].rev + 1]
    BY <2>1, <2>2 DEF InactiveSnapshot
  <2>4. PICK how \in WriteOutcomes : WriteRecord(id, snap, how)
    BY <1>1 DEF DeliverSnapshot
  <2>5. phase[id] = "none"
    BY <2>1 DEF Active
  <2>6. QED  BY <2>1, <2>2, <2>3, <2>4, <2>5, InterruptWrites
<1>2. CASE snap = ReadRecord(id)
  BY <1>2 DEF DeliverSnapshot
<1>3. QED  BY <1>1, <1>2

\* The running record of an active job is ended, at the next revision; if the new
\* one points to spilled output, that is there.
Ends(id) ==
    /\ recs[id] # NoRecord /\ recs[id].state = "Running" /\ phase[id] = "done"
    /\ \E new : /\ Writes(id, new)
                /\ new.state # "Running"
                /\ new.rev = recs[id].rev + 1
                /\ new.outcome = "spilled" => id \in outputs

\* That is what the completion of a job does.
LEMMA CompleteWrites ==
    ASSUME StoreInv, NEW id \in Ids, Complete(id)
    PROVE  Ends(id)
<1> DEFINE rec == CompletedRecord(id)
           new == [rec EXCEPT !.at = clock + 1]
<1>0. TypeOK /\ DiskInv /\ JobInv /\ TaskInv
  BY DEF StoreInv, IInv
<1>1. /\ phase[id] = "done" /\ recs[id] # NoRecord /\ recs[id].state = "Running"
      /\ recs[id].rev = job[id].rev /\ job[id] \in Record /\ job[id] # NoRecord
      /\ result[id] # "none"
  BY <1>0 DEF Complete, JobInv, TaskInv, TypeOK
<1>2. rec \in Record
  BY <1>0, <1>1, CompletedRecordType
<1>3. /\ rec.state # "Running" /\ rec.rev = recs[id].rev + 1
      /\ rec.outcome = "spilled" => id \in outputs
  <2>1. /\ rec.rev = job[id].rev + 1
        /\ rec.state = IF result[id] = "error" THEN "Failed"
                       ELSE IF id \in cancelled THEN "Cancelled" ELSE "Completed"
        /\ rec.outcome = IF result[id] = "error" THEN "none" ELSE result[id]
    BY <1>1 DEF CompletedRecord, Record
  <2> HIDE DEF rec
  <2>2. QED  BY <1>0, <1>1, <2>1 DEF JobInv
<1> HIDE DEF rec
<1>4. PICK how \in WriteOutcomes : WriteRecord(id, rec, how)
  BY DEF Complete, rec
<1>5. Writes(id, new)
  BY <1>0, <1>2, <1>4, WriteRecordWrites
<1>6. /\ new.state # "Running" /\ new.rev = recs[id].rev + 1
      /\ new.outcome = "spilled" => id \in outputs
  BY <1>2, <1>3, TimeOnly
<1> HIDE DEF new
<1>7. QED  BY <1>1, <1>5, <1>6 DEF Ends

\* What an admission writes for its id, of which nothing is known.
LEMMA PersistWrites ==
    ASSUME StoreInv, PersistNew
    PROVE  /\ op # NoOp /\ op' = NoOp /\ op.step = "write"
           /\ op.id \in Ids /\ recs[op.id] = NoRecord /\ receipts[op.id] = NoRecord
           /\ phase[op.id] = "none" /\ mode = "up" /\ reader = NoId
           /\ UNCHANGED <<receipts, outputs, mode, result, approvals, reader>>
           /\ \E new : /\ Writes(op.id, new)
                       /\ new.outcome = "none"
                       /\ \/ UNCHANGED <<phase, job, seen>>
                          \/ /\ op.kind = "start" /\ recs'[op.id] = new
                             /\ new.state = "Running" /\ new.rev = 1
                             /\ phase' = [phase EXCEPT ![op.id] = "queued"]
                             /\ job' = [job EXCEPT ![op.id] = NewRecord]
                             /\ NewRecord.rev = 1
                             /\ seen' = [seen EXCEPT ![op.id] =
                                             [state |-> "Running", rev |-> 1]]
<1> DEFINE new == [NewRecord EXCEPT !.at = clock + 1]
<1>0. TypeOK /\ DiskInv /\ op # NoOp /\ IInv
  BY DEF PersistNew, StoreInv, IInv
<1>1. op \in Admission /\ op.id \in Ids /\ NewRecord \in Record
  BY <1>0, NewRecordType DEF TypeOK, Admission
<1>2. recs[op.id] = NoRecord /\ receipts[op.id] = NoRecord /\ mode = "up"
  BY <1>0, <1>1 DEF IInv, AdmissionInv, ReadRecord
<1>3. phase[op.id] = "none"
  BY <1>0, AdmittedIsNew DEF Live
<1>4. reader = NoId
  BY <1>0 DEF StoreInv, ReaderInv
<1>5. PICK how \in WriteOutcomes :
          /\ WriteRecord(op.id, NewRecord, how)
          /\ \/ UNCHANGED <<phase, job, seen>>
             \/ /\ op.kind = "start" /\ how = "ok"
                /\ phase' = [phase EXCEPT ![op.id] = "queued"]
                /\ job' = [job EXCEPT ![op.id] = NewRecord]
                /\ seen' = [seen EXCEPT ![op.id] = [state |-> "Running", rev |-> 1]]
  BY DEF PersistNew
<1>6. NewRecord.outcome = "none" /\ NewRecord.rev = 1
      /\ (op.kind = "start" => NewRecord.state = "Running")
  BY DEF NewRecord
<1>7. Writes(op.id, new) /\ (how = "ok" => recs'[op.id] = new)
  BY <1>0, <1>1, <1>5, WriteRecordWrites
<1>8. new.outcome = "none" /\ new.rev = 1 /\ (op.kind = "start" => new.state = "Running")
  BY <1>1, <1>6, TimeOnly
<1> HIDE DEF new
<1>9. \E n : /\ Writes(op.id, n)
             /\ n.outcome = "none"
             /\ \/ UNCHANGED <<phase, job, seen>>
                \/ /\ op.kind = "start" /\ recs'[op.id] = n
                   /\ n.state = "Running" /\ n.rev = 1
                   /\ phase' = [phase EXCEPT ![op.id] = "queued"]
                   /\ job' = [job EXCEPT ![op.id] = NewRecord]
                   /\ NewRecord.rev = 1
                   /\ seen' = [seen EXCEPT ![op.id] = [state |-> "Running", rev |-> 1]]
  BY <1>5, <1>6, <1>7, <1>8
<1>10. UNCHANGED <<receipts, outputs, mode, result, approvals, reader>>
       /\ op' = NoOp /\ op.step = "write"
  BY DEF PersistNew
<1>11. QED  BY <1>0, <1>1, <1>2, <1>3, <1>4, <1>9, <1>10

\* Only what clients saw, the clocks and the cancellations change.
Idle == UNCHANGED <<recs, survivors, receipts, outputs, mode, tasks, approvals, op, reader>>

\* Every step of the system, as the proofs below tell them apart.
LEMMA StoreCases ==
    ASSUME StoreInv, [Next]_vars
    PROVE  \/ Idle
           \/ \E id \in Ids : \/ Interrupts(id) \/ UnlinkRecord(id) \/ RemoveOutput(id)
                             \/ NotStarted(id) \/ PassCancellationCheck(id) \/ Spawn(id)
                             \/ ProcessEnds(id) \/ Complete(id)
                             \/ Approve(id) \/ ApprovalLapses(id)
           \/ \E kind \in {"start", "cancel"}, id \in Ids, ws \in Workspaces,
                 hash \in Hashes \cup {NoHash} : Admit(kind, id, ws, hash)
           \/ \E id \in Ids, ws \in Workspaces : ReadOutputBegin(id, ws)
           \/ ReadOutputEnd
           \/ CommitReceipts \/ FinishBatch \/ FinishScan \/ PersistNew
           \/ Shutdown \/ Exit \/ Crash \/ PowerLoss \/ Boot \/ BootFinish
<1>1. ASSUME NEW id \in Ids, NEW ws \in Workspaces, NEW hash \in Hashes,
             StartKnown(id, ws, hash)
      PROVE  Idle \/ Interrupts(id)
  BY <1>1, DeliverInterrupts DEF StartKnown, LockFree, Idle
<1>2. ASSUME NEW id \in Ids, NEW ws \in Workspaces, Wait(id, ws)
      PROVE  Idle \/ Interrupts(id)
  BY <1>2, DeliverInterrupts DEF Wait, LockFree, Idle
<1>3. ASSUME NEW id \in Ids, BootInterrupt(id)
      PROVE  Interrupts(id)
  <2>1. op = NoOp
    BY <1>3 DEF BootInterrupt, StoreInv, IInv, AdmissionInv
  <2>2. phase[id] = "none"
    BY <1>3 DEF BootInterrupt, StoreInv, JobInv
  <2>3. PICK how \in WriteOutcomes :
            WriteRecord(id, [recs[id] EXCEPT !.state = "Interrupted",
                                             !.rev = recs[id].rev + 1], how)
    BY <1>3 DEF BootInterrupt
  <2>4. /\ recs[id] # NoRecord /\ recs[id].state = "Running" /\ mode = "boot"
        /\ UNCHANGED <<receipts, outputs, tasks, approvals, op, reader>>
    BY <1>3 DEF BootInterrupt
  <2>5. QED  BY <2>1, <2>2, <2>3, <2>4, InterruptWrites
<1>4. CASE GracePasses \/ UNCHANGED vars
  BY <1>4 DEF GracePasses, Idle, store, tasks, vars
<1>5. ASSUME NEW id \in Ids, NEW ws \in Workspaces, CancelKnown(id, ws)
      PROVE  Idle
  BY <1>5 DEF CancelKnown, Idle, store
<1>6. QED
  BY <1>1, <1>2, <1>3, <1>4, <1>5
     DEF Next, Request, Start, CancelUnknown, Reclamation, Job, Environment, Lifecycle

-----------------------------------------------------------------------------
(* The invariant is inductive *)

\* The initial state satisfies it.
LEMMA InitStore == Init => StoreInv
<1> SUFFICES ASSUME Init PROVE StoreInv
  OBVIOUS
<1>1. IInv
  BY InitInv
<1>2. JobInv /\ RecordInv /\ BatchInv /\ ReaderInv
  BY DEF Init, JobInv, RecordInv, BatchInv, ReaderInv
<1>3. QED  BY <1>1, <1>2 DEF StoreInv

\* The record of an active job stays with it.
LEMMA JobStep == StoreInv /\ [Next]_vars => JobInv'
<1> SUFFICES ASSUME StoreInv, [Next]_vars PROVE JobInv'
  OBVIOUS
<1>0. TypeOK /\ JobInv /\ TaskInv /\ BatchInv /\ ReaderInv /\ NoRecord \notin Record
  BY NoRecordAssumption DEF StoreInv, IInv
<1>1. ASSUME NEW id \in Ids, Interrupts(id)
      PROVE  JobInv'
  <2>1. PICK new : Writes(id, new)
    BY <1>1 DEF Interrupts
  <2>2. \A i \in Ids : phase[i] # "none" => recs'[i] = recs[i]
    BY <1>1, <2>1 DEF Interrupts, Writes
  <2>3. \A i \in Ids : phase[i] # "none" => mode' \in {"up", "drain"}
    BY <1>0, <1>1 DEF Interrupts, JobInv
  <2>4. QED  BY <1>0, <1>1, <2>2, <2>3 DEF Interrupts, JobInv, tasks
<1>2. CASE PersistNew
  <2>1. PICK new :
            /\ Writes(op.id, new)
            /\ \/ UNCHANGED <<phase, job, seen>>
               \/ /\ op.kind = "start" /\ recs'[op.id] = new
                  /\ new.state = "Running" /\ new.rev = 1
                  /\ phase' = [phase EXCEPT ![op.id] = "queued"]
                  /\ job' = [job EXCEPT ![op.id] = NewRecord]
                  /\ NewRecord.rev = 1
    BY <1>2, PersistWrites
  <2>2. /\ op.id \in Ids /\ phase[op.id] = "none" /\ mode = "up"
        /\ UNCHANGED <<mode, result, outputs>>
    BY <1>2, PersistWrites
  <2>3. result[op.id] = "none"
    BY <1>0, <2>2 DEF JobInv
  <2>4. QED  BY <1>0, <2>1, <2>2, <2>3 DEF JobInv, Writes, TypeOK
<1>3. ASSUME NEW id \in Ids, UnlinkRecord(id)
      PROVE  JobInv'
  <2>1. phase[id] = "none"
    BY <1>0, <1>3 DEF UnlinkRecord, Stored, BatchInv, JobInv
  <2>2. QED  BY <1>0, <1>3, <2>1 DEF UnlinkRecord, JobInv, TypeOK, tasks
<1>4. ASSUME NEW id \in Ids, RemoveOutput(id)
      PROVE  JobInv'
  <2>1. phase[id] = "none" /\ result[id] = "none"
    BY <1>0, <1>4 DEF RemoveOutput, Stored, JobInv
  <2>2. QED  BY <1>0, <1>4, <2>1 DEF RemoveOutput, JobInv, tasks
<1>5. ASSUME NEW id \in Ids,
             NotStarted(id) \/ PassCancellationCheck(id) \/ Spawn(id) \/ ProcessEnds(id)
      PROVE  JobInv'
  BY <1>0, <1>5 DEF NotStarted, PassCancellationCheck, Spawn, ProcessEnds, SetTask, JobInv,
                    TypeOK, store
<1>6. ASSUME NEW id \in Ids, Complete(id)
      PROVE  JobInv'
  <2>0. Ends(id)
    BY <1>6, CompleteWrites
  <2>1. PICK new : Writes(id, new)
    BY <2>0 DEF Ends
  <2>2. QED  BY <1>0, <1>6, <2>1 DEF Complete, Writes, JobInv, TypeOK
<1>7. CASE Exit \/ Crash \/ PowerLoss
  BY <1>7 DEF Exit, Crash, PowerLoss, LoseMemory, JobInv
<1>8. CASE UNCHANGED <<recs, outputs, tasks>>
           /\ (mode' = mode \/ mode' = "drain" \/ mode \in {"down", "boot"})
  BY <1>0, <1>8 DEF JobInv, tasks
<1>9. CASE BootFinish
  BY <1>0, <1>9 DEF BootFinish, JobInv, tasks
<1>10. QED
  BY <1>1, <1>2, <1>3, <1>4, <1>5, <1>6, <1>7, <1>8, <1>9, StoreCases
     DEF Idle, Approve, ApprovalLapses, Admit, ReadOutputBegin, ReadOutputEnd,
         CommitReceipts, FinishBatch, FinishScan, Shutdown, Boot, store

\* The receipts a batch commits are of jobs that ended.
LEMMA CommitEffect ==
    ASSUME StoreInv, CommitReceipts, ~(op' = NoOp /\ UNCHANGED receipts)
    PROVE  /\ \A i \in op'.batch :
                  /\ i \in Ids /\ recs[i] \in Record
                  /\ recs[i].state # "Running"
                  /\ recs[i].outcome = "ask" => i \notin approvals
                  /\ receipts'[i].state = recs[i].state
                  /\ receipts'[i].rev = recs[i].rev + 1
           /\ \A i \in Ids \ op'.batch : receipts'[i] = receipts[i]
<1> DEFINE batch == NextBatch(op.list)
<1>1. TypeOK /\ op \in Admission /\ op.list \subseteq Stored /\ NoRecord \notin Record
  BY NoRecordAssumption DEF StoreInv, IInv, TypeOK, CommitReceipts, AdmissionInv
<1>2. /\ \A i \in batch : ~Conflicts(i)
      /\ receipts' = [i \in Ids |-> IF i \in batch /\ receipts[i] = NoRecord
                                    THEN Expired(recs[i]) ELSE receipts[i]]
      /\ op' = [op EXCEPT !.step = "unlink", !.batch = batch,
                          !.full = Cardinality(batch) = Batch,
                          !.list = {i \in op.list \ batch :
                                        \A j \in batch : recs[j].at < recs[i].at}]
  BY DEF CommitReceipts, AdmissionFails
<1>3. op'.batch = batch
  BY <1>1, <1>2 DEF Admission
<1>4. \A i \in batch : /\ i \in Ids /\ recs[i] \in Record
                       /\ recs[i].state # "Running"
                       /\ recs[i].outcome = "ask" => i \notin approvals
  <2>1. batch \subseteq Eligible(op.list) /\ batch \subseteq Stored
    BY <1>1, NextBatchInList
  <2> HIDE DEF batch
  <2>2. QED  BY <1>1, <2>1 DEF Eligible, Stored, TypeOK
<1>5. ASSUME NEW rec \in Record
      PROVE  Expired(rec).state = rec.state /\ Expired(rec).rev = rec.rev + 1
  BY DEF Expired, Record
<1> HIDE DEF batch
<1>6. ASSUME NEW i \in batch
      PROVE  receipts'[i].state = recs[i].state /\ receipts'[i].rev = recs[i].rev + 1
  <2>1. CASE receipts[i] = NoRecord
    BY <1>2, <1>4, <1>5, <1>6, <2>1
  <2>2. CASE receipts[i] # NoRecord
    BY <1>2, <1>4, <1>5, <1>6, <2>2 DEF Conflicts
  <2>3. QED  BY <2>1, <2>2
<1>7. \A i \in Ids \ batch : receipts'[i] = receipts[i]
  BY <1>2
<1>8. QED  BY <1>3, <1>4, <1>6, <1>7

\* Running contents have no outcome, and receipts are of ended jobs.
LEMMA RecordStep == StoreInv /\ [Next]_vars => RecordInv'
<1> SUFFICES ASSUME StoreInv, [Next]_vars PROVE RecordInv'
  OBVIOUS
<1>0. TypeOK /\ DiskInv /\ RecordInv /\ NoRecord \notin Record
  BY NoRecordAssumption DEF StoreInv, IInv
<1>1. ASSUME NEW id \in Ids, NEW new, Writes(id, new), UNCHANGED receipts,
             new.state = "Running" => new.outcome = "none"
      PROVE  RecordInv'
  BY <1>0, <1>1 DEF Writes, RecordInv
<1>2. ASSUME NEW id \in Ids, Interrupts(id)
      PROVE  RecordInv'
  BY <1>1, <1>2 DEF Interrupts
<1>3. CASE PersistNew
  BY <1>1, <1>3, PersistWrites
<1>4. ASSUME NEW id \in Ids, Complete(id)
      PROVE  RecordInv'
  <2>1. UNCHANGED receipts
    BY <1>4 DEF Complete
  <2>0. Ends(id)
    BY <1>4, CompleteWrites
  <2>2. PICK new : Writes(id, new) /\ new.state # "Running"
    BY <2>0 DEF Ends
  <2>3. QED  BY <1>1, <2>1, <2>2
<1>5. ASSUME NEW id \in Ids, UnlinkRecord(id)
      PROVE  RecordInv'
  BY <1>0, <1>5 DEF UnlinkRecord, RecordInv, TypeOK
<1>6. CASE CommitReceipts
  <2>1. UNCHANGED survivors
    BY <1>6 DEF CommitReceipts
  <2>2. CASE UNCHANGED receipts
    BY <1>0, <2>1, <2>2 DEF RecordInv
  <2>3. CASE ~UNCHANGED receipts
    <3>1. /\ \A i \in Ids \ op'.batch : receipts'[i] = receipts[i]
          /\ \A i \in op'.batch : receipts'[i].state # "Running"
      BY <1>6, <2>3, CommitEffect
    <3>2. QED  BY <1>0, <2>1, <3>1 DEF RecordInv
  <2>4. QED  BY <2>2, <2>3
<1>7. CASE FinishBatch
  BY <1>0, <1>7 DEF FinishBatch, SyncDirectory, DiskInv, RecordInv
<1>8. CASE PowerLoss
  BY <1>0, <1>8 DEF PowerLoss, SyncDirectory, RecordInv
<1>9. CASE UNCHANGED <<survivors, receipts>>
  BY <1>0, <1>9 DEF RecordInv
<1>10. QED
  BY <1>2, <1>3, <1>4, <1>5, <1>6, <1>7, <1>8, <1>9, StoreCases
     DEF Idle, RemoveOutput, NotStarted, PassCancellationCheck, Spawn, ProcessEnds,
         Approve, ApprovalLapses, Admit, ReadOutputBegin, ReadOutputEnd, FinishScan,
         Shutdown, Exit, Crash, Boot, BootFinish, store

\* What is about to be unlinked stays fit to be.
LEMMA BatchStep == StoreInv /\ [Next]_vars => BatchInv'
<1> SUFFICES ASSUME StoreInv, [Next]_vars, op' # NoOp PROVE BatchInv'
  BY DEF BatchInv
<1>0. TypeOK /\ BatchInv /\ JobInv /\ NoRecord \notin Record
  BY NoRecordAssumption DEF StoreInv, IInv
<1>1. CASE CommitReceipts
  <2>1. UNCHANGED <<recs, approvals>>
    BY <1>1 DEF CommitReceipts
  <2>2. QED  BY <1>1, <2>1, CommitEffect DEF BatchInv
<1>2. ASSUME NEW id \in Ids, UnlinkRecord(id)
      PROVE  BatchInv'
  <2>1. /\ recs' = [recs EXCEPT ![id] = NoRecord] /\ op # NoOp
        /\ UNCHANGED <<receipts, approvals, op>>
    BY <1>2 DEF UnlinkRecord, AdmissionFails
  <2>2. op.batch \subseteq Ids
    BY <1>0, <2>1 DEF TypeOK, Admission
  <2>3. \A i \in op.batch : recs'[i] = recs[i] \/ recs'[i] = NoRecord
    BY <1>0, <2>1, <2>2 DEF TypeOK
  <2>4. QED  BY <1>0, <2>1, <2>3 DEF BatchInv
<1>3. ASSUME NEW id \in Ids, RemoveOutput(id)
      PROVE  BatchInv'
  <2>1. op \in Admission /\ op # NoOp
    BY <1>0, <1>3 DEF RemoveOutput, TypeOK
  <2>2. op' = [op EXCEPT !.batch = @ \ {id}] /\ UNCHANGED <<recs, receipts, approvals>>
    BY <1>3 DEF RemoveOutput, AdmissionFails
  <2>3. op'.batch \subseteq op.batch
    BY <2>1, <2>2 DEF Admission
  <2>4. QED  BY <1>0, <2>1, <2>2, <2>3 DEF BatchInv
<1>4. CASE FinishBatch \/ FinishScan
  <2>1. op \in Admission /\ op # NoOp
    BY <1>0, <1>4 DEF FinishBatch, FinishScan, TypeOK
  <2>2. op'.batch = op.batch /\ UNCHANGED <<recs, receipts, approvals>>
    BY <1>4, <2>1 DEF FinishBatch, FinishScan, AdmissionFails, Admission, store
  <2>3. QED  BY <1>0, <2>1, <2>2 DEF BatchInv
<1>5. ASSUME NEW kind, NEW id, NEW ws, NEW hash, Admit(kind, id, ws, hash)
      PROVE  BatchInv'
  BY <1>5 DEF Admit, BatchInv
<1>6. ASSUME NEW id \in Ids, NotStarted(id)
      PROVE  BatchInv'
  <2>1. recs[id].state = "Running" /\ recs[id] # NoRecord
    BY <1>0, <1>6 DEF NotStarted, JobInv
  <2>2. UNCHANGED <<recs, receipts, op>> /\ approvals' \subseteq approvals \cup {id}
    BY <1>6 DEF NotStarted, store
  <2>3. QED  BY <1>0, <2>1, <2>2 DEF BatchInv
<1>7. CASE UNCHANGED <<recs, receipts, op>> /\ approvals' \subseteq approvals
  BY <1>0, <1>7 DEF BatchInv
<1>8. ASSUME NEW id \in Ids, Interrupts(id) \/ Complete(id)
      PROVE  FALSE
  BY <1>8 DEF Interrupts, Complete, LockFree
<1>9. CASE PersistNew \/ Exit \/ Crash \/ PowerLoss
  BY <1>9 DEF PersistNew, Exit, Crash, PowerLoss, LoseMemory
<1>10. QED
  BY <1>1, <1>2, <1>3, <1>4, <1>5, <1>6, <1>7, <1>8, <1>9, StoreCases
     DEF Idle, PassCancellationCheck, Spawn, ProcessEnds, Approve, ApprovalLapses,
         ReadOutputBegin, ReadOutputEnd, Shutdown, Boot, BootFinish, store

\* What is being read stays there.
LEMMA ReaderStep == StoreInv /\ [Next]_vars => ReaderInv'
<1> SUFFICES ASSUME StoreInv, [Next]_vars, reader' # NoId PROVE ReaderInv'
  BY DEF ReaderInv
<1>0. TypeOK /\ ReaderInv /\ NoRecord \notin Record
  BY NoRecordAssumption DEF StoreInv, IInv
<1>1. ASSUME NEW id \in Ids, NEW ws, ReadOutputBegin(id, ws)
      PROVE  ReaderInv'
  BY <1>1 DEF ReadOutputBegin, LockFree, ReaderInv, store
<1>2. ASSUME NEW id \in Ids, Interrupts(id)
      PROVE  ReaderInv'
  <2>1. PICK new : Writes(id, new)
    BY <1>2 DEF Interrupts
  <2>2. \A i \in Ids : recs[i] # NoRecord => recs'[i] # NoRecord
    BY <1>0, <2>1 DEF Writes
  <2>3. QED  BY <1>0, <1>2, <2>2 DEF Interrupts, ReaderInv, TypeOK
<1>3. CASE UNCHANGED <<recs, mode, op, reader>> /\ outputs \subseteq outputs'
  BY <1>0, <1>3 DEF ReaderInv
<1>4. ASSUME NEW id \in Ids, UnlinkRecord(id) \/ RemoveOutput(id) \/ Complete(id)
      PROVE  FALSE
  BY <1>0, <1>4 DEF UnlinkRecord, RemoveOutput, Complete, LockFree, ReaderInv
<1>5. ASSUME NEW kind, NEW id, NEW ws, NEW hash, Admit(kind, id, ws, hash)
      PROVE  FALSE
  BY <1>5 DEF Admit, LockFree
<1>6. CASE \/ CommitReceipts \/ FinishBatch \/ FinishScan \/ PersistNew \/ ReadOutputEnd
           \/ Shutdown \/ Exit \/ Crash \/ PowerLoss \/ Boot \/ BootFinish
  BY <1>0, <1>6 DEF CommitReceipts, FinishBatch, FinishScan, PersistNew, ReadOutputEnd,
         Shutdown, Exit, Crash, PowerLoss, LoseMemory, Boot, BootFinish, LockFree, ReaderInv
<1>7. QED
  BY <1>1, <1>2, <1>3, <1>4, <1>5, <1>6, StoreCases
     DEF Idle, NotStarted, PassCancellationCheck, Spawn, ProcessEnds, Approve,
         ApprovalLapses, store

\* Every step keeps the invariant.
LEMMA StoreStep == StoreInv /\ [Next]_vars => StoreInv'
BY StepInv, JobStep, RecordStep, BatchStep, ReaderStep DEF StoreInv

\* Every reachable state satisfies it.
THEOREM StoreInvariance == Spec => []StoreInv
BY InitStore, StoreStep, PTL DEF Spec

-----------------------------------------------------------------------------
(* Approvals *)

\* The record that carries a pending approval stays as it is while the daemon runs:
\* reclamation, which chooses its batch long before it unlinks, included.
THEOREM ApprovalRecordsStay == Spec => LiveApprovalKept
<1>1. ASSUME StoreInv, [Next]_vars
      PROVE  \A i \in approvals :
                 (recs[i] # NoRecord /\ recs[i].outcome = "ask" /\ mode' # "down")
                     => recs'[i] = recs[i]
  <2> SUFFICES ASSUME NEW i \in approvals, recs[i] # NoRecord, recs[i].outcome = "ask",
                      mode' # "down"
               PROVE  recs'[i] = recs[i]
    OBVIOUS
  <2>0. TypeOK /\ DiskInv /\ RecordInv /\ BatchInv /\ i \in Ids
    BY <1>1 DEF StoreInv, IInv, TypeOK
  <2>1. recs[i].state # "Running"
    BY <2>0 DEF DiskInv, RecordInv
  <2>2. ASSUME NEW id \in Ids, Interrupts(id)
        PROVE  recs'[i] = recs[i]
    BY <2>0, <2>1, <2>2 DEF Interrupts, Writes
  <2>3. ASSUME NEW id \in Ids, Complete(id)
        PROVE  recs'[i] = recs[i]
    <3>1. Ends(id)
      BY <1>1, <2>3, CompleteWrites
    <3>2. QED  BY <2>0, <2>1, <3>1 DEF Ends, Writes
  <2>4. CASE PersistNew
    <3>1. /\ op.id \in Ids /\ recs[op.id] = NoRecord
          /\ \E new : Writes(op.id, new)
      BY <1>1, <2>4, PersistWrites
    <3>2. QED  BY <2>0, <3>1 DEF Writes
  <2>5. ASSUME NEW id \in Ids, UnlinkRecord(id)
        PROVE  recs'[i] = recs[i]
    <3>1. i # id
      BY <2>0, <2>5 DEF UnlinkRecord, BatchInv
    <3>2. QED  BY <2>0, <2>5, <3>1 DEF UnlinkRecord, TypeOK
  <2>6. CASE PowerLoss
    BY <2>6 DEF PowerLoss, LoseMemory
  <2>7. CASE UNCHANGED recs
    BY <2>7
  <2>8. QED
    BY <1>1, <2>2, <2>3, <2>4, <2>5, <2>6, <2>7, StoreCases
       DEF Idle, RemoveOutput, NotStarted, PassCancellationCheck, Spawn, ProcessEnds,
           Approve, ApprovalLapses, Admit, ReadOutputBegin, ReadOutputEnd, CommitReceipts,
           FinishBatch, FinishScan, Shutdown, Exit, Crash, Boot, BootFinish, store
<1>2. QED  BY <1>1, StoreInvariance, PTL DEF Spec, LiveApprovalKept

-----------------------------------------------------------------------------
(* Spilled output.  A power loss can bring back a record whose removal was not   *)
(* yet synchronised and whose output is gone; everything else is survived.     *)

\* No step but a power loss separates a record from the output it points to.
LEMMA SpillStep ==
    ASSUME "power" \notin Disruptions, StoreInv, SpillInv, [Next]_vars
    PROVE  SpillInv'
<1>0. TypeOK /\ NoRecord \notin Record
  BY NoRecordAssumption DEF StoreInv, IInv
<1>1. ASSUME NEW id \in Ids, NEW new, Writes(id, new), outputs' = outputs,
             new.outcome = "spilled" => id \in outputs
      PROVE  SpillInv'
  BY <1>0, <1>1 DEF Writes, SpillInv, Stored
<1>2. ASSUME NEW id \in Ids, Interrupts(id)
      PROVE  SpillInv'
  BY <1>1, <1>2 DEF Interrupts
<1>3. ASSUME NEW id \in Ids, Complete(id)
      PROVE  SpillInv'
  <2>1. Ends(id) /\ outputs' = outputs
    BY <1>3, CompleteWrites DEF Complete
  <2>2. QED  BY <1>1, <2>1 DEF Ends
<1>4. CASE PersistNew
  <2>1. PICK new : Writes(op.id, new) /\ new.outcome = "none"
    BY <1>4, PersistWrites
  <2>2. op.id \in Ids /\ outputs' = outputs
    BY <1>4, PersistWrites
  <2>3. QED  BY <1>1, <2>1, <2>2
<1>5. ASSUME NEW id \in Ids, UnlinkRecord(id)
      PROVE  SpillInv'
  BY <1>0, <1>5 DEF UnlinkRecord, SpillInv, Stored, TypeOK
<1>6. ASSUME NEW id \in Ids, RemoveOutput(id)
      PROVE  SpillInv'
  BY <1>6 DEF RemoveOutput, SpillInv, Stored
<1>7. CASE BootFinish
  BY <1>7 DEF BootFinish, Orphaned, SpillInv, Stored
<1>8. CASE UNCHANGED recs /\ outputs \subseteq outputs'
  BY <1>8 DEF SpillInv, Stored
<1>9. ~PowerLoss
  BY DEF PowerLoss, Disrupt
<1>10. QED
  BY <1>2, <1>3, <1>4, <1>5, <1>6, <1>7, <1>8, <1>9, StoreCases
     DEF Idle, NotStarted, PassCancellationCheck, Spawn, ProcessEnds, Approve,
         ApprovalLapses, Admit, ReadOutputBegin, ReadOutputEnd, CommitReceipts,
         FinishBatch, FinishScan, Shutdown, Exit, Crash, Boot, store

\* Without power losses a record that points to spilled output has it, and what a
\* reader holds is not removed, whatever crashes or fails on the way.
THEOREM SpilledOutputStays ==
    ASSUME "power" \notin Disruptions
    PROVE  Spec => []SpilledOutputKept
<1>1. Init => SpillInv
  BY DEF Init, SpillInv, Stored
<1>2. StoreInv /\ SpillInv /\ [Next]_vars => SpillInv'
  BY SpillStep
<1>3. StoreInv /\ SpillInv => SpilledOutputKept
  BY DEF StoreInv, ReaderInv, SpillInv, SpilledOutputKept
<1>4. QED  BY <1>1, <1>2, <1>3, StoreInvariance, PTL DEF Spec

-----------------------------------------------------------------------------
(* What clients are told *)

\* What inactive_snapshot answers for an id that is known.
LEMMA SnapshotCases ==
    ASSUME StoreInv, NEW i \in Ids, ReadRecord(i) # NoRecord
    PROVE  /\ recs[i] = NoRecord => InactiveSnapshot(i) = receipts[i]
           /\ (recs[i] # NoRecord /\ (recs[i].state # "Running" \/ phase[i] # "none"))
                  => InactiveSnapshot(i) = recs[i]
           /\ (recs[i] # NoRecord /\ recs[i].state = "Running" /\ phase[i] = "none")
                  => /\ InactiveSnapshot(i).state = "Interrupted"
                     /\ InactiveSnapshot(i).rev = recs[i].rev + 1
<1>1. i \in Active <=> phase[i] # "none"
  BY DEF Active
<1>2. recs[i] = NoRecord => receipts[i].state # "Running"
  BY DEF ReadRecord, StoreInv, RecordInv
<1>3. recs[i] # NoRecord => recs[i] \in Record
  BY DEF StoreInv, IInv, TypeOK
<1>4. QED  BY <1>1, <1>2, <1>3 DEF ReadRecord, InactiveSnapshot, Record

\* And what it answers after a step.
LEMMA SnapshotCasesNext ==
    ASSUME StoreInv', NEW i \in Ids, ReadRecord(i)' # NoRecord
    PROVE  /\ recs'[i] = NoRecord => InactiveSnapshot(i)' = receipts'[i]
           /\ (recs'[i] # NoRecord /\ (recs'[i].state # "Running" \/ phase'[i] # "none"))
                  => InactiveSnapshot(i)' = recs'[i]
           /\ (recs'[i] # NoRecord /\ recs'[i].state = "Running" /\ phase'[i] = "none")
                  => /\ InactiveSnapshot(i)'.state = "Interrupted"
                     /\ InactiveSnapshot(i)'.rev = recs'[i].rev + 1
<1>1. i \in Active' <=> phase'[i] # "none"
  BY DEF Active
<1>2. recs'[i] = NoRecord => receipts'[i].state # "Running"
  BY DEF ReadRecord, StoreInv, RecordInv
<1>3. recs'[i] # NoRecord => recs'[i] \in Record
  BY DEF StoreInv, IInv, TypeOK
<1>4. QED  BY <1>1, <1>2, <1>3 DEF ReadRecord, InactiveSnapshot, Record

\* The answer for a known id stays or moves on: its revision does not fall and a
\* terminal state is final.
Onward(i) ==
    /\ ReadRecord(i)' # NoRecord
    /\ InactiveSnapshot(i).rev <= InactiveSnapshot(i)'.rev
    /\ InactiveSnapshot(i).state \in Terminal =>
           InactiveSnapshot(i)'.state = InactiveSnapshot(i).state

\* No step but a power loss takes an answer back.
LEMMA AnswersMoveOn ==
    ASSUME "power" \notin Disruptions, StoreInv, [Next]_vars,
           NEW i \in Ids, ReadRecord(i) # NoRecord
    PROVE  Onward(i)
<1>0. TypeOK /\ JobInv /\ BatchInv /\ StoreInv' /\ NoRecord \notin Record
  BY NoRecordAssumption, StoreStep DEF StoreInv, IInv
<1>1. InactiveSnapshot(i) \in Record /\ InactiveSnapshot(i).rev \in Nat
  <2>1. InactiveSnapshot(i) \in Record
    BY <1>0, InactiveSnapshotType
  <2>2. QED  BY <2>1 DEF Record
<1>2. CASE /\ recs'[i] = recs[i]
           /\ recs[i] = NoRecord => receipts'[i] = receipts[i]
           /\ phase'[i] = "none" <=> phase[i] = "none"
  <2>1. ReadRecord(i)' = ReadRecord(i) /\ (i \in Active' <=> i \in Active)
    BY <1>2 DEF ReadRecord, Active
  <2>2. InactiveSnapshot(i)' = InactiveSnapshot(i)
    BY <2>1 DEF InactiveSnapshot
  <2>3. QED  BY <1>1, <2>1, <2>2 DEF Onward
<1>3. ASSUME recs[i] # NoRecord, recs[i].state = "Running", recs'[i] # NoRecord,
             \/ phase[i] # "none"
             \/ phase[i] = "none" /\ recs'[i].state \in {"Running", "Interrupted"},
             \/ recs'[i] = recs[i]
             \/ recs'[i].state # "Running" /\ recs'[i].rev = recs[i].rev + 1,
             phase'[i] = "none"
      PROVE  Onward(i)
  <2>1. ReadRecord(i)' # NoRecord
    BY <1>3 DEF ReadRecord
  <2>2. recs[i] \in Record /\ recs[i].rev \in Nat
    BY <1>0, <1>3 DEF TypeOK, Record
  <2>3. /\ InactiveSnapshot(i)'.rev = recs[i].rev + 1
        /\ phase[i] = "none" => InactiveSnapshot(i)'.state = "Interrupted"
    BY <1>0, <1>3, <2>1, SnapshotCasesNext
  <2>4. CASE phase[i] # "none"
    <3>1. InactiveSnapshot(i) = recs[i]
      BY <1>3, <2>4, SnapshotCases
    <3>2. QED  BY <1>3, <2>1, <2>2, <2>3, <3>1 DEF Onward, Terminal
  <2>5. CASE phase[i] = "none"
    <3>1. /\ InactiveSnapshot(i).rev = recs[i].rev + 1
          /\ InactiveSnapshot(i).state = "Interrupted"
      BY <1>3, <2>5, SnapshotCases
    <3>2. QED  BY <2>1, <2>2, <2>3, <2>5, <3>1 DEF Onward
  <2>6. QED  BY <2>4, <2>5
<1>4. ASSUME NEW id \in Ids, Interrupts(id)
      PROVE  Onward(i)
  <2>1. PICK new : Writes(id, new) /\ new.state = "Interrupted" /\ new.rev = recs[id].rev + 1
    BY <1>4 DEF Interrupts
  <2>2. UNCHANGED <<receipts, phase>> /\ phase[id] = "none"
        /\ recs[id] # NoRecord /\ recs[id].state = "Running"
    BY <1>4 DEF Interrupts, tasks
  <2>3. CASE i # id
    BY <1>2, <2>1, <2>2, <2>3 DEF Writes
  <2>4. CASE i = id
    BY <1>0, <1>3, <2>1, <2>2, <2>4 DEF Writes
  <2>5. QED  BY <2>3, <2>4
<1>5. ASSUME NEW id \in Ids, Complete(id)
      PROVE  Onward(i)
  <2>1. Ends(id)
    BY <1>5, CompleteWrites
  <2>2. PICK new : Writes(id, new) /\ new.state # "Running" /\ new.rev = recs[id].rev + 1
    BY <2>1 DEF Ends
  <2>3. UNCHANGED receipts /\ phase' = [phase EXCEPT ![id] = "none"]
        /\ recs[id] # NoRecord /\ recs[id].state = "Running" /\ phase[id] = "done"
    BY <1>5, <2>1 DEF Complete, Ends
  <2>4. CASE i # id
    BY <1>0, <1>2, <2>2, <2>3, <2>4 DEF Writes, TypeOK
  <2>5. CASE i = id
    BY <1>0, <1>3, <2>2, <2>3, <2>5 DEF Writes, TypeOK
  <2>6. QED  BY <2>4, <2>5
<1>6. CASE PersistNew
  <2>1. /\ op.id \in Ids /\ recs[op.id] = NoRecord /\ receipts[op.id] = NoRecord
        /\ UNCHANGED receipts
        /\ \E new : /\ Writes(op.id, new)
                    /\ \/ UNCHANGED phase
                       \/ phase' = [phase EXCEPT ![op.id] = "queued"]
    BY <1>6, PersistWrites
  <2>2. i # op.id
    BY <2>1 DEF ReadRecord
  <2>3. QED  BY <1>0, <1>2, <2>1, <2>2 DEF Writes, TypeOK
<1>7. ASSUME NEW id \in Ids, UnlinkRecord(id)
      PROVE  Onward(i)
  <2>1. UNCHANGED <<receipts, phase>>
    BY <1>7 DEF UnlinkRecord, tasks
  <2>2. CASE recs'[i] = recs[i]
    BY <1>2, <2>1, <2>2
  <2>3. CASE recs'[i] # recs[i]
    <3>1. i = id /\ recs'[i] = NoRecord /\ op # NoOp /\ i \in op.batch /\ recs[i] # NoRecord
      BY <1>0, <1>7, <2>3 DEF UnlinkRecord, TypeOK
    <3>2. /\ recs[i].state # "Running"
          /\ receipts[i].state = recs[i].state /\ receipts[i].rev = recs[i].rev + 1
      BY <1>0, <3>1 DEF BatchInv
    <3>3. receipts[i] # NoRecord
      BY <3>1 DEF StoreInv, IInv, AdmissionInv
    <3>4. ReadRecord(i)' # NoRecord
      BY <2>1, <3>1, <3>3 DEF ReadRecord
    <3>5. InactiveSnapshot(i) = recs[i] /\ InactiveSnapshot(i)' = receipts[i]
      BY <1>0, <2>1, <3>1, <3>2, <3>4, SnapshotCases, SnapshotCasesNext
    <3>6. QED  BY <1>1, <3>2, <3>4, <3>5 DEF Onward
  <2>4. QED  BY <2>2, <2>3
<1>8. CASE CommitReceipts
  <2>1. UNCHANGED <<recs, phase>>
    BY <1>8 DEF CommitReceipts, tasks
  <2>2. recs[i] = NoRecord => receipts'[i] = receipts[i]
    BY <1>0, <1>8 DEF CommitReceipts, TypeOK, ReadRecord
  <2>3. QED  BY <1>2, <2>1, <2>2
<1>9. CASE Exit \/ Crash
  <2>1. UNCHANGED <<recs, receipts>> /\ phase'[i] = "none"
    BY <1>9 DEF Exit, Crash, LoseMemory, store
  <2>2. CASE phase[i] = "none"
    BY <1>2, <2>1, <2>2
  <2>3. CASE phase[i] # "none"
    BY <1>0, <1>3, <2>1, <2>3 DEF JobInv
  <2>4. QED  BY <2>2, <2>3
<1>10. ASSUME NEW id \in Ids,
              NotStarted(id) \/ PassCancellationCheck(id) \/ Spawn(id) \/ ProcessEnds(id)
       PROVE  Onward(i)
  <2>1. UNCHANGED <<recs, receipts>>
    BY <1>10 DEF NotStarted, PassCancellationCheck, Spawn, ProcessEnds, store
  <2>2. phase'[i] = "none" <=> phase[i] = "none"
    BY <1>0, <1>10 DEF NotStarted, PassCancellationCheck, Spawn, ProcessEnds, SetTask, TypeOK
  <2>3. QED  BY <1>2, <2>1, <2>2
<1>11. CASE UNCHANGED <<recs, receipts, tasks>>
  BY <1>2, <1>11 DEF tasks
<1>12. ~PowerLoss
  BY DEF PowerLoss, Disrupt
<1>13. QED
  BY <1>4, <1>5, <1>6, <1>7, <1>8, <1>9, <1>10, <1>11, <1>12, StoreCases
     DEF Idle, RemoveOutput, Approve, ApprovalLapses, Admit, ReadOutputBegin, ReadOutputEnd,
         FinishBatch, FinishScan, Shutdown, Boot, BootFinish, store

\* What a client has seen stays, is what the daemon answers now, or is the new
\* record of a start.
LEMMA SeenSteps ==
    ASSUME StoreInv, [Next]_vars, NEW i \in Ids
    PROVE  \/ seen'[i] = seen[i]
           \/ /\ ReadRecord(i) # NoRecord
              /\ seen'[i] = [state |-> InactiveSnapshot(i).state,
                             rev |-> InactiveSnapshot(i).rev]
           \/ /\ recs'[i] # NoRecord /\ recs'[i].state = "Running" /\ recs'[i].rev = 1
              /\ phase'[i] # "none"
              /\ seen'[i] = [state |-> "Running", rev |-> 1]
<1>0. TypeOK /\ NoRecord \notin Record
  BY NoRecordAssumption DEF StoreInv, IInv
<1>1. ASSUME NEW id \in Ids, ReadRecord(id) # NoRecord, DeliverSnapshot(id)
      PROVE  \/ seen'[i] = seen[i]
             \/ /\ ReadRecord(i) # NoRecord
                /\ seen'[i] = [state |-> InactiveSnapshot(i).state,
                               rev |-> InactiveSnapshot(i).rev]
  BY <1>0, <1>1 DEF DeliverSnapshot, TypeOK
<1>2. CASE PersistNew
  <2>1. op.id \in Ids
    BY <1>2, PersistWrites
  <2>2. PICK new :
            /\ Writes(op.id, new)
            /\ \/ UNCHANGED <<phase, job, seen>>
               \/ /\ recs'[op.id] = new /\ new.state = "Running" /\ new.rev = 1
                  /\ phase' = [phase EXCEPT ![op.id] = "queued"]
                  /\ seen' = [seen EXCEPT ![op.id] = [state |-> "Running", rev |-> 1]]
    BY <1>2, PersistWrites
  <2>3. QED  BY <1>0, <2>1, <2>2 DEF Writes, TypeOK
<1>3. CASE UNCHANGED seen
  BY <1>3
<1>4. QED
  BY <1>1, <1>2, <1>3
     DEF Next, Request, Start, CancelUnknown, Reclamation, Job, Environment, Lifecycle,
         StartKnown, Wait, CancelKnown, Admit, ReadOutputBegin, CommitReceipts, UnlinkRecord,
         RemoveOutput, FinishBatch, FinishScan, ReadOutputEnd, NotStarted, Spawn,
         PassCancellationCheck, ProcessEnds, Complete, Approve, ApprovalLapses, GracePasses,
         Shutdown, Crash, PowerLoss, Exit, Boot, BootInterrupt, BootFinish, vars

\* Without power losses no client is told less than one was told before: revisions
\* do not fall and a terminal state is final, across failed writes, crashes,
\* restarts and the expiry of the record.
THEOREM ClientsNeverGoBack ==
    ASSUME "power" \notin Disruptions
    PROVE  Spec => []ClientNeverGoesBack
<1>1. Init => ClientNeverGoesBack
  BY DEF Init, ClientNeverGoesBack, Unseen
<1>2. ASSUME StoreInv, ClientNeverGoesBack, [Next]_vars
      PROVE  ClientNeverGoesBack'
  <2> SUFFICES ASSUME NEW i \in Ids, seen'[i].state # "none"
               PROVE  /\ ReadRecord(i)' # NoRecord
                      /\ seen'[i].rev <= InactiveSnapshot(i)'.rev
                      /\ seen'[i].state \in Terminal =>
                             seen'[i].state = InactiveSnapshot(i)'.state
    BY DEF ClientNeverGoesBack
  <2>0. TypeOK /\ StoreInv' /\ TypeOK'
    BY <1>2, StoreStep DEF StoreInv, IInv
  <2>1. ReadRecord(i)' # NoRecord => InactiveSnapshot(i)'.rev \in Nat
    <3>1. StoreInv' /\ ReadRecord(i)' # NoRecord => InactiveSnapshot(i)' \in Record
      <4>1. ReadRecord(i)' # NoRecord => ReadRecord(i)' \in Record /\ ReadRecord(i)'.rev + 1 \in Nat
        BY <2>0 DEF TypeOK, ReadRecord, Record
      <4>2. QED  BY <4>1 DEF InactiveSnapshot, Terminal, Record
    <3>2. QED  BY <2>0, <3>1 DEF Record
  <2>2. ReadRecord(i) # NoRecord => InactiveSnapshot(i).rev \in Nat
    <3>1. ReadRecord(i) # NoRecord => InactiveSnapshot(i) \in Record
      BY <2>0, InactiveSnapshotType
    <3>2. QED  BY <3>1 DEF Record
  <2>3. CASE seen'[i] = seen[i]
    <3>1. /\ ReadRecord(i) # NoRecord
          /\ seen[i].rev <= InactiveSnapshot(i).rev /\ seen[i].rev \in Nat
          /\ seen[i].state \in Terminal => seen[i].state = InactiveSnapshot(i).state
      BY <1>2, <2>0, <2>3 DEF ClientNeverGoesBack, TypeOK
    <3>2. Onward(i)
      BY <1>2, <3>1, AnswersMoveOn
    <3>3. QED  BY <2>1, <2>2, <2>3, <3>1, <3>2 DEF Onward
  <2>4. CASE /\ ReadRecord(i) # NoRecord
             /\ seen'[i] = [state |-> InactiveSnapshot(i).state,
                            rev |-> InactiveSnapshot(i).rev]
    <3>1. Onward(i)
      BY <1>2, <2>4, AnswersMoveOn
    <3>2. QED  BY <2>1, <2>2, <2>4, <3>1 DEF Onward
  <2>5. CASE /\ recs'[i] # NoRecord /\ recs'[i].state = "Running" /\ recs'[i].rev = 1
             /\ phase'[i] # "none"
             /\ seen'[i] = [state |-> "Running", rev |-> 1]
    <3>1. ReadRecord(i)' # NoRecord
      BY <2>5 DEF ReadRecord
    <3>2. InactiveSnapshot(i)' = recs'[i]
      BY <2>0, <2>5, <3>1, SnapshotCasesNext
    <3>3. QED  BY <2>5, <3>1, <3>2 DEF Terminal
  <2>6. QED  BY <1>2, <2>3, <2>4, <2>5, SeenSteps
<1>3. QED  BY <1>1, <1>2, StoreInvariance, PTL DEF Spec

-----------------------------------------------------------------------------
(* The quota *)

\* A set that grows by one element at most.
LEMMA GrowsByOne ==
    ASSUME NEW S, NEW x, IsFiniteSet(S), NEW T, T \subseteq S \cup {x}
    PROVE  /\ IsFiniteSet(T)
           /\ Cardinality(T) \in Nat /\ Cardinality(S) \in Nat
           /\ Cardinality(T) <= Cardinality(S) + 1
           /\ T \subseteq S => Cardinality(T) <= Cardinality(S)
<1>1. IsFiniteSet(S \cup {x}) /\ Cardinality(S) \in Nat
  BY FS_AddElement, FS_CardinalityType
<1>2. Cardinality(S \cup {x}) = Cardinality(S) \/ Cardinality(S \cup {x}) = Cardinality(S) + 1
  BY FS_AddElement, Zenon
<1>3. IsFiniteSet(T) /\ Cardinality(T) <= Cardinality(S \cup {x})
  BY <1>1, FS_Subset
<1>4. Cardinality(T) \in Nat
  BY <1>3, FS_CardinalityType
<1>5. T \subseteq S => Cardinality(T) <= Cardinality(S)
  BY FS_Subset
<1>6. QED  BY <1>1, <1>2, <1>3, <1>4, <1>5

\* An admission that finds the bytes sufficient has room for one more job among
\* the outputs and the active jobs.
LEMMA RoomForOne ==
    ASSUME IsFiniteSet(outputs), IsFiniteSet(Active), ~BytesShort
    PROVE  Cardinality(outputs \cup Active) < MaxUnits
<1>1. /\ Cardinality(outputs) \in Nat /\ Cardinality(Active) \in Nat
      /\ Cardinality(outputs \cap Active) \in Nat
  BY FS_CardinalityType, FS_Intersection
<1>2. Cardinality(outputs \cup Active)
          = Cardinality(outputs) + Cardinality(Active) - Cardinality(outputs \cap Active)
  BY FS_Union
<1>3. ~(Cardinality(outputs) + Cardinality(Active) + 1 > MaxUnits)
  BY DEF BytesShort
<1>4. QED  BY <1>1, <1>2, <1>3, ConstantsAssumption

\* The admission after a step: none, the same with the step it had or one for which
\* there is room, or a new one.
LEMMA AdmissionSteps ==
    ASSUME StoreInv, [Next]_vars, op' # NoOp
    PROVE  /\ Active' \subseteq Active /\ Stored' \subseteq Stored
           /\ outputs' \subseteq outputs \cup Active
           /\ \/ /\ op # NoOp
                 /\ op'.kind = op.kind
                 /\ op'.step = "write" => op.step = "write" \/ (Fits /\ UNCHANGED <<outputs, recs>>)
              \/ /\ op = NoOp /\ UNCHANGED <<outputs, recs>>
                 /\ op'.step = "write" => Fits
                 /\ op'.kind = "start" => Cardinality(Active) < MaxActive
<1>0. TypeOK
  BY DEF StoreInv, IInv
<1>1. ASSUME NEW kind \in {"start", "cancel"}, NEW id \in Ids, NEW ws \in Workspaces,
             NEW hash \in Hashes \cup {NoHash}, Admit(kind, id, ws, hash)
      PROVE  /\ op = NoOp /\ UNCHANGED <<outputs, recs, phase>>
             /\ op'.step = "write" => Fits
             /\ op'.kind = "start" => Cardinality(Active) < MaxActive
  BY <1>1 DEF Admit, LockFree, store, tasks
<1>2. CASE CommitReceipts \/ FinishBatch \/ FinishScan
           \/ \E id \in Ids : UnlinkRecord(id) \/ RemoveOutput(id)
  <2>1. op \in Admission /\ op # NoOp
    BY <1>0, <1>2 DEF CommitReceipts, FinishBatch, FinishScan, UnlinkRecord, RemoveOutput, TypeOK
  <2>2. CASE CommitReceipts
    BY <2>1, <2>2 DEF CommitReceipts, AdmissionFails, Admission, Active, Stored, tasks
  <2>3. CASE FinishBatch
    BY <2>1, <2>3 DEF FinishBatch, AdmissionFails, Admission, Active, Stored, tasks
  <2>4. CASE FinishScan
    BY <2>1, <2>4 DEF FinishScan, AdmissionFails, Admission, Active, Stored, tasks, store
  <2>5. ASSUME NEW id \in Ids, UnlinkRecord(id)
        PROVE  /\ op' = op /\ Active' = Active /\ Stored' \subseteq Stored /\ outputs' = outputs
    BY <1>0, <2>5 DEF UnlinkRecord, AdmissionFails, Active, Stored, tasks, TypeOK
  <2>6. ASSUME NEW id \in Ids, RemoveOutput(id)
        PROVE  /\ op'.kind = op.kind /\ op'.step = op.step
               /\ Active' = Active /\ Stored' = Stored /\ outputs' \subseteq outputs
    BY <2>1, <2>6 DEF RemoveOutput, AdmissionFails, Admission, Active, Stored, tasks
  <2>7. QED  BY <1>2, <2>1, <2>2, <2>3, <2>4, <2>5, <2>6
<1>3. ASSUME NEW id \in Ids,
             NotStarted(id) \/ PassCancellationCheck(id) \/ Spawn(id) \/ ProcessEnds(id)
      PROVE  /\ op' = op /\ UNCHANGED recs /\ outputs' \subseteq outputs \cup Active
             /\ Active' = Active
  <2>1. phase[id] # "none" /\ op' = op /\ UNCHANGED recs /\ outputs' \subseteq outputs \cup {id}
    BY <1>3 DEF NotStarted, PassCancellationCheck, Spawn, ProcessEnds, store
  <2>2. \A i \in Ids : phase'[i] = "none" <=> phase[i] = "none"
    BY <1>0, <1>3 DEF NotStarted, PassCancellationCheck, Spawn, ProcessEnds, SetTask, TypeOK
  <2>3. QED  BY <2>1, <2>2 DEF Active
<1>4. CASE UNCHANGED <<recs, phase, op>> /\ outputs' \subseteq outputs
  BY <1>4 DEF Active, Stored
<1>5. ASSUME NEW id \in Ids, Interrupts(id) \/ Complete(id)
      PROVE  FALSE
  BY <1>5 DEF Interrupts, Complete, LockFree
<1>6. CASE PersistNew \/ Exit \/ Crash \/ PowerLoss
  BY <1>6 DEF PersistNew, Exit, Crash, PowerLoss, LoseMemory
<1>7. QED
  <2>1. CASE \E kind \in {"start", "cancel"}, id \in Ids, ws \in Workspaces,
                hash \in Hashes \cup {NoHash} : Admit(kind, id, ws, hash)
    BY <1>1, <2>1 DEF Active, Stored
  <2>2. CASE \E id \in Ids : \/ NotStarted(id) \/ PassCancellationCheck(id) \/ Spawn(id)
                             \/ ProcessEnds(id)
    BY <1>3, <2>2, <1>0 DEF Active, Stored
  <2>3. QED
    BY <1>2, <1>4, <1>5, <1>6, <2>1, <2>2, StoreCases
       DEF Idle, Approve, ApprovalLapses, ReadOutputBegin, ReadOutputEnd, Shutdown, Boot,
           BootFinish, store, tasks

\* After a step that leaves no admission, at most the admitted id is new.
LEMMA UsageSteps ==
    ASSUME StoreInv, [Next]_vars, op' = NoOp
    PROVE  /\ \/ Active' \subseteq Active
              \/ op # NoOp /\ op.step = "write" /\ op.kind = "start"
                 /\ Active' \subseteq Active \cup {op.id}
           /\ \/ outputs' \cup Active' \subseteq outputs \cup Active
              \/ op # NoOp /\ op.step = "write"
                 /\ outputs' \cup Active' \subseteq (outputs \cup Active) \cup {op.id}
           /\ outputs' \subseteq outputs \cup Active
           /\ \/ Stored' \subseteq Stored
              \/ op # NoOp /\ op.step = "write" /\ Stored' \subseteq Stored \cup {op.id}
              \/ PowerLoss
<1>0. TypeOK /\ NoRecord \notin Record
  BY NoRecordAssumption DEF StoreInv, IInv
<1>1. CASE PersistNew
  <2>1. /\ op # NoOp /\ op.step = "write" /\ op.id \in Ids /\ outputs' = outputs
        /\ \E new : Writes(op.id, new)
        /\ \/ phase' = phase
           \/ op.kind = "start" /\ phase' = [phase EXCEPT ![op.id] = "queued"]
    BY <1>1, PersistWrites
  <2>2. Stored' \subseteq Stored \cup {op.id}
    BY <2>1 DEF Stored, Writes
  <2>3. \/ Active' \subseteq Active
        \/ op.kind = "start" /\ Active' \subseteq Active \cup {op.id}
    BY <1>0, <2>1 DEF Active, TypeOK
  <2>4. QED  BY <2>1, <2>2, <2>3
<1>2. ASSUME NEW id \in Ids, Interrupts(id)
      PROVE  Active' = Active /\ outputs' = outputs /\ Stored' \subseteq Stored
  <2>1. PICK new : Writes(id, new)
    BY <1>2 DEF Interrupts
  <2>2. QED  BY <1>2, <2>1 DEF Interrupts, Writes, Active, Stored, tasks
<1>3. ASSUME NEW id \in Ids, Complete(id)
      PROVE  Active' \subseteq Active /\ outputs' = outputs /\ Stored' \subseteq Stored
  <2>1. Ends(id)
    BY <1>3, CompleteWrites
  <2>2. recs[id] # NoRecord /\ \E new : Writes(id, new)
    BY <2>1 DEF Ends
  <2>3. QED  BY <1>0, <1>3, <2>2 DEF Complete, Writes, Active, Stored, TypeOK
<1>4. ASSUME NEW id \in Ids,
             NotStarted(id) \/ PassCancellationCheck(id) \/ Spawn(id) \/ ProcessEnds(id)
      PROVE  Stored' = Stored /\ outputs' \subseteq outputs \cup Active /\ Active' = Active
  <2>1. phase[id] # "none" /\ UNCHANGED recs /\ outputs' \subseteq outputs \cup {id}
    BY <1>4 DEF NotStarted, PassCancellationCheck, Spawn, ProcessEnds, store
  <2>2. \A i \in Ids : phase'[i] = "none" <=> phase[i] = "none"
    BY <1>0, <1>4 DEF NotStarted, PassCancellationCheck, Spawn, ProcessEnds, SetTask, TypeOK
  <2>3. QED  BY <2>1, <2>2 DEF Active, Stored
<1>5. CASE Exit \/ Crash \/ PowerLoss
  <2>1. Active' = {} /\ outputs' = outputs /\ (PowerLoss \/ recs' = recs)
    BY <1>5 DEF Exit, Crash, PowerLoss, LoseMemory, Active, store
  <2>2. QED  BY <2>1 DEF Stored
<1>6. CASE UNCHANGED <<recs, phase>> /\ outputs' \subseteq outputs
  BY <1>6 DEF Active, Stored
<1>7. ASSUME NEW id \in Ids, UnlinkRecord(id)
      PROVE  Active' = Active /\ outputs' = outputs /\ Stored' \subseteq Stored
  BY <1>0, <1>7 DEF UnlinkRecord, Active, Stored, TypeOK, tasks
<1>8. QED
  BY <1>1, <1>2, <1>3, <1>4, <1>5, <1>6, <1>7, StoreCases
     DEF Idle, RemoveOutput, Approve, ApprovalLapses, Admit, ReadOutputBegin, ReadOutputEnd,
         CommitReceipts, FinishBatch, FinishScan, Shutdown, Boot, BootFinish, store, tasks

\* The byte budget and the number of active jobs hold after every step, a power loss
\* included.
LEMMA UnitsStep ==
    ASSUME StoreInv, UnitsInv, [Next]_vars
    PROVE  UnitsInv'
<1> DEFINE U == outputs \cup Active
<1>0. IsFiniteSet(U) /\ MaxUnits \in Nat /\ MaxActive \in Nat
  BY FS_Union, ConstantsAssumption DEF UnitsInv
<1>1. Cardinality(U) \in Nat /\ Cardinality(Active) \in Nat
  BY <1>0, FS_CardinalityType DEF UnitsInv
<1>2. CASE op' = NoOp
  <2>1. IsFiniteSet(outputs')
    BY <1>0, <1>2, FS_Subset, UsageSteps
  <2>2. IsFiniteSet(Active') /\ Cardinality(Active') <= MaxActive
    <3>1. CASE Active' \subseteq Active
      <4>1. IsFiniteSet(Active') /\ Cardinality(Active') <= Cardinality(Active)
            /\ Cardinality(Active') \in Nat
        BY <3>1, FS_Subset, FS_CardinalityType DEF UnitsInv
      <4>2. QED  BY <1>0, <1>1, <4>1 DEF UnitsInv
    <3>2. CASE op # NoOp /\ op.kind = "start" /\ Active' \subseteq Active \cup {op.id}
      <4>1. IsFiniteSet(Active') /\ Cardinality(Active') <= Cardinality(Active) + 1
            /\ Cardinality(Active') \in Nat
        BY <3>2, GrowsByOne DEF UnitsInv
      <4>2. QED  BY <1>0, <1>1, <3>2, <4>1 DEF UnitsInv
    <3>3. QED  BY <1>2, <3>1, <3>2, UsageSteps
  <2>3. Cardinality(U') <= MaxUnits
    <3>1. CASE U' \subseteq U
      <4>1. Cardinality(U') <= Cardinality(U) /\ Cardinality(U') \in Nat
        BY <1>0, <3>1, FS_Subset, FS_CardinalityType
      <4>2. QED  BY <1>0, <1>1, <4>1 DEF UnitsInv
    <3>2. CASE op # NoOp /\ op.step = "write" /\ U' \subseteq U \cup {op.id}
      <4>1. Cardinality(U') <= Cardinality(U) + 1 /\ Cardinality(U') \in Nat
        BY <1>0, <3>2, GrowsByOne
      <4>2. Cardinality(U) < MaxUnits
        BY <3>2 DEF UnitsInv
      <4>3. QED  BY <1>0, <1>1, <4>1, <4>2
    <3>3. QED  BY <1>2, <3>1, <3>2, UsageSteps
  <2>4. QED  BY <1>2, <2>1, <2>2, <2>3 DEF UnitsInv
<1>3. CASE op' # NoOp
  <2>1. Active' \subseteq Active /\ outputs' \subseteq U /\ U' \subseteq U
    BY <1>3, AdmissionSteps
  <2>2. /\ IsFiniteSet(Active') /\ IsFiniteSet(outputs')
        /\ Cardinality(Active') <= Cardinality(Active) /\ Cardinality(Active') \in Nat
        /\ Cardinality(U') <= Cardinality(U) /\ Cardinality(U') \in Nat
    BY <1>0, <2>1, FS_Subset, FS_CardinalityType DEF UnitsInv
  <2>3. Fits => Cardinality(U) < MaxUnits
    BY RoomForOne DEF Fits, UnitsInv
  <2>4. /\ op'.step = "write" => Cardinality(U) < MaxUnits
        /\ op'.kind = "start" => Cardinality(Active) < MaxActive
    BY <1>3, <2>3, AdmissionSteps DEF UnitsInv
  <2>5. QED  BY <1>0, <1>1, <2>2, <2>4 DEF UnitsInv
<1>4. QED  BY <1>2, <1>3

\* The number of records holds after every step but a power loss.
LEMMA RecordsStep ==
    ASSUME "power" \notin Disruptions, StoreInv, RecordsInv, [Next]_vars
    PROVE  RecordsInv'
<1>0. MaxRecords \in Nat /\ Cardinality(Stored) \in Nat
  BY ConstantsAssumption, FS_CardinalityType DEF RecordsInv
<1>1. CASE op' = NoOp
  <2>1. ~PowerLoss
    BY DEF PowerLoss, Disrupt
  <2>2. CASE Stored' \subseteq Stored
    <3>1. IsFiniteSet(Stored') /\ Cardinality(Stored') <= Cardinality(Stored)
          /\ Cardinality(Stored') \in Nat
      BY <2>2, FS_Subset, FS_CardinalityType DEF RecordsInv
    <3>2. QED  BY <1>0, <1>1, <3>1 DEF RecordsInv
  <2>3. CASE op # NoOp /\ op.step = "write" /\ Stored' \subseteq Stored \cup {op.id}
    <3>1. IsFiniteSet(Stored') /\ Cardinality(Stored') <= Cardinality(Stored) + 1
          /\ Cardinality(Stored') \in Nat
      BY <2>3, GrowsByOne DEF RecordsInv
    <3>2. QED  BY <1>0, <1>1, <2>3, <3>1 DEF RecordsInv
  <2>4. QED  BY <1>1, <2>1, <2>2, <2>3, UsageSteps
<1>2. CASE op' # NoOp
  <2>1. IsFiniteSet(Stored') /\ Cardinality(Stored') <= Cardinality(Stored)
        /\ Cardinality(Stored') \in Nat
    BY <1>2, AdmissionSteps, FS_Subset, FS_CardinalityType DEF RecordsInv
  <2>2. op'.step = "write" => Cardinality(Stored) < MaxRecords
    BY <1>2, AdmissionSteps DEF Fits, RecordsInv
  <2>3. QED  BY <1>0, <2>1, <2>2 DEF RecordsInv
<1>3. QED  BY <1>1, <1>2

\* The active jobs stay within their number, and with the outputs on disk within
\* the byte budget, whatever fails, power losses included.
THEOREM BytesStayWithinQuota ==
    Spec => [](/\ Cardinality(outputs \cup Active) <= MaxUnits
               /\ Cardinality(Active) <= MaxActive)
<1>1. Init => UnitsInv
  <2> SUFFICES ASSUME Init PROVE UnitsInv
    OBVIOUS
  <2>1. outputs = {} /\ Active = {} /\ outputs \cup Active = {} /\ op = NoOp
    BY DEF Init, Active
  <2>2. QED  BY <2>1, FS_EmptySet, ConstantsAssumption DEF UnitsInv
<1>2. StoreInv /\ UnitsInv /\ [Next]_vars => UnitsInv'
  BY UnitsStep
<1>3. UnitsInv => /\ Cardinality(outputs \cup Active) <= MaxUnits
                  /\ Cardinality(Active) <= MaxActive
  BY DEF UnitsInv
<1>4. QED  BY <1>1, <1>2, <1>3, StoreInvariance, PTL DEF Spec

\* Without power losses the store keeps its whole quota, the number of records too.
\* (A power loss can bring back a record that was reclaimed and already replaced.)
THEOREM QuotaHolds ==
    ASSUME "power" \notin Disruptions
    PROVE  Spec => []QuotaRespected
<1>1. Init => RecordsInv
  <2> SUFFICES ASSUME Init PROVE RecordsInv
    OBVIOUS
  <2>1. Stored = {} /\ op = NoOp
    BY DEF Init, Stored
  <2>2. QED  BY <2>1, FS_EmptySet, ConstantsAssumption DEF RecordsInv
<1>2. StoreInv /\ RecordsInv /\ [Next]_vars => RecordsInv'
  BY RecordsStep
<1>3. (/\ Cardinality(outputs \cup Active) <= MaxUnits
       /\ Cardinality(Active) <= MaxActive) /\ RecordsInv => QuotaRespected
  BY DEF RecordsInv, QuotaRespected
<1>4. QED  BY <1>1, <1>2, <1>3, StoreInvariance, BytesStayWithinQuota, PTL DEF Spec

=============================================================================
