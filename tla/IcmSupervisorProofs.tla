------------------------ MODULE IcmSupervisorProofs ------------------------
(***************************************************************************)
(* Proofs about IcmSupervisor, for any number of supervisors and ICM       *)
(* processes: type correctness and the discipline of the lock however      *)
(* supervisors share a data root, and a single writer when they follow one *)
(* another, as they do under the lock of the daemon.                       *)
(***************************************************************************)
EXTENDS IcmSupervisor, TLAPS

\* The stages in which a supervisor has a child that may be alive, and those in
\* which it knows that no ICM process is
Busy == {"spawned", "committed", "waiting", "aborting", "stopping"}
Quiet == {"clear", "starting", "aborted", "stopped", "exited", "forgetting"}
Locking == Busy \cup {"locked", "clear", "starting", "aborted", "stopped"}

\* A process is owned between two methods, or while its end is recorded.
OwnedStages ==
    \A s \in Supervisors : process[s] = "Owned" => stage[s] \in {"idle", "exited", "forgetting"}

\* The lock is held from its acquisition to the end of the child.
LockHeld ==
    \A s \in Supervisors :
        stage[s] \in Locking \/ (process[s] = "Owned" /\ stage[s] = "idle") => lock = s

LockInv == TypeOK /\ OwnedStages /\ LockHeld

LEMMA LockNext == LockInv /\ [Next]_vars => LockInv'
<1> SUFFICES ASSUME LockInv, [Next]_vars PROVE LockInv'
  OBVIOUS
<1> USE DEF LockInv, TypeOK, OwnedStages, LockHeld, Locking, Busy, Stages, At, Unlock, CanFail, Absent, Starting, Committed, Alive, Running
<1> USE SupervisorAssumption DEF SupervisorAssumption
<1>1. ASSUME NEW s \in Supervisors, New(s) PROVE LockInv'
  BY <1>1 DEF New
<1>2. ASSUME NEW s \in Supervisors, Acquire(s) PROVE LockInv'
  BY <1>2 DEF Acquire
<1>3. ASSUME NEW s \in Supervisors, AttachToOwner(s) PROVE LockInv'
  BY <1>3 DEF AttachToOwner
<1>4. ASSUME NEW s \in Supervisors, Inspect(s) PROVE LockInv'
  BY <1>4 DEF Inspect
<1>5. ASSUME NEW s \in Supervisors, Refuse(s) PROVE LockInv'
  BY <1>5 DEF Refuse
<1>6. ASSUME NEW s \in Supervisors, AttachToOrphan(s) PROVE LockInv'
  BY <1>6 DEF AttachToOrphan
<1>7. ASSUME NEW s \in Supervisors, Announce(s) PROVE LockInv'
  BY <1>7 DEF Announce
<1>8. ASSUME NEW s \in Supervisors, AnnounceFails(s) PROVE LockInv'
  BY <1>8 DEF AnnounceFails
<1>9. ASSUME NEW s \in Supervisors, Spawn(s) PROVE LockInv'
  BY <1>9 DEF Spawn
<1>10. ASSUME NEW s \in Supervisors, SpawnFails(s) PROVE LockInv'
  BY <1>10 DEF SpawnFails
<1>11. ASSUME NEW s \in Supervisors, Commit(s) PROVE LockInv'
  BY <1>11 DEF Commit
<1>12. ASSUME NEW s \in Supervisors, CommitFails(s) PROVE LockInv'
  BY <1>12 DEF CommitFails
<1>13. ASSUME NEW s \in Supervisors, WritePid(s) PROVE LockInv'
  BY <1>13 DEF WritePid
<1>14. ASSUME NEW s \in Supervisors, WritePidFails(s) PROVE LockInv'
  BY <1>14 DEF WritePidFails
<1>15. ASSUME NEW s \in Supervisors, Ready(s) PROVE LockInv'
  BY <1>15 DEF Ready
<1>16. ASSUME NEW s \in Supervisors, NotReady(s) PROVE LockInv'
  BY <1>16 DEF NotReady
<1>17. ASSUME NEW s \in Supervisors, Stop(s) PROVE LockInv'
  BY <1>17 DEF Stop
<1>18. ASSUME NEW s \in Supervisors, Detach(s) PROVE LockInv'
  BY <1>18 DEF Detach
<1>19. ASSUME NEW s \in Supervisors, Terminate(s) PROVE LockInv'
  BY <1>19 DEF Terminate
<1>20. ASSUME NEW s \in Supervisors, TerminateFails(s) PROVE LockInv'
  BY <1>20 DEF TerminateFails
<1>21. ASSUME NEW s \in Supervisors, Clean(s) PROVE LockInv'
  BY <1>21 DEF Clean
<1>22. ASSUME NEW s \in Supervisors, ReleaseLock(s) PROVE LockInv'
  BY <1>22 DEF ReleaseLock
<1>23. ASSUME NEW s \in Supervisors, ReleaseIdentity(s) PROVE LockInv'
  BY <1>23 DEF ReleaseIdentity
<1>24. ASSUME NEW s \in Supervisors, ReleasePid(s) PROVE LockInv'
  BY <1>24 DEF ReleasePid
<1>25. ASSUME NEW s \in Supervisors, Crash(s) PROVE LockInv'
  BY <1>25 DEF Crash
<1>26. ASSUME NEW p \in Processes, Exit(p) PROVE LockInv'
  BY <1>26 DEF Exit
<1>27. CASE UNCHANGED vars
  BY <1>27 DEF vars
<1> QED
  BY <1>1, <1>2, <1>3, <1>4, <1>5, <1>6, <1>7, <1>8, <1>9, <1>10, <1>11, <1>12, <1>13, <1>14, <1>15, <1>16, <1>17, <1>18, <1>19, <1>20, <1>21, <1>22, <1>23, <1>24, <1>25, <1>26, <1>27
  DEF Next, Launch, End

LEMMA LockInit == Init => LockInv
BY SupervisorAssumption DEF Init, LockInv, TypeOK, OwnedStages, LockHeld, Locking, Busy, Stages,
   Absent, SupervisorAssumption

\* Type correctness: in particular a supervisor that owns a child, or has one
\* half started, never loses its handle.
THEOREM TypeCorrect == Spec => []TypeOK
<1>1. LockInv => TypeOK
  BY DEF LockInv
<1> QED BY LockInit, LockNext, <1>1, PTL DEF Spec

\* However supervisors share a data root, crash and come back, at most one owns,
\* starts or stops an ICM process, and it holds the lock.
THEOREM SingleOwner == Spec => []OneOwner
<1>1. LockInv => OneOwner
  BY DEF LockInv, LockHeld, OneOwner, Owners, Locking, Busy
<1> QED BY LockInit, LockNext, <1>1, PTL DEF Spec

-----------------------------------------------------------------------------
(* One writer, when one supervisor follows the other *)

OneRunning == \A s, t \in Supervisors : Running(s) /\ Running(t) => s = t

\* The identity on disk stands for every process that is alive: nothing removes
\* it before the process is known to be dead.
Fenced == \A p \in Processes : Alive(p) => service \in {Starting, Committed(p)}

\* What a supervisor knows in each of its stages
Known ==
    \A s \in Supervisors :
        /\ stage[s] = "starting" => service = Starting
        /\ stage[s] \in Quiet => \A p \in Processes : ~Alive(p)
        /\ stage[s] \in Busy \/ process[s] = "Owned" =>
              \A p \in Processes : Alive(p) => p = child[s]

FenceInv == sharing = "daemon" => OneRunning /\ Fenced /\ Known /\ OneIcm

LEMMA FenceNext == LockInv /\ FenceInv /\ [Next]_vars => FenceInv'
<1> SUFFICES ASSUME LockInv, FenceInv, [Next]_vars PROVE FenceInv'
  OBVIOUS
<1> USE DEF FenceInv, OneRunning, Fenced, Known, OneIcm, Quiet, TypeOK, OwnedStages, LockHeld, Locking, Busy, Stages, At, Unlock, CanFail, Absent, Starting, Committed, Alive, Running, LockInv
<1> USE SupervisorAssumption DEF SupervisorAssumption
<1>1. ASSUME NEW s \in Supervisors, New(s) PROVE FenceInv'
  BY <1>1 DEF New
<1>2. ASSUME NEW s \in Supervisors, Acquire(s) PROVE FenceInv'
  BY <1>2 DEF Acquire
<1>3. ASSUME NEW s \in Supervisors, AttachToOwner(s) PROVE FenceInv'
  BY <1>3 DEF AttachToOwner
<1>4. ASSUME NEW s \in Supervisors, Inspect(s) PROVE FenceInv'
  <2>1. sharing = "daemon" => \A p \in Processes : ~Alive(p)
    BY <1>4 DEF Inspect, Uncertain
  <2> QED BY <1>4, <2>1 DEF Inspect
<1>5. ASSUME NEW s \in Supervisors, Refuse(s) PROVE FenceInv'
  BY <1>5 DEF Refuse
<1>6. ASSUME NEW s \in Supervisors, AttachToOrphan(s) PROVE FenceInv'
  BY <1>6 DEF AttachToOrphan
<1>7. ASSUME NEW s \in Supervisors, Announce(s) PROVE FenceInv'
  BY <1>7 DEF Announce
<1>8. ASSUME NEW s \in Supervisors, AnnounceFails(s) PROVE FenceInv'
  BY <1>8 DEF AnnounceFails
<1>9. ASSUME NEW s \in Supervisors, Spawn(s) PROVE FenceInv'
  BY <1>9 DEF Spawn
<1>10. ASSUME NEW s \in Supervisors, SpawnFails(s) PROVE FenceInv'
  BY <1>10 DEF SpawnFails
<1>11. ASSUME NEW s \in Supervisors, Commit(s) PROVE FenceInv'
  BY <1>11 DEF Commit
<1>12. ASSUME NEW s \in Supervisors, CommitFails(s) PROVE FenceInv'
  BY <1>12 DEF CommitFails
<1>13. ASSUME NEW s \in Supervisors, WritePid(s) PROVE FenceInv'
  BY <1>13 DEF WritePid
<1>14. ASSUME NEW s \in Supervisors, WritePidFails(s) PROVE FenceInv'
  BY <1>14 DEF WritePidFails
<1>15. ASSUME NEW s \in Supervisors, Ready(s) PROVE FenceInv'
  BY <1>15 DEF Ready
<1>16. ASSUME NEW s \in Supervisors, NotReady(s) PROVE FenceInv'
  BY <1>16 DEF NotReady
<1>17. ASSUME NEW s \in Supervisors, Stop(s) PROVE FenceInv'
  BY <1>17 DEF Stop
<1>18. ASSUME NEW s \in Supervisors, Detach(s) PROVE FenceInv'
  BY <1>18 DEF Detach
<1>19. ASSUME NEW s \in Supervisors, Terminate(s) PROVE FenceInv'
  BY <1>19 DEF Terminate
<1>20. ASSUME NEW s \in Supervisors, TerminateFails(s) PROVE FenceInv'
  BY <1>20 DEF TerminateFails
<1>21. ASSUME NEW s \in Supervisors, Clean(s) PROVE FenceInv'
  BY <1>21 DEF Clean
<1>22. ASSUME NEW s \in Supervisors, ReleaseLock(s) PROVE FenceInv'
  BY <1>22 DEF ReleaseLock
<1>23. ASSUME NEW s \in Supervisors, ReleaseIdentity(s) PROVE FenceInv'
  BY <1>23 DEF ReleaseIdentity
<1>24. ASSUME NEW s \in Supervisors, ReleasePid(s) PROVE FenceInv'
  BY <1>24 DEF ReleasePid
<1>25. ASSUME NEW s \in Supervisors, Crash(s) PROVE FenceInv'
  BY <1>25 DEF Crash
<1>26. ASSUME NEW p \in Processes, Exit(p) PROVE FenceInv'
  BY <1>26 DEF Exit
<1>27. CASE UNCHANGED vars
  BY <1>27 DEF vars
<1> QED
  BY <1>1, <1>2, <1>3, <1>4, <1>5, <1>6, <1>7, <1>8, <1>9, <1>10, <1>11, <1>12, <1>13, <1>14, <1>15, <1>16, <1>17, <1>18, <1>19, <1>20, <1>21, <1>22, <1>23, <1>24, <1>25, <1>26, <1>27
  DEF Next, Launch, End

LEMMA FenceInit == Init => FenceInv
BY DEF Init, FenceInv, OneRunning, Fenced, Known, OneIcm, Quiet, Busy, Alive, Running

\* Under the lock of the daemon at most one ICM process has the database open,
\* wherever a supervisor crashes, an ICM process outlives it, or a file
\* operation fails: the launch is announced before the process exists, and
\* service.json is removed only when no process is left.
THEOREM SingleWriter == Spec => []OneWriter
<1>1. FenceInv => OneWriter
  BY DEF FenceInv, OneWriter
<1>2. LockInv /\ FenceInv /\ [Next]_vars => LockInv' /\ FenceInv'
  BY LockNext, FenceNext
<1> QED BY LockInit, FenceInit, <1>1, <1>2, PTL DEF Spec

============================================================================
