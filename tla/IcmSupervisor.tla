---------------------------- MODULE IcmSupervisor ----------------------------
(***************************************************************************)
(* The supervisors of the ICM process of one data root                     *)
(* (crates/hzr-memory/src/supervisor.rs and runtime.rs): one ICM writes    *)
(* the memory database, although supervisors start, stop, crash and come   *)
(* back while the ICM process of an earlier one may be running.            *)
(*                                                                         *)
(* What guards the database is an advisory file lock, which dies with its  *)
(* owner, and the identity in runtime/service.json, which does not.  The   *)
(* lifecycle and process mutexes serialize the methods of one supervisor;  *)
(* several supervisors, each a process of its own, interleave.             *)
(***************************************************************************)
EXTENDS Integers, FiniteSets

CONSTANTS
    Supervisors,    \* incarnations of a supervisor
    Processes,      \* ICM processes, each started at most once
    None,           \* no supervisor, no process
    Garbled,        \* a PID file that holds no process ID
    Transport,      \* "Http" or "StdioMcp"
    Sharings,       \* "daemon": one supervisor at a time, as under the daemon's
                    \* lock; "library": supervisors run side by side
    MaxFailures     \* bound: how many file operations fail

ASSUME SupervisorAssumption ==
    /\ None \notin Supervisors \cup Processes
    /\ Garbled \notin Processes \cup {None}
    /\ Transport \in {"Http", "StdioMcp"}
    /\ Sharings \subseteq {"daemon", "library"}
    /\ MaxFailures \in Nat

\* Where a supervisor is: not created or gone; between two methods; or after a
\* step of start_locked, stop_locked or release_owned.
Stages == {"off", "gone", "idle", "locked", "clear", "starting", "spawned",
           "committed", "waiting", "aborting", "aborted", "stopping", "stopped",
           "exited", "forgetting"}

VARIABLES
    \* Durable state
    service,    \* service.json: absent, starting, or committed with a process
    pid_file,   \* icm.pid
    \* The operating system
    lock,       \* the supervisor that holds the lock file
    icm,        \* "unused", "alive" or "dead"
    \* The supervisors
    stage,
    process,    \* ManagedProcess: "Stopped", "Owned", or "Attached"
    child,      \* the process a supervisor has a handle on
    failures,   \* how many file operations failed
    sharing     \* how supervisors share the data root: fixed

vars == <<sharing, service, pid_file, lock, icm, stage, process, child, failures>>

Absent == [state |-> "absent", process |-> None]
Starting == [state |-> "starting", process |-> None]
Committed(p) == [state |-> "committed", process |-> p]

\* The supervisor of an owned or half-started process has its handle.
TypeOK ==
    /\ service \in {Absent, Starting} \cup {Committed(p) : p \in Processes}
    /\ pid_file \in Processes \cup {None, Garbled}
    /\ lock \in Supervisors \cup {None}
    /\ icm \in [Processes -> {"unused", "alive", "dead"}]
    /\ stage \in [Supervisors -> Stages]
    /\ process \in [Supervisors -> {"Stopped", "Owned", "Attached"}]
    /\ child \in [Supervisors -> Processes \cup {None}]
    /\ failures \in Nat
    /\ sharing \in {"daemon", "library"}
    /\ \A s \in Supervisors :
          process[s] = "Owned"
              \/ stage[s] \in {"spawned", "committed", "waiting", "aborting", "stopping"}
          => child[s] # None

Init ==
    /\ service = Absent /\ pid_file = None
    /\ lock = None
    /\ icm = [p \in Processes |-> "unused"]
    /\ stage = [s \in Supervisors |-> "off"]
    /\ process = [s \in Supervisors |-> "Stopped"]
    /\ child = [s \in Supervisors |-> None]
    /\ failures = 0
    /\ sharing \in Sharings

Alive(p) == p \in Processes /\ icm[p] = "alive"
Running(s) == stage[s] \notin {"off", "gone"}

At(s, from, to) == stage[s] = from /\ stage' = [stage EXCEPT ![s] = to]

CanFail == failures < MaxFailures /\ failures' = failures + 1

\* The handle of the lock file is closed.
Unlock(s) == lock' = IF lock = s THEN None ELSE lock

-----------------------------------------------------------------------------
(* start_locked *)

New(s) ==
    /\ At(s, "off", "idle")
    /\ sharing = "daemon" => \A t \in Supervisors : ~Running(t)
    /\ UNCHANGED <<sharing, service, pid_file, lock, icm, process, child, failures>>

\* Mutant: the lock is taken although another supervisor holds it.
AcquireAnyway(s) ==
    /\ At(s, "idle", "locked") /\ process[s] = "Stopped"
    /\ lock' = s
    /\ UNCHANGED <<sharing, service, pid_file, icm, process, child, failures>>

\* acquire_lock.  A caller that finds the lock taken fails, and changes nothing,
\* unless it can attach.
Acquire(s) ==
    /\ At(s, "idle", "locked") /\ process[s] = "Stopped"
    /\ lock = None
    /\ lock' = s
    /\ UNCHANGED <<sharing, service, pid_file, icm, process, child, failures>>

\* acquire_lock: the lock is taken, and the process of its owner is up.
AttachToOwner(s) ==
    /\ stage[s] = "idle" /\ process[s] = "Stopped"
    /\ lock # None /\ Transport = "Http"
    /\ service.state = "committed" /\ Alive(service.process)
    /\ process' = [process EXCEPT ![s] = "Attached"]
    /\ UNCHANGED <<sharing, service, pid_file, lock, icm, stage, child, failures>>

\* The process an earlier launch left is alive, or may be: without a committed
\* identity that cannot be told.
Uncertain ==
    \/ service.state = "starting"
    \/ service.state = "committed" /\ Alive(service.process)
    \/ service.state = "absent" /\ (pid_file = Garbled \/ Alive(pid_file))

\* An earlier launch that ended is forgotten.
Inspect(s) ==
    /\ At(s, "locked", "clear") /\ ~Uncertain
    /\ service' = Absent /\ pid_file' = None
    /\ UNCHANGED <<sharing, lock, icm, process, child, failures>>

\* OwnershipUncertain, or an identity that cannot be read: the start fails and
\* its handle of the lock file is closed.
Refuse(s) ==
    /\ At(s, "locked", "idle")
    /\ (Uncertain /\ UNCHANGED failures) \/ CanFail
    /\ Unlock(s)
    /\ UNCHANGED <<sharing, service, pid_file, icm, process, child>>

\* The process of a crashed supervisor answers: the lock is kept.
AttachToOrphan(s) ==
    /\ At(s, "locked", "idle") /\ Transport = "Http"
    /\ service.state = "committed" /\ Alive(service.process)
    /\ process' = [process EXCEPT ![s] = "Attached"]
    /\ UNCHANGED <<sharing, service, pid_file, lock, icm, child, failures>>

\* Mutant: the launch is not announced before the process is spawned.
AnnounceNothing(s) ==
    /\ At(s, "clear", "starting")
    /\ UNCHANGED <<sharing, service, pid_file, lock, icm, process, child, failures>>

\* runtime.persist, before the spawn
Announce(s) ==
    /\ At(s, "clear", "starting")
    /\ service' = Starting
    /\ UNCHANGED <<sharing, pid_file, lock, icm, process, child, failures>>

\* It fails, before or after the rename.
AnnounceFails(s) ==
    /\ At(s, "clear", "idle") /\ CanFail
    /\ service' \in {service, Starting}
    /\ Unlock(s)
    /\ UNCHANGED <<sharing, pid_file, icm, process, child>>

Spawn(s) ==
    /\ At(s, "starting", "spawned")
    /\ \E p \in Processes :
          /\ icm[p] = "unused"
          /\ icm' = [icm EXCEPT ![p] = "alive"]
          /\ child' = [child EXCEPT ![s] = p]
    /\ UNCHANGED <<sharing, service, pid_file, lock, process, failures>>

SpawnFails(s) ==
    /\ At(s, "starting", "idle") /\ CanFail
    /\ service' = Absent
    /\ Unlock(s)
    /\ UNCHANGED <<sharing, pid_file, icm, process, child>>

\* runtime.persist with the identity of the child
Commit(s) ==
    /\ At(s, "spawned", "committed") /\ Alive(child[s])
    /\ service' = Committed(child[s])
    /\ UNCHANGED <<sharing, pid_file, lock, icm, process, child, failures>>

\* The child has ended already, or the identity cannot be persisted.
CommitFails(s) ==
    /\ At(s, "spawned", "aborting")
    /\ \/ ~Alive(child[s]) /\ UNCHANGED <<service, failures>>
       \/ Alive(child[s]) /\ CanFail /\ service' \in {service, Committed(child[s])}
    /\ UNCHANGED <<sharing, pid_file, lock, icm, process, child>>

WritePid(s) ==
    /\ At(s, "committed", "waiting")
    /\ pid_file' = child[s]
    /\ UNCHANGED <<sharing, service, lock, icm, process, child, failures>>

WritePidFails(s) ==
    /\ At(s, "committed", "aborting") /\ CanFail
    /\ pid_file' \in {pid_file, Garbled}
    /\ UNCHANGED <<sharing, service, lock, icm, process, child>>

\* Mutant: the handle of the child is not kept.
ReadyWithoutHandle(s) ==
    /\ At(s, "waiting", "idle") /\ Alive(child[s])
    /\ process' = [process EXCEPT ![s] = "Owned"]
    /\ child' = [child EXCEPT ![s] = None]
    /\ UNCHANGED <<sharing, service, pid_file, lock, icm, failures>>

\* wait_ready
Ready(s) ==
    /\ At(s, "waiting", "idle") /\ Alive(child[s])
    /\ process' = [process EXCEPT ![s] = "Owned"]
    /\ UNCHANGED <<sharing, service, pid_file, lock, icm, child, failures>>

\* The child exits or does not get ready in time.  This cleanup is that of
\* stop_locked.
NotReady(s) ==
    /\ At(s, "waiting", "stopping")
    /\ UNCHANGED <<sharing, service, pid_file, lock, icm, process, child, failures>>

-----------------------------------------------------------------------------
(* The ends of a process *)

\* stop, restart and stop_unready_owned, of a child
Stop(s) ==
    /\ At(s, "idle", "stopping") /\ process[s] = "Owned"
    /\ process' = [process EXCEPT ![s] = "Stopped"]
    /\ UNCHANGED <<sharing, service, pid_file, lock, icm, child, failures>>

\* stop, or a readiness failure, of a process this supervisor does not own
Detach(s) ==
    /\ stage[s] = "idle" /\ process[s] = "Attached"
    /\ process' = [process EXCEPT ![s] = "Stopped"]
    /\ Unlock(s)
    /\ UNCHANGED <<sharing, service, pid_file, icm, stage, child, failures>>

\* terminate_child waits for the end of the child.
Terminate(s) ==
    /\ At(s, "aborting", "aborted") \/ At(s, "stopping", "stopped")
    /\ icm' = [icm EXCEPT ![child[s]] = "dead"]
    /\ UNCHANGED <<sharing, service, pid_file, lock, process, child, failures>>

\* terminate_child fails: the child is killed when its handle is dropped, which
\* nobody waits for, and the identity stays.
TerminateFails(s) ==
    /\ At(s, "aborting", "idle") \/ At(s, "stopping", "idle")
    /\ CanFail
    /\ child' = [child EXCEPT ![s] = None]
    /\ Unlock(s)
    /\ UNCHANGED <<sharing, service, pid_file, icm, process>>

\* RuntimeState::remove, for a stop also the PID file, and then the lock
Clean(s) ==
    /\ At(s, "aborted", "idle") \/ At(s, "stopped", "idle")
    /\ service' = Absent
    /\ pid_file' = IF stage[s] = "stopped" THEN None ELSE pid_file
    /\ child' = [child EXCEPT ![s] = None]
    /\ Unlock(s)
    /\ UNCHANGED <<sharing, icm, process, failures>>

\* release_owned, when try_wait finds the child exited (start_locked, status):
\* the lock goes first, the files after it.
ReleaseLock(s) ==
    /\ At(s, "idle", "exited")
    /\ process[s] = "Owned" /\ ~Alive(child[s])
    /\ Unlock(s)
    /\ UNCHANGED <<sharing, service, pid_file, icm, process, child, failures>>

ReleaseIdentity(s) ==
    /\ At(s, "exited", "forgetting")
    /\ service' = Absent
    /\ UNCHANGED <<sharing, pid_file, lock, icm, process, child, failures>>

ReleasePid(s) ==
    /\ At(s, "forgetting", "idle")
    /\ pid_file' = None
    /\ process' = [process EXCEPT ![s] = "Stopped"]
    /\ child' = [child EXCEPT ![s] = None]
    /\ UNCHANGED <<sharing, service, lock, icm, failures>>

\* The process of the supervisor ends, at any point.  A dropped supervisor kills
\* its child and unlocks but keeps the identity; a killed one does not even that.
Crash(s) ==
    /\ Running(s)
    /\ stage' = [stage EXCEPT ![s] = "gone"]
    /\ process' = [process EXCEPT ![s] = "Stopped"]
    /\ child' = [child EXCEPT ![s] = None]
    /\ Unlock(s)
    /\ UNCHANGED <<sharing, service, pid_file, icm, failures>>

\* ICM exits: by itself, killed, or (ICM_EXIT_WITH_PARENT_PID) some time after
\* its supervisor went.
Exit(p) ==
    /\ Alive(p)
    /\ icm' = [icm EXCEPT ![p] = "dead"]
    /\ UNCHANGED <<sharing, service, pid_file, lock, stage, process, child, failures>>

-----------------------------------------------------------------------------

Launch(s) ==
    \/ New(s) \/ Acquire(s) \/ AttachToOwner(s) \/ Inspect(s) \/ Refuse(s)
    \/ AttachToOrphan(s) \/ Announce(s) \/ AnnounceFails(s) \/ Spawn(s) \/ SpawnFails(s)
    \/ Commit(s) \/ CommitFails(s) \/ WritePid(s) \/ WritePidFails(s)
    \/ Ready(s) \/ NotReady(s)

End(s) ==
    \/ Stop(s) \/ Detach(s) \/ Terminate(s) \/ TerminateFails(s) \/ Clean(s)
    \/ ReleaseLock(s) \/ ReleaseIdentity(s) \/ ReleasePid(s) \/ Crash(s)

Next ==
    \/ \E s \in Supervisors : Launch(s) \/ End(s)
    \/ \E p \in Processes : Exit(p)

Spec == Init /\ [][Next]_vars

-----------------------------------------------------------------------------
(* Properties *)

OneIcm == \A p, q \in Processes : Alive(p) /\ Alive(q) => p = q

\* Under the daemon's lock two ICM processes never have the database of one data
\* root open, wherever a supervisor crashes and whatever process or file it leaves
\* to the next one: "a crash between spawn and identity commit must never authorize
\* a second writer" (start_locked, stop_locked, release_owned).
OneWriter == sharing = "daemon" => OneIcm

\* The supervisors that have, or are about to have, a child of their own
Owners ==
    {s \in Supervisors :
        \/ process[s] = "Owned" /\ stage[s] = "idle"
        \/ stage[s] \in {"clear", "starting", "spawned", "committed", "waiting",
                         "aborting", "stopping"}}

\* At most one supervisor owns, starts or stops an ICM process, and it holds the
\* lock, through every early return and crash (acquire_lock, start_locked,
\* stop_locked, release_owned): in particular not while another supervisor keeps
\* the lock for an orphan it attached to.
OneOwner ==
    /\ \A s, t \in Owners : s = t
    /\ \A s \in Owners : lock = s

=============================================================================
