---------------------------- MODULE IndexWatchers ----------------------------
(***************************************************************************)
(* The watchers of the workspace indexes: IndexCoordinator, WatchHandle,   *)
(* IndexOwner and GrepAi::initialize (crates/hzr-index/src), as the daemon *)
(* and `hzr index init` use them.                                          *)
(*                                                                         *)
(* A search prepares its workspace in a detached task: it initializes the  *)
(* index if there is none and makes sure that a grepai process watches it. *)
(* One daemon keeps at most Limit watchers: an idle, failed or least       *)
(* recently used one makes room.  An owner lock in the index directory     *)
(* keeps processes, and tasks of one process, off each other's index.      *)
(* Preparations, the reaper, the dashboard, the operator's clearing of     *)
(* failed watchers and the shutdown interleave at every await.             *)
(***************************************************************************)
EXTENDS Integers, FiniteSets

CONSTANTS
    Workspaces,
    Watchers,   \* grepai processes (an identity is used again once it is free)
    Tasks,      \* preparations, reapings, dashboards, clearings and command-line calls
    None,
    Limit,      \* watcher_limit
    Ttl         \* watcher_idle_ttl, in ticks

ASSUME IndexAssumption ==
    /\ None \notin Workspaces \cup Watchers \cup Tasks
    /\ Watchers \cap Tasks = {}
    /\ IsFiniteSet(Workspaces) /\ IsFiniteSet(Watchers)
    /\ Limit \in Nat \ {0}      \* watcher_limit.max(1)
    /\ Ttl \in Nat

Kinds == {"prepare", "init", "reap", "status", "clear"}
Stages == {"idle", "check", "acquire", "graph", "initializing", "lifecycle", "budget",
           "stopping", "starting", "settling", "observing"}

VARIABLES
    config,     \* config.yaml of each index: absent, as grepai wrote it, with HZR's settings
    owner,      \* who holds the owner lock of each index: a task or a watcher's handle
    proc,       \* the grepai processes that have a handle
    target,     \* the workspace a process watches
    table,      \* IndexCoordinator.watchers
    idle,       \* ticks since last_used, for each entry of the table
    failed,     \* ticks since failed_at, or -1: not yet seen to have failed
    req,        \* what each task does
    victims,    \* the handles a task has taken out of the table, or holds in a start
    budget,     \* watcher_budget
    lifecycle,  \* watcher_lifecycle and the shutdown, which is its only writer
    leaving     \* the handles the shutdown has taken out of the table

vars == <<config, owner, proc, target, table, idle, failed, req, victims, budget,
          lifecycle, leaving>>
index == <<config, owner>>
processes == <<proc, target>>
registry == <<table, idle, failed>>
tasks == <<req, victims>>
locks == <<budget, lifecycle, leaving>>

Request == [kind: Kinds, ws: Workspaces \cup {None}, stage: Stages, error: BOOLEAN]
Idle == [kind |-> "prepare", ws |-> None, stage |-> "idle", error |-> FALSE]

TypeOK ==
    /\ config \in [Workspaces -> {"absent", "bare", "managed"}]
    /\ owner \in [Workspaces -> Tasks \cup Watchers \cup {None}]
    /\ proc \in [Watchers -> {"free", "running", "exited"}]
    /\ target \in [Watchers -> Workspaces \cup {None}]
    /\ table \in [Workspaces -> Watchers \cup {None}]
    /\ idle \in [Workspaces -> 0..Ttl]
    /\ failed \in [Workspaces -> -1..Ttl]
    /\ req \in [Tasks -> Request]
    /\ victims \in [Tasks -> SUBSET Watchers]
    /\ budget \in Tasks \cup {None}
    /\ lifecycle \in {"open", "closing", "closed", "over", "exited"}
    /\ leaving \subseteq Watchers

Init ==
    /\ config = [w \in Workspaces |-> "absent"]
    /\ owner = [w \in Workspaces |-> None]
    /\ proc = [x \in Watchers |-> "free"]
    /\ target = [x \in Watchers |-> None]
    /\ table = [w \in Workspaces |-> None]
    /\ idle = [w \in Workspaces |-> 0]
    /\ failed = [w \in Workspaces |-> -1]
    /\ req = [t \in Tasks |-> Idle]
    /\ victims = [t \in Tasks |-> {}]
    /\ budget = None
    /\ lifecycle = "open"
    /\ leaving = {}

-----------------------------------------------------------------------------
(* Tasks, handles and locks *)

Stage(t) == req[t].stage
Ws(t) == req[t].ws
GoTo(t, stage) == req' = [req EXCEPT ![t].stage = stage]

\* The read guard of watcher_lifecycle is held.
Reading(t) == Stage(t) \in {"budget", "stopping", "starting", "settling"}

\* A task returns: its guards are released.  It holds no handle any more.
Return(t) ==
    /\ req' = [req EXCEPT ![t] = Idle]
    /\ budget' = IF budget = t THEN None ELSE budget

\* The owner lock of a task, or of the handles in X, is released.
Unlocked(X) == [w \in Workspaces |-> IF owner[w] \in X THEN None ELSE owner[w]]

\* The handles X are consumed.  WatchHandle::shutdown has waited for the process;
\* Drop has sent it SIGKILL, after which it writes nothing more.
Gone(X) ==
    /\ proc' = [x \in Watchers |-> IF x \in X THEN "free" ELSE proc[x]]
    /\ target' = [x \in Watchers |-> IF x \in X THEN None ELSE target[x]]
    /\ owner' = Unlocked(X)

Entries == {w \in Workspaces : table[w] # None}
Live(w) == table[w] # None /\ proc[table[w]] = "running"
Dead(w) == table[w] # None /\ proc[table[w]] # "running"

\* failed_at.get_or_insert(now), for every entry that is looked at.
Marked == [w \in Workspaces |-> IF Dead(w) /\ failed[w] = -1 THEN 0 ELSE failed[w]]

-----------------------------------------------------------------------------
(* GrepAi::initialize, by a preparation or by the command line *)

\* A search spawns prepare_workspace; a sweep of the one maintenance task, a dashboard
\* and the operator's clearing begin.  After the server has drained, none of them begins.
Begin(t, kind, w) ==
    /\ Stage(t) = "idle" /\ lifecycle = "open"
    /\ kind # "init" /\ (kind \in {"prepare", "status"}) = (w # None)
    /\ kind = "reap" => \A u \in Tasks : req[u].kind # "reap"
    /\ req' = [req EXCEPT ![t] = [kind |-> kind, ws |-> w, error |-> FALSE,
                 stage |-> IF kind = "prepare" THEN "check" ELSE "lifecycle"]]
    /\ UNCHANGED <<index, processes, registry, victims, locks>>

\* `hzr index init` or `hzr init`, in a process of its own
BeginInit(t, w) ==
    /\ Stage(t) = "idle"
    /\ req' = [req EXCEPT ![t] = [kind |-> "init", ws |-> w, error |-> FALSE,
                                  stage |-> "check"]]
    /\ UNCHANGED <<index, processes, registry, victims, locks>>

\* The index is there: a preparation goes on to its watcher.
Proceed(t) ==
    req' = IF req[t].kind = "init" THEN [req EXCEPT ![t] = Idle]
           ELSE [req EXCEPT ![t].stage = "lifecycle"]

\* The configuration is looked for before the owner lock is taken.
CheckConfig(t) ==
    /\ Stage(t) = "check"
    /\ CASE config[Ws(t)] = "absent" -> GoTo(t, "acquire")
         [] config[Ws(t)] = "bare" -> GoTo(t, "graph")
         [] OTHER -> Proceed(t)
    /\ UNCHANGED <<index, processes, registry, victims, locks>>

AcquireForInit(t) ==
    /\ Stage(t) = "acquire" /\ owner[Ws(t)] = None
    /\ owner' = [owner EXCEPT ![Ws(t)] = t]
    /\ GoTo(t, "initializing")
    /\ UNCHANGED <<config, processes, registry, victims, locks>>

\* IndexOwnerBusy, while the index is initialized or watched
InitRefused(t) ==
    /\ Stage(t) \in {"acquire", "graph"} /\ owner[Ws(t)] # None
    /\ Return(t)
    /\ UNCHANGED <<index, processes, registry, victims, lifecycle, leaving>>

\* enable_repository_graph: lock, rewrite and unlock without an await.
EnableGraph(t) ==
    /\ Stage(t) = "graph" /\ owner[Ws(t)] = None
    /\ config' = [config EXCEPT ![Ws(t)] = "managed"]
    /\ Proceed(t)
    /\ UNCHANGED <<owner, processes, registry, victims, locks>>

\* `grepai init` writes its configuration, over the one that may be there.
GrepaiWritesConfig(t) ==
    /\ Stage(t) = "initializing"
    /\ config' = [config EXCEPT ![Ws(t)] = "bare"]
    /\ UNCHANGED <<owner, processes, registry, tasks, locks>>

InitDone(t) ==
    /\ Stage(t) = "initializing" /\ config[Ws(t)] # "absent"
    /\ config' = [config EXCEPT ![Ws(t)] = "managed"]
    /\ owner' = Unlocked({t})
    /\ Proceed(t)
    /\ UNCHANGED <<processes, registry, victims, locks>>

\* `grepai init` fails or runs into its deadline, or its process dies.
InitFails(t) ==
    /\ Stage(t) = "initializing"
    /\ owner' = Unlocked({t})
    /\ Return(t)
    /\ UNCHANGED <<config, processes, registry, victims, lifecycle, leaving>>

-----------------------------------------------------------------------------
(* The watcher of a workspace, and room for it *)

\* Mutant: a preparation does not wait for a shutdown that runs.
EnterLifecycleAnyTime(t) ==
    /\ Stage(t) = "lifecycle" /\ lifecycle # "exited"
    /\ GoTo(t, "budget")
    /\ UNCHANGED <<index, processes, registry, victims, locks>>

\* Mutant: the shutdown keeps its guard.
EnterLifecycleOpen(t) ==
    /\ Stage(t) = "lifecycle" /\ lifecycle = "open"
    /\ GoTo(t, "budget")
    /\ UNCHANGED <<index, processes, registry, victims, locks>>

\* tokio's lock is fair: a waiting writer keeps later readers out.
EnterLifecycle(t) ==
    /\ Stage(t) = "lifecycle" /\ lifecycle \in {"open", "over"}
    /\ GoTo(t, "budget")
    /\ UNCHANGED <<index, processes, registry, victims, locks>>

\* watcher_budget is free, for a task of these kinds
MayTakeBudget(t, kinds) == Stage(t) = "budget" /\ budget = None /\ req[t].kind \in kinds

\* The watcher of the workspace runs: it was used now, and the budget goes back.
ReuseWatcher(t) ==
    /\ MayTakeBudget(t, {"prepare"}) /\ Live(Ws(t))
    /\ idle' = [idle EXCEPT ![Ws(t)] = 0]
    /\ Return(t)
    /\ UNCHANGED <<index, processes, table, failed, victims, lifecycle, leaving>>

\* An entry makes room before another: failed ones first, the oldest first.
Before(v, w) ==
    \/ Dead(v) /\ ~Dead(w)
    \/ Dead(v) /\ Dead(w) /\ Marked[v] >= Marked[w]
    \/ ~Dead(v) /\ ~Dead(w) /\ idle[v] >= idle[w]

Expired(w) == IF Dead(w) THEN Marked[w] >= Ttl ELSE idle[w] >= Ttl

\* take_evictions of the entries E: the expired ones, and as many more as it
\* takes to come down to the limit, or to one less if a slot is reserved.
Evicts(V, E, reserve_slot) ==
    LET room == IF reserve_slot THEN Limit - 1 ELSE Limit IN
    /\ {w \in E : Expired(w)} \subseteq V /\ V \subseteq E
    /\ Cardinality(E \ V) <= room
    /\ \A v \in V : Expired(v) \/ (Cardinality(E \ V) = room /\ \A w \in E \ V : Before(v, w))

\* The entries of V leave the table; the others are marked as they were found.
Remove(V) ==
    /\ table' = [w \in Workspaces |-> IF w \in V THEN None ELSE table[w]]
    /\ idle' = [w \in Workspaces |-> IF w \in V THEN 0 ELSE idle[w]]
    /\ failed' = [w \in Workspaces |-> IF w \in V THEN -1 ELSE Marked[w]]

\* The handles of the entries V go to the task, which keeps the budget and will
\* stop them.
TakeOut(t, V) ==
    /\ budget' = t
    /\ victims' = [victims EXCEPT ![t] = {table[w] : w \in V}]
    /\ GoTo(t, "stopping")

\* ensure_watcher without a live watcher: an entry that failed is dropped, then
\* room is made.
MakeRoom(t, V) ==
    LET own == {table[Ws(t)]} \ {None}
        rest == Entries \ {Ws(t)}
    IN
    /\ MayTakeBudget(t, {"prepare"}) /\ ~Live(Ws(t))
    /\ Evicts(V, rest, TRUE)
    /\ Gone(own)
    /\ Remove(V \cup {Ws(t)})
    /\ TakeOut(t, V)
    /\ UNCHANGED <<config, lifecycle, leaving>>

\* reap_idle_watchers, by the maintenance task and by every dashboard
Reap(t, V) ==
    /\ MayTakeBudget(t, {"reap", "status"})
    /\ Evicts(V, Entries, FALSE)
    /\ Remove(V)
    /\ TakeOut(t, V)
    /\ UNCHANGED <<index, processes, lifecycle, leaving>>

\* clear_failed_watchers
ClearFailed(t) ==
    /\ MayTakeBudget(t, {"clear"})
    /\ Remove({w \in Workspaces : Dead(w)})
    /\ TakeOut(t, {w \in Workspaces : Dead(w)})
    /\ UNCHANGED <<index, processes, lifecycle, leaving>>

\* Mutant: a watcher that cannot be stopped in order is left alone.
StopVictimOrGiveUp(t, x, error) ==
    /\ Stage(t) = "stopping" /\ x \in victims[t]
    /\ victims' = [victims EXCEPT ![t] = @ \ {x}]
    /\ req' = [req EXCEPT ![t].error = @ \/ error]
    /\ IF error THEN owner' = Unlocked({x}) /\ UNCHANGED processes ELSE Gone({x})
    /\ UNCHANGED <<config, registry, locks>>

\* WatchHandle::shutdown of one of them: the process has exited, is stopped, or
\* is killed and waited for; only then does the lock go.  An error is kept for
\* later, and the others are stopped all the same.
StopVictim(t, x, error) ==
    /\ Stage(t) = "stopping" /\ x \in victims[t]
    /\ victims' = [victims EXCEPT ![t] = @ \ {x}]
    /\ req' = [req EXCEPT ![t].error = @ \/ error]
    /\ Gone({x})
    /\ UNCHANGED <<config, registry, locks>>

Stopped(t) ==
    /\ Stage(t) = "stopping" /\ victims[t] = {}
    /\ CASE req[t].kind = "prepare" /\ ~req[t].error ->
               GoTo(t, "starting") /\ UNCHANGED budget
         [] req[t].kind = "status" /\ ~req[t].error ->
               GoTo(t, "observing") /\ budget' = None
         [] OTHER -> Return(t)
    /\ UNCHANGED <<index, processes, registry, victims, lifecycle, leaving>>

\* The dashboard looks at the watcher of its workspace, after the guards are released.
Observe(t) ==
    /\ Stage(t) = "observing"
    /\ failed' = [failed EXCEPT ![Ws(t)] = Marked[Ws(t)]]
    /\ Return(t)
    /\ UNCHANGED <<index, processes, table, idle, victims, lifecycle, leaving>>

\* A task is dropped at an await with the handles it holds: the handler of a
\* dashboard or a clearing whose client goes away, and the sweep that the shutdown
\* aborts.
TaskDropped(t) ==
    /\ \/ req[t].kind \in {"status", "clear"}
       \/ req[t].kind = "reap" /\ lifecycle = "over"
    /\ Gone(victims[t])
    /\ victims' = [victims EXCEPT ![t] = {}]
    /\ Return(t)
    /\ UNCHANGED <<config, registry, lifecycle, leaving>>

\* start_watch and watch::start, up to the spawn
StartWatch(t, x) ==
    /\ Stage(t) = "starting" /\ owner[Ws(t)] = None /\ config[Ws(t)] # "absent"
    /\ proc[x] = "free"
    /\ owner' = [owner EXCEPT ![Ws(t)] = x]
    /\ proc' = [proc EXCEPT ![x] = "running"]
    /\ target' = [target EXCEPT ![x] = Ws(t)]
    /\ victims' = [victims EXCEPT ![t] = {x}]
    /\ GoTo(t, "settling")
    /\ UNCHANGED <<config, registry, locks>>

\* IndexOwnerBusy; there is no index; the topology is not supported; no spawn
StartRefused(t) ==
    /\ Stage(t) = "starting"
    /\ Return(t)
    /\ UNCHANGED <<index, processes, registry, victims, lifecycle, leaving>>

\* wait_until_started reports an exit or an error: killed and waited for.
StartAborted(t) ==
    /\ Stage(t) = "settling"
    /\ Gone(victims[t])
    /\ victims' = [victims EXCEPT ![t] = {}]
    /\ Return(t)
    /\ UNCHANGED <<config, registry, lifecycle, leaving>>

\* Mutant: the entry is stamped with the end of the window, which is yet to come.
StartedAhead(t) ==
    /\ Stage(t) = "settling"
    /\ \E x \in victims[t] : table' = [table EXCEPT ![Ws(t)] = x]
    /\ idle' = [idle EXCEPT ![Ws(t)] = -1]
    /\ failed' = [failed EXCEPT ![Ws(t)] = -1]
    /\ victims' = [victims EXCEPT ![t] = {}]
    /\ Return(t)
    /\ UNCHANGED <<index, processes, lifecycle, leaving>>

\* The process survived the stability window: its handle enters the table.
Started(t) ==
    /\ Stage(t) = "settling"
    /\ \E x \in victims[t] : table' = [table EXCEPT ![Ws(t)] = x]
    /\ idle' = [idle EXCEPT ![Ws(t)] = 0]
    /\ failed' = [failed EXCEPT ![Ws(t)] = -1]
    /\ victims' = [victims EXCEPT ![t] = {}]
    /\ Return(t)
    /\ UNCHANGED <<index, processes, lifecycle, leaving>>

-----------------------------------------------------------------------------
(* Processes, time and the health check *)

WatcherExits(x) ==
    /\ proc[x] = "running"
    /\ proc' = [proc EXCEPT ![x] = "exited"]
    /\ UNCHANGED <<index, target, registry, tasks, locks>>

\* registry_snapshot notes when it first sees that a watcher has failed.
RegistrySnapshot ==
    /\ failed' = Marked /\ failed' # failed
    /\ UNCHANGED <<index, processes, table, idle, tasks, locks>>

Tick ==
    /\ idle' = [w \in Workspaces |->
                  IF w \in Entries /\ idle[w] < Ttl THEN idle[w] + 1 ELSE idle[w]]
    /\ failed' = [w \in Workspaces |->
                    IF failed[w] \in 0 .. Ttl - 1 THEN failed[w] + 1 ELSE failed[w]]
    /\ <<idle, failed>>' # <<idle, failed>>
    /\ UNCHANGED <<index, processes, table, tasks, locks>>

-----------------------------------------------------------------------------
(* The end of the daemon, and the next one *)

\* The server has drained, so no handler is left; IndexCoordinator::shutdown asks
\* for the write guard.
ShutdownBegins ==
    /\ lifecycle = "open"
    /\ \A t \in Tasks : req[t].kind \notin {"status", "clear"}
    /\ lifecycle' = "closing"
    /\ UNCHANGED <<index, processes, registry, tasks, budget, leaving>>

\* It gets the guard after the tasks that read, and takes the whole table.
ShutdownTakes ==
    /\ lifecycle = "closing" /\ \A t \in Tasks : ~Reading(t)
    /\ lifecycle' = "closed"
    /\ leaving' = {table[w] : w \in Entries}
    /\ Remove(Workspaces)
    /\ UNCHANGED <<index, processes, tasks, budget>>

ShutdownStops(x) ==
    /\ lifecycle = "closed" /\ x \in leaving
    /\ leaving' = leaving \ {x}
    /\ Gone({x})
    /\ UNCHANGED <<config, registry, tasks, budget, lifecycle>>

\* The guard is released: a preparation that waited for it goes on.
ShutdownEnds ==
    /\ lifecycle = "closed" /\ leaving = {}
    /\ lifecycle' = "over"
    /\ UNCHANGED <<index, processes, registry, tasks, budget, leaving>>

\* The process returns from main: the runtime drops every task and the table.
Exit ==
    LET mine == {t \in Tasks : req[t].kind # "init"}
        held == {table[w] : w \in Entries} \cup UNION {victims[t] : t \in mine}
    IN
    /\ lifecycle = "over"
    /\ lifecycle' = "exited"
    /\ Gone(mine \cup held)
    /\ Remove(Workspaces)
    /\ req' = [t \in Tasks |-> IF t \in mine THEN Idle ELSE req[t]]
    /\ victims' = [t \in Tasks |-> {}]
    /\ budget' = None
    /\ UNCHANGED <<config, leaving>>

Boot ==
    /\ lifecycle = "exited"
    /\ lifecycle' = "open"
    /\ UNCHANGED <<index, processes, registry, tasks, budget, leaving>>

-----------------------------------------------------------------------------
\* With the budget in hand, a task looks at the table.
Look(t) ==
    \/ ReuseWatcher(t)
    \/ \E V \in SUBSET Workspaces : MakeRoom(t, V) \/ Reap(t, V)
    \/ ClearFailed(t)

\* What a task does next, once it has begun
Advance(t) ==
    \/ CheckConfig(t) \/ AcquireForInit(t) \/ InitRefused(t) \/ EnableGraph(t)
    \/ InitDone(t) \/ InitFails(t)
    \/ EnterLifecycle(t) \/ Look(t)
    \/ \E x \in Watchers, error \in BOOLEAN : StopVictim(t, x, error)
    \/ Stopped(t)
    \/ (\E x \in Watchers : StartWatch(t, x)) \/ StartRefused(t) \/ StartAborted(t)
    \/ Started(t) \/ Observe(t)

Shutdown ==
    \/ ShutdownTakes \/ (\E x \in Watchers : ShutdownStops(x)) \/ ShutdownEnds

Next ==
    \/ \E t \in Tasks :
        \/ \E kind \in Kinds, w \in Workspaces \cup {None} : Begin(t, kind, w)
        \/ \E w \in Workspaces : BeginInit(t, w)
        \/ GrepaiWritesConfig(t)
        \/ Advance(t)
        \/ TaskDropped(t)
    \/ \E x \in Watchers : WatcherExits(x)
    \/ RegistrySnapshot \/ Tick
    \/ ShutdownBegins \/ Shutdown \/ Exit \/ Boot

Spec == Init /\ [][Next]_vars

\* Every wait of a task has an end: the commands have deadlines, the lock of the
\* budget is first come, first served, and the write guard waits for the readers
\* before it.  Nothing makes a watcher exit, a client go or a daemon end.
Fairness ==
    /\ \A t \in Tasks : WF_vars(Advance(t)) /\ SF_vars(Look(t))
    /\ WF_vars(Shutdown)

LiveSpec == Spec /\ Fairness

-----------------------------------------------------------------------------
(* Properties *)

Running == {x \in Watchers : proc[x] = "running"}

\* A watcher that runs holds the owner lock of its index, and some place of
\* the daemon holds its handle (the table under its workspace, a task, or the
\* shutdown): none runs that nobody will stop, and no two watch one index,
\* whatever preparations, sweeps, clearings and shutdowns interleave.  So a
\* preparation that comes to its start never finds a watcher in its way.
Supervised ==
    /\ \A x \in Running :
        /\ owner[target[x]] = x
        /\ \/ table[target[x]] = x
           \/ \E t \in Tasks : x \in victims[t]
           \/ x \in leaving
    /\ \A t \in Tasks : Stage(t) = "starting" => owner[Ws(t)] \notin Watchers

\* No more watchers run than watcher_limit allows, not even while one is being
\* replaced, two searches start theirs, or a preparation outlives the shutdown.
WithinLimit == Cardinality(Running) <= Limit

\* Every preparation, sweep, dashboard and clearing comes to its end, and so does a shutdown:
\* the guard of the lifecycle, the budget and the owner locks never wait in a ring.
RequestsEnd ==
    /\ \A t \in Tasks : Stage(t) # "idle" ~> Stage(t) = "idle"
    /\ lifecycle = "closing" ~> lifecycle = "over"

=============================================================================
