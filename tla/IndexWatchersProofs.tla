------------------------- MODULE IndexWatchersProofs -------------------------
(***************************************************************************)
(* Supervised and WithinLimit hold for any number of workspaces, watchers, *)
(* tasks, and any limit.                                                   *)
(*                                                                         *)
(* Neither is inductive.  What makes them so: a handle is in one place     *)
(* only; the task that holds handles holds the budget, so there is one;    *)
(* and while the shutdown holds handles, no task is past the guard of the  *)
(* lifecycle.                                                              *)
(***************************************************************************)
EXTENDS IndexWatchers, FiniteSetTheorems, TLAPS

\* A handle owns the index of its workspace, and the index knows its owner.
Owned ==
    /\ \A x \in Watchers : proc[x] # "free" => target[x] \in Workspaces /\
        owner[target[x]] = x
    /\ \A w \in Workspaces : owner[w] \in Watchers =>
        /\ proc[owner[w]] # "free" /\ target[owner[w]] = w
        /\ \/ table[w] = owner[w]
           \/ \E t \in Tasks : owner[w] \in victims[t]
           \/ owner[w] \in leaving

\* A handle is in one place: the table, a task with the budget, or the shutdown.
Placed ==
    /\ \A w \in Workspaces : table[w] # None => owner[w] = table[w]
    /\ \A t \in Tasks : \A x \in victims[t] :
        budget = t /\ proc[x] # "free" /\ table[target[x]] # x
    /\ \A x \in leaving :
        lifecycle = "closed" /\ proc[x] # "free" /\ table[target[x]] # x

\* The stages of a task and what it has by then.
Staged ==
    \A t \in Tasks :
        /\ Stage(t) \in {"stopping", "starting", "settling"} => budget = t
        /\ Stage(t) \notin {"stopping", "settling"} => victims[t] = {}
        /\ Stage(t) = "settling" => \E x \in Watchers : victims[t] = {x} /\ target[x] =
            Ws(t)
        /\ Stage(t) \in {"starting", "settling"} => req[t].kind = "prepare"
        /\ Stage(t) = "observing" => req[t].kind = "status"
        /\ Stage(t) # "idle" /\ req[t].kind \in {"prepare", "init", "status"}
             => Ws(t) \in Workspaces
        /\ Stage(t) \in {"check", "acquire", "graph", "initializing"}
             => req[t].kind \in {"prepare", "init"}
        /\ Reading(t) => lifecycle # "closed"
        /\ Stage(t) = "lifecycle" \/ Reading(t) => req[t].kind # "init"
        /\ Stage(t) \in {"stopping", "starting", "settling"} /\ req[t].kind = "prepare"
             => table[Ws(t)] = None

Inv == TypeOK /\ Owned /\ Placed /\ Staged

\* The indexes that a watcher owns.
Watched == {w \in Workspaces : owner[w] \in Watchers}

Bounded ==
    /\ Cardinality(Watched) <= Limit
    /\ \A t \in Tasks : Stage(t) \in {"stopping", "starting"} /\ req[t].kind = "prepare"
         => Cardinality(Entries) <= Limit - 1
-----------------------------------------------------------------------------
(* One lemma per action *)

\* The entries that remain keep their types.
LEMMA RemoveType ==
    ASSUME TypeOK, NEW V \in SUBSET Workspaces, Remove(V)
    PROVE  /\ table' \in [Workspaces -> Watchers \cup {None}]
           /\ idle' \in [Workspaces -> 0..Ttl]
           /\ failed' \in [Workspaces -> -1..Ttl]
<1>1. Marked \in [Workspaces -> -1..Ttl]
  BY IndexAssumption DEF Marked, TypeOK
<1> QED  BY <1>1, IndexAssumption DEF Remove, TypeOK

\* A task that takes entries out gets their handles.
LEMMA TakeOutType ==
    ASSUME TypeOK, NEW t \in Tasks, NEW V \in SUBSET Entries, TakeOut(t, V)
    PROVE  /\ req' \in [Tasks -> Request] /\ budget' \in Tasks
           /\ victims' \in [Tasks -> SUBSET Watchers]
<1>1. {table[w] : w \in V} \subseteq Watchers
  BY DEF Entries, TypeOK
<1>2. req' \in [Tasks -> Request]
  BY DEF TakeOut, GoTo, TypeOK, Request, Stages
<1> QED  BY <1>1, <1>2 DEF TakeOut, TypeOK

\* Begin keeps the invariant.
LEMMA BeginInv ==
    ASSUME Inv, NEW t \in Tasks, NEW kind \in Kinds, NEW w \in Workspaces \cup {None},
        Begin(t, kind, w)
    PROVE  Inv'
<1>1. TypeOK'
  BY IndexAssumption
     DEF TypeOK, Request, Idle, Kinds, Stages, Ws, Stage, Inv, Staged, Begin, index,
         processes, registry, tasks, locks
<1>2. Owned'
  BY IndexAssumption
     DEF Inv, TypeOK, Owned, Placed, Staged, Stage, Ws, Idle, Begin, index, processes,
         registry, tasks, locks
<1>3. Placed'
  BY IndexAssumption
     DEF Inv, TypeOK, Owned, Placed, Staged, Stage, Ws, Idle, Reading, Begin, index,
         processes, registry, tasks, locks
<1>4. Staged'
  BY IndexAssumption
     DEF Inv, TypeOK, Owned, Placed, Staged, Stage, Ws, Idle, Reading, Kinds, Begin,
         index, processes, registry, tasks, locks
<1> QED  BY <1>1, <1>2, <1>3, <1>4 DEF Inv

\* BeginInit keeps the invariant.
LEMMA BeginInitInv ==
    ASSUME Inv, NEW t \in Tasks, NEW w \in Workspaces, BeginInit(t, w)
    PROVE  Inv'
<1>1. TypeOK'
  BY IndexAssumption
     DEF TypeOK, Request, Idle, Kinds, Stages, Ws, Stage, Inv, Staged, BeginInit, index,
         processes, registry, tasks, locks
<1>2. Owned'
  BY IndexAssumption
     DEF Inv, TypeOK, Owned, Placed, Staged, Stage, Ws, Idle, BeginInit, index, processes,
         registry, tasks, locks
<1>3. Placed'
  BY IndexAssumption
     DEF Inv, TypeOK, Owned, Placed, Staged, Stage, Ws, Idle, Reading, BeginInit, index,
         processes, registry, tasks, locks
<1>4. Staged'
  BY IndexAssumption
     DEF Inv, TypeOK, Owned, Placed, Staged, Stage, Ws, Idle, Reading, Kinds, BeginInit,
         index, processes, registry, tasks, locks
<1> QED  BY <1>1, <1>2, <1>3, <1>4 DEF Inv

\* CheckConfig keeps the invariant.
LEMMA CheckConfigInv ==
    ASSUME Inv, NEW t \in Tasks, CheckConfig(t)
    PROVE  Inv'
<1>0. \/ req' = [req EXCEPT ![t].stage = "acquire"]
      \/ req' = [req EXCEPT ![t].stage = "graph"]
      \/ req[t].kind = "init" /\ req' = [req EXCEPT ![t] = Idle]
      \/ req[t].kind # "init" /\ req' = [req EXCEPT ![t].stage = "lifecycle"]
  BY DEF CheckConfig, Proceed, GoTo
<1>a. /\ Stage(t) = "check" /\ UNCHANGED <<config, owner, proc, target>>
      /\ UNCHANGED <<table, idle, failed>>
      /\ UNCHANGED <<victims, budget, lifecycle, leaving>>
  BY DEF CheckConfig, index, processes, registry, tasks, locks
<1>1. TypeOK'
  <2>1. CASE req' = [req EXCEPT ![t].stage = "acquire"]
    BY <2>1, <1>a, IndexAssumption DEF Inv, TypeOK, Request, Idle, Kinds, Stages
  <2>2. CASE req' = [req EXCEPT ![t].stage = "graph"]
    BY <2>2, <1>a, IndexAssumption DEF Inv, TypeOK, Request, Idle, Kinds, Stages
  <2>3. CASE req[t].kind = "init" /\ req' = [req EXCEPT ![t] = Idle]
    BY <2>3, <1>a, IndexAssumption DEF Inv, TypeOK, Request, Idle, Kinds, Stages
  <2>4. CASE req[t].kind # "init" /\ req' = [req EXCEPT ![t].stage = "lifecycle"]
    BY <2>4, <1>a, IndexAssumption DEF Inv, TypeOK, Request, Idle, Kinds, Stages
  <2> QED  BY <1>0, <2>1, <2>2, <2>3, <2>4
<1>2. Owned'
  BY <1>a DEF Inv, Owned
<1>3. Placed'
  BY <1>a DEF Inv, Placed
<1>4. Staged'
  <2>1. CASE req' = [req EXCEPT ![t].stage = "acquire"]
    BY <2>1, <1>a, IndexAssumption
       DEF Inv, TypeOK, Owned, Placed, Staged, Stage, Ws, Idle, Reading, Kinds, Request
  <2>2. CASE req' = [req EXCEPT ![t].stage = "graph"]
    BY <2>2, <1>a, IndexAssumption
       DEF Inv, TypeOK, Owned, Placed, Staged, Stage, Ws, Idle, Reading, Kinds, Request
  <2>3. CASE req[t].kind = "init" /\ req' = [req EXCEPT ![t] = Idle]
    BY <2>3, <1>a, IndexAssumption
       DEF Inv, TypeOK, Owned, Placed, Staged, Stage, Ws, Idle, Reading, Kinds, Request
  <2>4. CASE req[t].kind # "init" /\ req' = [req EXCEPT ![t].stage = "lifecycle"]
    BY <2>4, <1>a, IndexAssumption
       DEF Inv, TypeOK, Owned, Placed, Staged, Stage, Ws, Idle, Reading, Kinds, Request
  <2> QED  BY <1>0, <2>1, <2>2, <2>3, <2>4
<1> QED  BY <1>1, <1>2, <1>3, <1>4 DEF Inv

\* AcquireForInit keeps the invariant.
LEMMA AcquireForInitInv ==
    ASSUME Inv, NEW t \in Tasks, AcquireForInit(t)
    PROVE  Inv'
<1>1. TypeOK'
  BY IndexAssumption
     DEF TypeOK, Request, Idle, Kinds, Stages, Ws, Stage, Inv, Staged, AcquireForInit,
         GoTo, index, processes, registry, tasks, locks
<1>2. Owned'
  BY IndexAssumption
     DEF Inv, TypeOK, Owned, Placed, Staged, Stage, Ws, Idle, AcquireForInit, GoTo, index,
         processes, registry, tasks, locks
<1>3. Placed'
  BY IndexAssumption
     DEF Inv, TypeOK, Owned, Placed, Staged, Stage, Ws, Idle, Reading, AcquireForInit,
         GoTo, index, processes, registry, tasks, locks
<1>4. Staged'
  BY IndexAssumption
     DEF Inv, TypeOK, Owned, Placed, Staged, Stage, Ws, Idle, Reading, Kinds,
         AcquireForInit, GoTo, index, processes, registry, tasks, locks
<1> QED  BY <1>1, <1>2, <1>3, <1>4 DEF Inv

\* InitRefused keeps the invariant.
LEMMA InitRefusedInv ==
    ASSUME Inv, NEW t \in Tasks, InitRefused(t)
    PROVE  Inv'
<1>1. TypeOK'
  BY IndexAssumption
     DEF TypeOK, Request, Idle, Kinds, Stages, Ws, Stage, Inv, Staged, InitRefused,
         Return, index, processes, registry, tasks, locks
<1>2. Owned'
  BY IndexAssumption
     DEF Inv, TypeOK, Owned, Placed, Staged, Stage, Ws, Idle, InitRefused, Return, index,
         processes, registry, tasks, locks
<1>3. Placed'
  BY IndexAssumption
     DEF Inv, TypeOK, Owned, Placed, Staged, Stage, Ws, Idle, Reading, InitRefused,
         Return, index, processes, registry, tasks, locks
<1>4. Staged'
  BY IndexAssumption
     DEF Inv, TypeOK, Owned, Placed, Staged, Stage, Ws, Idle, Reading, Kinds, InitRefused,
         Return, index, processes, registry, tasks, locks
<1> QED  BY <1>1, <1>2, <1>3, <1>4 DEF Inv

\* EnableGraph keeps the invariant.
LEMMA EnableGraphInv ==
    ASSUME Inv, NEW t \in Tasks, EnableGraph(t)
    PROVE  Inv'
<1>1. TypeOK'
  BY IndexAssumption
     DEF TypeOK, Request, Idle, Kinds, Stages, Ws, Stage, Inv, Staged, EnableGraph,
         Proceed, index, processes, registry, tasks, locks
<1>2. Owned'
  BY IndexAssumption
     DEF Inv, TypeOK, Owned, Placed, Staged, Stage, Ws, Idle, EnableGraph, Proceed, index,
         processes, registry, tasks, locks
<1>3. Placed'
  BY IndexAssumption
     DEF Inv, TypeOK, Owned, Placed, Staged, Stage, Ws, Idle, Reading, EnableGraph,
         Proceed, index, processes, registry, tasks, locks
<1>4. Staged'
  BY IndexAssumption
     DEF Inv, TypeOK, Owned, Placed, Staged, Stage, Ws, Idle, Reading, Kinds, EnableGraph,
         Proceed, index, processes, registry, tasks, locks
<1> QED  BY <1>1, <1>2, <1>3, <1>4 DEF Inv

\* GrepaiWritesConfig keeps the invariant.
LEMMA GrepaiWritesConfigInv ==
    ASSUME Inv, NEW t \in Tasks, GrepaiWritesConfig(t)
    PROVE  Inv'
<1>1. TypeOK'
  BY IndexAssumption
     DEF TypeOK, Request, Idle, Kinds, Stages, Ws, Stage, Inv, Staged, GrepaiWritesConfig,
         index, processes, registry, tasks, locks
<1>2. Owned'
  BY IndexAssumption
     DEF Inv, TypeOK, Owned, Placed, Staged, Stage, Ws, Idle, GrepaiWritesConfig, index,
         processes, registry, tasks, locks
<1>3. Placed'
  BY IndexAssumption
     DEF Inv, TypeOK, Owned, Placed, Staged, Stage, Ws, Idle, Reading, GrepaiWritesConfig,
         index, processes, registry, tasks, locks
<1>4. Staged'
  BY IndexAssumption
     DEF Inv, TypeOK, Owned, Placed, Staged, Stage, Ws, Idle, Reading, Kinds,
         GrepaiWritesConfig, index, processes, registry, tasks, locks
<1> QED  BY <1>1, <1>2, <1>3, <1>4 DEF Inv

\* InitDone keeps the invariant.
LEMMA InitDoneInv ==
    ASSUME Inv, NEW t \in Tasks, InitDone(t)
    PROVE  Inv'
<1>1. TypeOK'
  BY IndexAssumption
     DEF TypeOK, Request, Idle, Kinds, Stages, Ws, Stage, Inv, Staged, InitDone, Proceed,
         Unlocked, index, processes, registry, tasks, locks
<1>2. Owned'
  BY IndexAssumption
     DEF Inv, TypeOK, Owned, Placed, Staged, Stage, Ws, Idle, InitDone, Proceed, Unlocked,
         index, processes, registry, tasks, locks
<1>3. Placed'
  BY IndexAssumption
     DEF Inv, TypeOK, Owned, Placed, Staged, Stage, Ws, Idle, Reading, InitDone, Proceed,
         Unlocked, index, processes, registry, tasks, locks
<1>4. Staged'
  BY IndexAssumption
     DEF Inv, TypeOK, Owned, Placed, Staged, Stage, Ws, Idle, Reading, Kinds, InitDone,
         Proceed, Unlocked, index, processes, registry, tasks, locks
<1> QED  BY <1>1, <1>2, <1>3, <1>4 DEF Inv

\* InitFails keeps the invariant.
LEMMA InitFailsInv ==
    ASSUME Inv, NEW t \in Tasks, InitFails(t)
    PROVE  Inv'
<1>1. TypeOK'
  BY IndexAssumption
     DEF TypeOK, Request, Idle, Kinds, Stages, Ws, Stage, Inv, Staged, InitFails, Return,
         Unlocked, index, processes, registry, tasks, locks
<1>2. Owned'
  BY IndexAssumption
     DEF Inv, TypeOK, Owned, Placed, Staged, Stage, Ws, Idle, InitFails, Return, Unlocked,
         index, processes, registry, tasks, locks
<1>3. Placed'
  BY IndexAssumption
     DEF Inv, TypeOK, Owned, Placed, Staged, Stage, Ws, Idle, Reading, InitFails, Return,
         Unlocked, index, processes, registry, tasks, locks
<1>4. Staged'
  BY IndexAssumption
     DEF Inv, TypeOK, Owned, Placed, Staged, Stage, Ws, Idle, Reading, Kinds, InitFails,
         Return, Unlocked, index, processes, registry, tasks, locks
<1> QED  BY <1>1, <1>2, <1>3, <1>4 DEF Inv

\* EnterLifecycle keeps the invariant.
LEMMA EnterLifecycleInv ==
    ASSUME Inv, NEW t \in Tasks, EnterLifecycle(t)
    PROVE  Inv'
<1>1. TypeOK'
  BY IndexAssumption
     DEF TypeOK, Request, Idle, Kinds, Stages, Ws, Stage, Inv, Staged, EnterLifecycle,
         GoTo, index, processes, registry, tasks, locks
<1>2. Owned'
  BY IndexAssumption
     DEF Inv, TypeOK, Owned, Placed, Staged, Stage, Ws, Idle, EnterLifecycle, GoTo, index,
         processes, registry, tasks, locks
<1>3. Placed'
  BY IndexAssumption
     DEF Inv, TypeOK, Owned, Placed, Staged, Stage, Ws, Idle, Reading, EnterLifecycle,
         GoTo, index, processes, registry, tasks, locks
<1>4. Staged'
  BY IndexAssumption
     DEF Inv, TypeOK, Owned, Placed, Staged, Stage, Ws, Idle, Reading, Kinds,
         EnterLifecycle, GoTo, index, processes, registry, tasks, locks
<1> QED  BY <1>1, <1>2, <1>3, <1>4 DEF Inv

\* ReuseWatcher keeps the invariant.
LEMMA ReuseWatcherInv ==
    ASSUME Inv, NEW t \in Tasks, ReuseWatcher(t)
    PROVE  Inv'
<1>1. TypeOK'
  BY IndexAssumption
     DEF TypeOK, Request, Idle, Kinds, Stages, Ws, Stage, Inv, Staged, ReuseWatcher,
         MayTakeBudget, Return, index, processes, registry, tasks, locks
<1>2. Owned'
  BY IndexAssumption
     DEF Inv, TypeOK, Owned, Placed, Staged, Stage, Ws, Idle, ReuseWatcher, MayTakeBudget,
         Return, index, processes, registry, tasks, locks
<1>3. Placed'
  BY IndexAssumption
     DEF Inv, TypeOK, Owned, Placed, Staged, Stage, Ws, Idle, Reading, ReuseWatcher,
         MayTakeBudget, Return, index, processes, registry, tasks, locks
<1>4. Staged'
  BY IndexAssumption
     DEF Inv, TypeOK, Owned, Placed, Staged, Stage, Ws, Idle, Reading, Kinds,
         ReuseWatcher, MayTakeBudget, Return, index, processes, registry, tasks, locks
<1> QED  BY <1>1, <1>2, <1>3, <1>4 DEF Inv

\* MakeRoom keeps the invariant.
LEMMA MakeRoomInv ==
    ASSUME Inv, NEW t \in Tasks, NEW V \in SUBSET Workspaces, MakeRoom(t, V)
    PROVE  Inv'
<1>1. TypeOK'
  <2>1. V \cup {Ws(t)} \in SUBSET Workspaces /\ V \in SUBSET Entries
    BY DEF MakeRoom, MayTakeBudget, Evicts, Inv, Staged, Stage
  <2>2. Remove(V \cup {Ws(t)}) /\ TakeOut(t, V) /\ UNCHANGED <<config, lifecycle, leaving>>
    BY DEF MakeRoom
  <2>3. /\ owner' \in [Workspaces -> Tasks \cup Watchers \cup {None}]
        /\ proc' \in [Watchers -> {"free", "running", "exited"}]
        /\ target' \in [Watchers -> Workspaces \cup {None}]
    BY DEF MakeRoom, Gone, Unlocked, Inv, TypeOK
  <2> QED  BY <2>1, <2>2, <2>3, RemoveType, TakeOutType DEF Inv, TypeOK
<1>2. Owned'
  <2> DEFINE own == {table[Ws(t)]} \ {None}
  <2>0. /\ proc' = [x \in Watchers |-> IF x \in own THEN "free" ELSE proc[x]]
        /\ target' = [x \in Watchers |-> IF x \in own THEN None ELSE target[x]]
        /\ owner' = [w \in Workspaces |-> IF owner[w] \in own THEN None ELSE owner[w]]
        /\ table' = [w \in Workspaces |-> IF w \in V \cup {Ws(t)} THEN None ELSE table[w]]
        /\ victims' = [victims EXCEPT ![t] = {table[w] : w \in V}]
        /\ leaving' = leaving /\ victims[t] = {} /\ Ws(t) \in Workspaces
    BY DEF MakeRoom, Gone, Unlocked, Remove, TakeOut, MayTakeBudget, Inv, Staged, Stage
  <2>1. \A x \in Watchers : proc'[x] # "free" => target'[x] \in Workspaces /\
      owner'[target'[x]] = x
    BY <2>0 DEF Inv, Owned, TypeOK
  <2>2. ASSUME NEW w \in Workspaces, owner'[w] \in Watchers
        PROVE  /\ proc'[owner'[w]] # "free" /\ target'[owner'[w]] = w
               /\ \/ table'[w] = owner'[w]
                  \/ \E u \in Tasks : owner'[w] \in victims'[u]
                  \/ owner'[w] \in leaving'
    <3>1. owner'[w] = owner[w] /\ owner[w] \notin own
      BY <2>0, <2>2, IndexAssumption
    <3>2. proc'[owner'[w]] # "free" /\ target'[owner'[w]] = w
      BY <2>0, <2>2, <3>1 DEF Inv, Owned
    <3>3. CASE table[w] = owner[w] /\ w \in V
      BY <2>0, <3>1, <3>2, <3>3 DEF Inv, TypeOK
    <3>4. CASE table[w] = owner[w] /\ w \notin V
      <4>1. w # Ws(t)
        BY <3>1, <3>4, <2>2, IndexAssumption
      <4> QED  BY <2>0, <3>1, <3>2, <3>4, <4>1
    <3>5. CASE \E u \in Tasks : owner[w] \in victims[u]
      BY <2>0, <3>1, <3>2, <3>5 DEF Inv, TypeOK
    <3> QED  BY <2>0, <2>2, <3>1, <3>2, <3>3, <3>4, <3>5 DEF Inv, Owned
  <2> QED  BY <2>1, <2>2 DEF Owned
<1>3. Placed'
  BY IndexAssumption
     DEF Inv, TypeOK, Owned, Placed, Staged, Stage, Ws, Idle, Reading, MakeRoom,
         MayTakeBudget, Gone, Unlocked, Remove, TakeOut, GoTo, Marked, Live, Dead, Evicts,
         Entries, index, processes, registry, tasks, locks
<1>4. Staged'
  BY IndexAssumption
     DEF Inv, TypeOK, Owned, Placed, Staged, Stage, Ws, Idle, Reading, Kinds, MakeRoom,
         MayTakeBudget, Gone, Unlocked, Remove, TakeOut, GoTo, Marked, Live, Dead, Evicts,
         Entries, index, processes, registry, tasks, locks
<1> QED  BY <1>1, <1>2, <1>3, <1>4 DEF Inv

\* Reap keeps the invariant.
LEMMA ReapInv ==
    ASSUME Inv, NEW t \in Tasks, NEW V \in SUBSET Workspaces, Reap(t, V)
    PROVE  Inv'
<1>1. TypeOK'
  <2>1. V \in SUBSET Entries /\ Remove(V) /\ TakeOut(t, V)
    BY DEF Reap, Evicts
  <2>2. UNCHANGED <<config, owner, proc, target, lifecycle, leaving>>
    BY DEF Reap, index, processes
  <2> QED  BY <2>1, <2>2, RemoveType, TakeOutType DEF Inv, TypeOK
<1>2. Owned'
  BY IndexAssumption
     DEF Inv, TypeOK, Owned, Placed, Staged, Stage, Ws, Idle, Reap, MayTakeBudget, Remove,
         TakeOut, GoTo, Marked, Dead, Evicts, Entries, index, processes, registry, tasks,
         locks
<1>3. Placed'
  BY IndexAssumption
     DEF Inv, TypeOK, Owned, Placed, Staged, Stage, Ws, Idle, Reading, Reap,
         MayTakeBudget, Remove, TakeOut, GoTo, Marked, Dead, Evicts, Entries, index,
         processes, registry, tasks, locks
<1>4. Staged'
  BY IndexAssumption
     DEF Inv, TypeOK, Owned, Placed, Staged, Stage, Ws, Idle, Reading, Kinds, Reap,
         MayTakeBudget, Remove, TakeOut, GoTo, Marked, Dead, Evicts, Entries, index,
         processes, registry, tasks, locks
<1> QED  BY <1>1, <1>2, <1>3, <1>4 DEF Inv

\* ClearFailed keeps the invariant.
LEMMA ClearFailedInv ==
    ASSUME Inv, NEW t \in Tasks, ClearFailed(t)
    PROVE  Inv'
<1>1. TypeOK'
  <2> DEFINE V == {w \in Workspaces : Dead(w)}
  <2>1. /\ V \in SUBSET Entries /\ V \in SUBSET Workspaces
        /\ Remove(V) /\ TakeOut(t, V)
    BY DEF ClearFailed, Dead, Entries
  <2>2. UNCHANGED <<config, owner, proc, target, lifecycle, leaving>>
    BY DEF ClearFailed, index, processes
  <2> HIDE DEF V
  <2> QED  BY <2>1, <2>2, RemoveType, TakeOutType DEF Inv, TypeOK
<1>2. Owned'
  BY IndexAssumption
     DEF Inv, TypeOK, Owned, Placed, Staged, Stage, Ws, Idle, ClearFailed, MayTakeBudget,
         Remove, TakeOut, GoTo, Marked, Dead, index, processes, registry, tasks, locks
<1>3. Placed'
  BY IndexAssumption
     DEF Inv, TypeOK, Owned, Placed, Staged, Stage, Ws, Idle, Reading, ClearFailed,
         MayTakeBudget, Remove, TakeOut, GoTo, Marked, Dead, index, processes, registry,
         tasks, locks
<1>4. Staged'
  BY IndexAssumption
     DEF Inv, TypeOK, Owned, Placed, Staged, Stage, Ws, Idle, Reading, Kinds, ClearFailed,
         MayTakeBudget, Remove, TakeOut, GoTo, Marked, Dead, index, processes, registry,
         tasks, locks
<1> QED  BY <1>1, <1>2, <1>3, <1>4 DEF Inv

\* StopVictim keeps the invariant.
LEMMA StopVictimInv ==
    ASSUME Inv, NEW t \in Tasks, NEW x \in Watchers, NEW error \in BOOLEAN, StopVictim(t,
        x, error)
    PROVE  Inv'
<1>1. TypeOK'
  BY IndexAssumption
     DEF TypeOK, Request, Idle, Kinds, Stages, Ws, Stage, Inv, Staged, StopVictim, Gone,
         Unlocked, index, processes, registry, tasks, locks
<1>2. Owned'
  BY IndexAssumption
     DEF Inv, TypeOK, Owned, Placed, Staged, Stage, Ws, Idle, StopVictim, Gone, Unlocked,
         index, processes, registry, tasks, locks
<1>3. Placed'
  BY IndexAssumption
     DEF Inv, TypeOK, Owned, Placed, Staged, Stage, Ws, Idle, Reading, StopVictim, Gone,
         Unlocked, index, processes, registry, tasks, locks
<1>4. Staged'
  BY IndexAssumption
     DEF Inv, TypeOK, Owned, Placed, Staged, Stage, Ws, Idle, Reading, Kinds, StopVictim,
         Gone, Unlocked, index, processes, registry, tasks, locks
<1> QED  BY <1>1, <1>2, <1>3, <1>4 DEF Inv

\* Stopped keeps the invariant.
LEMMA StoppedInv ==
    ASSUME Inv, NEW t \in Tasks, Stopped(t)
    PROVE  Inv'
<1>0. \/ req[t].kind = "prepare" /\ req' = [req EXCEPT ![t].stage = "starting"]
         /\ UNCHANGED budget
      \/ req[t].kind = "status" /\ req' = [req EXCEPT ![t].stage = "observing"]
         /\ budget' = None
      \/ req' = [req EXCEPT ![t] = Idle] /\ budget' = IF budget = t THEN None ELSE budget
  BY DEF Stopped, GoTo, Return
<1>a. /\ Stage(t) = "stopping" /\ victims[t] = {}
      /\ UNCHANGED <<config, owner, proc, target, table, idle, failed>>
      /\ UNCHANGED <<victims, lifecycle, leaving>>
  BY DEF Stopped, index, processes, registry
<1>1. TypeOK'
  <2>1. CASE req[t].kind = "prepare" /\ req' = [req EXCEPT ![t].stage = "starting"]
                /\ UNCHANGED budget
    BY <2>1, <1>a, IndexAssumption DEF Inv, TypeOK, Request, Idle, Kinds, Stages
  <2>2. CASE req' = [req EXCEPT ![t] = Idle] /\ budget' = IF budget = t THEN None ELSE
      budget
    BY <2>2, <1>a, IndexAssumption DEF Inv, TypeOK, Request, Idle, Kinds, Stages
  <2>3. CASE req[t].kind = "status" /\ req' = [req EXCEPT ![t].stage = "observing"]
                /\ budget' = None
    BY <2>3, <1>a, IndexAssumption DEF Inv, TypeOK, Request, Idle, Kinds, Stages
  <2> QED  BY <1>0, <2>1, <2>2, <2>3
<1>2. Owned'
  BY <1>a DEF Inv, Owned
<1>3. Placed'
  <2>1. budget = t /\ \A u \in Tasks : victims[u] = {}
    BY <1>a DEF Inv, Placed, Staged, TypeOK
  <2> QED  BY <1>a, <2>1 DEF Inv, Placed
<1>4. Staged'
  <2>1. CASE req[t].kind = "prepare" /\ req' = [req EXCEPT ![t].stage = "starting"]
                /\ UNCHANGED budget
    BY <2>1, <1>a, IndexAssumption
       DEF Inv, TypeOK, Owned, Placed, Staged, Stage, Ws, Idle, Reading, Kinds, Request
  <2>2. CASE req' = [req EXCEPT ![t] = Idle] /\ budget' = IF budget = t THEN None ELSE
      budget
    BY <2>2, <1>a, IndexAssumption
       DEF Inv, TypeOK, Owned, Placed, Staged, Stage, Ws, Idle, Reading, Kinds, Request
  <2>3. CASE req[t].kind = "status" /\ req' = [req EXCEPT ![t].stage = "observing"]
                /\ budget' = None
    BY <2>3, <1>a, IndexAssumption
       DEF Inv, TypeOK, Owned, Placed, Staged, Stage, Ws, Idle, Reading, Kinds, Request
  <2> QED  BY <1>0, <2>1, <2>2, <2>3
<1> QED  BY <1>1, <1>2, <1>3, <1>4 DEF Inv

\* Observe keeps the invariant.
LEMMA ObserveInv ==
    ASSUME Inv, NEW t \in Tasks, Observe(t)
    PROVE  Inv'
<1>0. Ws(t) \in Workspaces /\ Marked \in [Workspaces -> -1..Ttl]
  BY IndexAssumption DEF Observe, Marked, Inv, Staged, TypeOK
<1>1. TypeOK'
  BY <1>0, IndexAssumption
     DEF TypeOK, Request, Idle, Kinds, Stages, Inv, Observe, Return, index, processes
<1>2. Owned'
  BY DEF Inv, Owned, Observe, index, processes
<1>3. Placed'
  BY DEF Inv, Placed, Staged, TypeOK, Observe, Return, index, processes
<1>4. Staged'
  BY IndexAssumption
     DEF Inv, TypeOK, Placed, Staged, Stage, Ws, Idle, Reading, Kinds, Observe, Return,
         index, processes
<1> QED  BY <1>1, <1>2, <1>3, <1>4 DEF Inv

\* TaskDropped keeps the invariant.
LEMMA TaskDroppedInv ==
    ASSUME Inv, NEW t \in Tasks, TaskDropped(t)
    PROVE  Inv'
<1>1. TypeOK'
  BY IndexAssumption
     DEF TypeOK, Request, Idle, Kinds, Stages, Ws, Stage, Inv, Staged, TaskDropped, Gone,
         Unlocked, Return, index, processes, registry, tasks, locks
<1>2. Owned'
  BY IndexAssumption
     DEF Inv, TypeOK, Owned, Placed, Staged, Stage, Ws, Idle, TaskDropped, Gone, Unlocked,
         Return, index, processes, registry, tasks, locks
<1>3. Placed'
  BY IndexAssumption
     DEF Inv, TypeOK, Owned, Placed, Staged, Stage, Ws, Idle, Reading, TaskDropped, Gone,
         Unlocked, Return, index, processes, registry, tasks, locks
<1>4. Staged'
  BY IndexAssumption
     DEF Inv, TypeOK, Owned, Placed, Staged, Stage, Ws, Idle, Reading, Kinds, TaskDropped,
         Gone, Unlocked, Return, index, processes, registry, tasks, locks
<1> QED  BY <1>1, <1>2, <1>3, <1>4 DEF Inv

\* StartWatch keeps the invariant.
LEMMA StartWatchInv ==
    ASSUME Inv, NEW t \in Tasks, NEW x \in Watchers, StartWatch(t, x)
    PROVE  Inv'
<1>1. TypeOK'
  BY IndexAssumption
     DEF TypeOK, Request, Idle, Kinds, Stages, Ws, Stage, Inv, Staged, StartWatch, GoTo,
         index, processes, registry, tasks, locks
<1>2. Owned'
  BY IndexAssumption
     DEF Inv, TypeOK, Owned, Placed, Staged, Stage, Ws, Idle, StartWatch, GoTo, index,
         processes, registry, tasks, locks
<1>3. Placed'
  BY IndexAssumption
     DEF Inv, TypeOK, Owned, Placed, Staged, Stage, Ws, Idle, Reading, StartWatch, GoTo,
         index, processes, registry, tasks, locks
<1>4. Staged'
  BY IndexAssumption
     DEF Inv, TypeOK, Owned, Placed, Staged, Stage, Ws, Idle, Reading, Kinds, StartWatch,
         GoTo, index, processes, registry, tasks, locks
<1> QED  BY <1>1, <1>2, <1>3, <1>4 DEF Inv

\* StartRefused keeps the invariant.
LEMMA StartRefusedInv ==
    ASSUME Inv, NEW t \in Tasks, StartRefused(t)
    PROVE  Inv'
<1>1. TypeOK'
  BY IndexAssumption
     DEF TypeOK, Request, Idle, Kinds, Stages, Ws, Stage, Inv, Staged, StartRefused,
         Return, index, processes, registry, tasks, locks
<1>2. Owned'
  BY IndexAssumption
     DEF Inv, TypeOK, Owned, Placed, Staged, Stage, Ws, Idle, StartRefused, Return, index,
         processes, registry, tasks, locks
<1>3. Placed'
  BY IndexAssumption
     DEF Inv, TypeOK, Owned, Placed, Staged, Stage, Ws, Idle, Reading, StartRefused,
         Return, index, processes, registry, tasks, locks
<1>4. Staged'
  BY IndexAssumption
     DEF Inv, TypeOK, Owned, Placed, Staged, Stage, Ws, Idle, Reading, Kinds,
         StartRefused, Return, index, processes, registry, tasks, locks
<1> QED  BY <1>1, <1>2, <1>3, <1>4 DEF Inv

\* StartAborted keeps the invariant.
LEMMA StartAbortedInv ==
    ASSUME Inv, NEW t \in Tasks, StartAborted(t)
    PROVE  Inv'
<1>1. TypeOK'
  BY IndexAssumption
     DEF TypeOK, Request, Idle, Kinds, Stages, Ws, Stage, Inv, Staged, StartAborted, Gone,
         Unlocked, Return, index, processes, registry, tasks, locks
<1>2. Owned'
  BY IndexAssumption
     DEF Inv, TypeOK, Owned, Placed, Staged, Stage, Ws, Idle, StartAborted, Gone,
         Unlocked, Return, index, processes, registry, tasks, locks
<1>3. Placed'
  BY IndexAssumption
     DEF Inv, TypeOK, Owned, Placed, Staged, Stage, Ws, Idle, Reading, StartAborted, Gone,
         Unlocked, Return, index, processes, registry, tasks, locks
<1>4. Staged'
  BY IndexAssumption
     DEF Inv, TypeOK, Owned, Placed, Staged, Stage, Ws, Idle, Reading, Kinds,
         StartAborted, Gone, Unlocked, Return, index, processes, registry, tasks, locks
<1> QED  BY <1>1, <1>2, <1>3, <1>4 DEF Inv

\* Started keeps the invariant.
LEMMA StartedInv ==
    ASSUME Inv, NEW t \in Tasks, Started(t)
    PROVE  Inv'
<1>1. TypeOK'
  BY IndexAssumption
     DEF TypeOK, Request, Idle, Kinds, Stages, Ws, Stage, Inv, Staged, Started, Return,
         index, processes, registry, tasks, locks
<1>2. Owned'
  BY IndexAssumption
     DEF Inv, TypeOK, Owned, Placed, Staged, Stage, Ws, Idle, Started, Return, index,
         processes, registry, tasks, locks
<1>3. Placed'
  BY IndexAssumption
     DEF Inv, TypeOK, Owned, Placed, Staged, Stage, Ws, Idle, Reading, Started, Return,
         index, processes, registry, tasks, locks
<1>4. Staged'
  BY IndexAssumption
     DEF Inv, TypeOK, Owned, Placed, Staged, Stage, Ws, Idle, Reading, Kinds, Started,
         Return, index, processes, registry, tasks, locks
<1> QED  BY <1>1, <1>2, <1>3, <1>4 DEF Inv

\* WatcherExits keeps the invariant.
LEMMA WatcherExitsInv ==
    ASSUME Inv, NEW x \in Watchers, WatcherExits(x)
    PROVE  Inv'
<1>1. TypeOK'
  BY IndexAssumption
     DEF TypeOK, Request, Idle, Kinds, Stages, Ws, Stage, Inv, Staged, WatcherExits,
         index, processes, registry, tasks, locks
<1>2. Owned'
  BY IndexAssumption
     DEF Inv, TypeOK, Owned, Placed, Staged, Stage, Ws, Idle, WatcherExits, index,
         processes, registry, tasks, locks
<1>3. Placed'
  BY IndexAssumption
     DEF Inv, TypeOK, Owned, Placed, Staged, Stage, Ws, Idle, Reading, WatcherExits,
         index, processes, registry, tasks, locks
<1>4. Staged'
  BY IndexAssumption
     DEF Inv, TypeOK, Owned, Placed, Staged, Stage, Ws, Idle, Reading, Kinds,
         WatcherExits, index, processes, registry, tasks, locks
<1> QED  BY <1>1, <1>2, <1>3, <1>4 DEF Inv

\* RegistrySnapshot keeps the invariant.
LEMMA RegistrySnapshotInv ==
    ASSUME Inv, RegistrySnapshot
    PROVE  Inv'
<1>1. TypeOK'
  BY IndexAssumption
     DEF TypeOK, Request, Idle, Kinds, Stages, Ws, Stage, Inv, Staged, RegistrySnapshot,
         Marked, Dead, index, processes, registry, tasks, locks
<1>2. Owned'
  BY IndexAssumption
     DEF Inv, TypeOK, Owned, Placed, Staged, Stage, Ws, Idle, RegistrySnapshot, Marked,
         Dead, index, processes, registry, tasks, locks
<1>3. Placed'
  BY IndexAssumption
     DEF Inv, TypeOK, Owned, Placed, Staged, Stage, Ws, Idle, Reading, RegistrySnapshot,
         Marked, Dead, index, processes, registry, tasks, locks
<1>4. Staged'
  BY IndexAssumption
     DEF Inv, TypeOK, Owned, Placed, Staged, Stage, Ws, Idle, Reading, Kinds,
         RegistrySnapshot, Marked, Dead, index, processes, registry, tasks, locks
<1> QED  BY <1>1, <1>2, <1>3, <1>4 DEF Inv

\* Tick keeps the invariant.
LEMMA TickInv ==
    ASSUME Inv, Tick
    PROVE  Inv'
<1>1. TypeOK'
  BY IndexAssumption
     DEF TypeOK, Request, Idle, Kinds, Stages, Ws, Stage, Inv, Staged, Tick, Entries,
         index, processes, registry, tasks, locks
<1>2. Owned'
  BY IndexAssumption
     DEF Inv, TypeOK, Owned, Placed, Staged, Stage, Ws, Idle, Tick, Entries, index,
         processes, registry, tasks, locks
<1>3. Placed'
  BY IndexAssumption
     DEF Inv, TypeOK, Owned, Placed, Staged, Stage, Ws, Idle, Reading, Tick, Entries,
         index, processes, registry, tasks, locks
<1>4. Staged'
  BY IndexAssumption
     DEF Inv, TypeOK, Owned, Placed, Staged, Stage, Ws, Idle, Reading, Kinds, Tick,
         Entries, index, processes, registry, tasks, locks
<1> QED  BY <1>1, <1>2, <1>3, <1>4 DEF Inv

\* ShutdownBegins keeps the invariant.
LEMMA ShutdownBeginsInv ==
    ASSUME Inv, ShutdownBegins
    PROVE  Inv'
<1>1. TypeOK'
  BY IndexAssumption
     DEF TypeOK, Request, Idle, Kinds, Stages, Ws, Stage, Inv, Staged, ShutdownBegins,
         index, processes, registry, tasks, locks
<1>2. Owned'
  BY IndexAssumption
     DEF Inv, TypeOK, Owned, Placed, Staged, Stage, Ws, Idle, ShutdownBegins, index,
         processes, registry, tasks, locks
<1>3. Placed'
  BY IndexAssumption
     DEF Inv, TypeOK, Owned, Placed, Staged, Stage, Ws, Idle, Reading, ShutdownBegins,
         index, processes, registry, tasks, locks
<1>4. Staged'
  BY IndexAssumption
     DEF Inv, TypeOK, Owned, Placed, Staged, Stage, Ws, Idle, Reading, Kinds,
         ShutdownBegins, index, processes, registry, tasks, locks
<1> QED  BY <1>1, <1>2, <1>3, <1>4 DEF Inv

\* ShutdownTakes keeps the invariant.
LEMMA ShutdownTakesInv ==
    ASSUME Inv, ShutdownTakes
    PROVE  Inv'
<1>1. TypeOK'
  BY IndexAssumption
     DEF TypeOK, Request, Idle, Kinds, Stages, Ws, Stage, Inv, Staged, ShutdownTakes,
         Remove, Marked, Dead, Entries, index, processes, registry, tasks, locks
<1>2. Owned'
  BY IndexAssumption
     DEF Inv, TypeOK, Owned, Placed, Staged, Stage, Ws, Idle, ShutdownTakes, Remove,
         Marked, Dead, Entries, index, processes, registry, tasks, locks
<1>3. Placed'
  BY IndexAssumption
     DEF Inv, TypeOK, Owned, Placed, Staged, Stage, Ws, Idle, Reading, ShutdownTakes,
         Remove, Marked, Dead, Entries, index, processes, registry, tasks, locks
<1>4. Staged'
  BY IndexAssumption
     DEF Inv, TypeOK, Owned, Placed, Staged, Stage, Ws, Idle, Reading, Kinds,
         ShutdownTakes, Remove, Marked, Dead, Entries, index, processes, registry, tasks,
         locks
<1> QED  BY <1>1, <1>2, <1>3, <1>4 DEF Inv

\* ShutdownStops keeps the invariant.
LEMMA ShutdownStopsInv ==
    ASSUME Inv, NEW x \in Watchers, ShutdownStops(x)
    PROVE  Inv'
<1>1. TypeOK'
  BY IndexAssumption
     DEF TypeOK, Request, Idle, Kinds, Stages, Ws, Stage, Inv, Staged, ShutdownStops,
         Gone, Unlocked, index, processes, registry, tasks, locks
<1>2. Owned'
  BY IndexAssumption
     DEF Inv, TypeOK, Owned, Placed, Staged, Stage, Ws, Idle, ShutdownStops, Gone,
         Unlocked, index, processes, registry, tasks, locks
<1>3. Placed'
  BY IndexAssumption
     DEF Inv, TypeOK, Owned, Placed, Staged, Stage, Ws, Idle, Reading, ShutdownStops,
         Gone, Unlocked, index, processes, registry, tasks, locks
<1>4. Staged'
  BY IndexAssumption
     DEF Inv, TypeOK, Owned, Placed, Staged, Stage, Ws, Idle, Reading, Kinds,
         ShutdownStops, Gone, Unlocked, index, processes, registry, tasks, locks
<1> QED  BY <1>1, <1>2, <1>3, <1>4 DEF Inv

\* ShutdownEnds keeps the invariant.
LEMMA ShutdownEndsInv ==
    ASSUME Inv, ShutdownEnds
    PROVE  Inv'
<1>1. TypeOK'
  BY IndexAssumption
     DEF TypeOK, Request, Idle, Kinds, Stages, Ws, Stage, Inv, Staged, ShutdownEnds,
         index, processes, registry, tasks, locks
<1>2. Owned'
  BY IndexAssumption
     DEF Inv, TypeOK, Owned, Placed, Staged, Stage, Ws, Idle, ShutdownEnds, index,
         processes, registry, tasks, locks
<1>3. Placed'
  BY IndexAssumption
     DEF Inv, TypeOK, Owned, Placed, Staged, Stage, Ws, Idle, Reading, ShutdownEnds,
         index, processes, registry, tasks, locks
<1>4. Staged'
  BY IndexAssumption
     DEF Inv, TypeOK, Owned, Placed, Staged, Stage, Ws, Idle, Reading, Kinds,
         ShutdownEnds, index, processes, registry, tasks, locks
<1> QED  BY <1>1, <1>2, <1>3, <1>4 DEF Inv

\* Exit keeps the invariant.
LEMMA ExitInv ==
    ASSUME Inv, Exit
    PROVE  Inv'
<1>1. TypeOK'
  BY IndexAssumption
     DEF TypeOK, Request, Idle, Kinds, Stages, Ws, Stage, Inv, Staged, Exit, Gone,
         Unlocked, Remove, Marked, Dead, Entries, index, processes, registry, tasks, locks
<1>2. Owned'
  <2> DEFINE mine == {t \in Tasks : req[t].kind # "init"}
             held == {table[w] : w \in Entries} \cup UNION {victims[t] : t \in mine}
  <2>1. /\ proc' = [x \in Watchers |-> IF x \in mine \cup held THEN "free" ELSE proc[x]]
        /\ target' = [x \in Watchers |-> IF x \in mine \cup held THEN None ELSE target[x]]
        /\ owner' = [w \in Workspaces |-> IF owner[w] \in mine \cup held THEN None ELSE
            owner[w]]
        /\ lifecycle = "over" /\ leaving' = leaving
    BY DEF Exit, Gone, Unlocked
  <2>2. ASSUME NEW w \in Workspaces, owner[w] \in Watchers
        PROVE  owner[w] \in held
    <3>1. owner[w] \notin leaving
      BY <2>1 DEF Inv, Placed
    <3>2. CASE table[w] = owner[w]
      BY <3>2, <2>2, IndexAssumption DEF Entries
    <3>3. CASE \E t \in Tasks : owner[w] \in victims[t]
      <4> PICK t \in Tasks : owner[w] \in victims[t]
        BY <3>3
      <4>1. t \in mine
        BY DEF Inv, Staged, Reading, Stage
      <4> QED  BY <4>1
    <3> QED  BY <2>2, <3>1, <3>2, <3>3 DEF Inv, Owned
  <2>3. \A x \in Watchers : proc[x] # "free" => x \in held
    BY <2>2 DEF Inv, Owned
  <2>4. \A x \in Watchers : proc'[x] = "free"
    BY <2>1, <2>3
  <2>5. \A w \in Workspaces : owner'[w] \notin Watchers
    BY <2>1, <2>2, IndexAssumption
  <2> QED  BY <2>4, <2>5 DEF Owned
<1>3. Placed'
  BY IndexAssumption
     DEF Inv, TypeOK, Owned, Placed, Staged, Stage, Ws, Idle, Reading, Exit, Gone,
         Unlocked, Remove, Marked, Dead, Entries, index, processes, registry, tasks, locks
<1>4. Staged'
  BY IndexAssumption
     DEF Inv, TypeOK, Owned, Placed, Staged, Stage, Ws, Idle, Reading, Kinds, Exit, Gone,
         Unlocked, Remove, Marked, Dead, Entries, index, processes, registry, tasks, locks
<1> QED  BY <1>1, <1>2, <1>3, <1>4 DEF Inv

\* Boot keeps the invariant.
LEMMA BootInv ==
    ASSUME Inv, Boot
    PROVE  Inv'
<1>1. TypeOK'
  BY IndexAssumption
     DEF TypeOK, Request, Idle, Kinds, Stages, Ws, Stage, Inv, Staged, Boot, index,
         processes, registry, tasks, locks
<1>2. Owned'
  BY IndexAssumption
     DEF Inv, TypeOK, Owned, Placed, Staged, Stage, Ws, Idle, Boot, index, processes,
         registry, tasks, locks
<1>3. Placed'
  BY IndexAssumption
     DEF Inv, TypeOK, Owned, Placed, Staged, Stage, Ws, Idle, Reading, Boot, index,
         processes, registry, tasks, locks
<1>4. Staged'
  BY IndexAssumption
     DEF Inv, TypeOK, Owned, Placed, Staged, Stage, Ws, Idle, Reading, Kinds, Boot, index,
         processes, registry, tasks, locks
<1> QED  BY <1>1, <1>2, <1>3, <1>4 DEF Inv

-----------------------------------------------------------------------------
\* A case for every action: the invariant is inductive.
LEMMA InvInductive ==
    Inv /\ [Next]_vars => Inv'
<1> SUFFICES ASSUME Inv, [Next]_vars PROVE Inv'
  OBVIOUS
<1>1. CASE \E t \in Tasks, kind \in Kinds, w \in Workspaces \cup {None} : Begin(t, kind, w)
  BY <1>1, BeginInv
<1>2. CASE \E t \in Tasks, w \in Workspaces : BeginInit(t, w)
  BY <1>2, BeginInitInv
<1>3. CASE \E t \in Tasks : CheckConfig(t)
  BY <1>3, CheckConfigInv
<1>4. CASE \E t \in Tasks : AcquireForInit(t)
  BY <1>4, AcquireForInitInv
<1>5. CASE \E t \in Tasks : InitRefused(t)
  BY <1>5, InitRefusedInv
<1>6. CASE \E t \in Tasks : EnableGraph(t)
  BY <1>6, EnableGraphInv
<1>7. CASE \E t \in Tasks : GrepaiWritesConfig(t)
  BY <1>7, GrepaiWritesConfigInv
<1>8. CASE \E t \in Tasks : InitDone(t)
  BY <1>8, InitDoneInv
<1>9. CASE \E t \in Tasks : InitFails(t)
  BY <1>9, InitFailsInv
<1>10. CASE \E t \in Tasks : EnterLifecycle(t)
  BY <1>10, EnterLifecycleInv
<1>11. CASE \E t \in Tasks : ReuseWatcher(t)
  BY <1>11, ReuseWatcherInv
<1>12. CASE \E t \in Tasks, V \in SUBSET Workspaces : MakeRoom(t, V)
  BY <1>12, MakeRoomInv
<1>13. CASE \E t \in Tasks, V \in SUBSET Workspaces : Reap(t, V)
  BY <1>13, ReapInv
<1>14. CASE \E t \in Tasks : ClearFailed(t)
  BY <1>14, ClearFailedInv
<1>15. CASE \E t \in Tasks, x \in Watchers, error \in BOOLEAN : StopVictim(t, x, error)
  BY <1>15, StopVictimInv
<1>16. CASE \E t \in Tasks : Stopped(t)
  BY <1>16, StoppedInv
<1>17. CASE \E t \in Tasks : TaskDropped(t)
  BY <1>17, TaskDroppedInv
<1>18. CASE \E t \in Tasks, x \in Watchers : StartWatch(t, x)
  BY <1>18, StartWatchInv
<1>19. CASE \E t \in Tasks : StartRefused(t)
  BY <1>19, StartRefusedInv
<1>20. CASE \E t \in Tasks : StartAborted(t)
  BY <1>20, StartAbortedInv
<1>21. CASE \E t \in Tasks : Started(t)
  BY <1>21, StartedInv
<1>22. CASE \E x \in Watchers : WatcherExits(x)
  BY <1>22, WatcherExitsInv
<1>23. CASE RegistrySnapshot
  BY <1>23, RegistrySnapshotInv
<1>24. CASE Tick
  BY <1>24, TickInv
<1>25. CASE ShutdownBegins
  BY <1>25, ShutdownBeginsInv
<1>26. CASE ShutdownTakes
  BY <1>26, ShutdownTakesInv
<1>27. CASE \E x \in Watchers : ShutdownStops(x)
  BY <1>27, ShutdownStopsInv
<1>28. CASE ShutdownEnds
  BY <1>28, ShutdownEndsInv
<1>29. CASE Exit
  BY <1>29, ExitInv
<1>30. CASE Boot
  BY <1>30, BootInv
<1>31. CASE \E t \in Tasks : Observe(t)
  BY <1>31, ObserveInv
<1>32. CASE UNCHANGED vars
  BY <1>32 DEF vars, Inv, TypeOK, Owned, Placed, Staged, Stage, Ws, Reading
<1> QED
  BY <1>1, <1>2, <1>3, <1>4, <1>5, <1>6, <1>7, <1>8, <1>9, <1>10, <1>11, <1>12, <1>13,
      <1>14, <1>15, <1>16, <1>17, <1>18, <1>19, <1>20, <1>21, <1>22, <1>23, <1>24, <1>25,
      <1>26, <1>27, <1>28, <1>29, <1>30, <1>31, <1>32
     DEF Next, Advance, Look, Shutdown

LEMMA InitInv ==
    Init => Inv
BY IndexAssumption DEF Init, Inv, TypeOK, Owned, Placed, Staged, Stage, Ws, Reading, Idle,
                       Request, Kinds, Stages

\* The type invariant, for every number of workspaces, watchers and tasks.
THEOREM TypeCorrect ==
    Spec => []TypeOK
<1>1. Inv => TypeOK
  BY DEF Inv
<1> QED  BY <1>1, InitInv, InvInductive, PTL DEF Spec

LEMMA InvSupervised ==
    Inv => Supervised
<1> SUFFICES ASSUME Inv PROVE Supervised
  OBVIOUS
<1>1. ASSUME NEW x \in Running
      PROVE  /\ owner[target[x]] = x
             /\ table[target[x]] = x \/ (\E t \in Tasks : x \in victims[t]) \/ x \in leaving
  BY <1>1 DEF Inv, Owned, Running
<1>2. ASSUME NEW t \in Tasks, Stage(t) = "starting"
      PROVE  owner[Ws(t)] \notin Watchers
  <2>1. /\ budget = t /\ victims[t] = {} /\ lifecycle # "closed"
        /\ table[Ws(t)] = None /\ Ws(t) \in Workspaces
    BY <1>2 DEF Inv, Staged, Reading
  <2>2. leaving = {} /\ \A u \in Tasks : victims[u] = {}
    BY <2>1 DEF Inv, Placed, TypeOK
  <2> QED  BY <2>1, <2>2, IndexAssumption DEF Inv, Owned
<1> QED  BY <1>1, <1>2 DEF Supervised

\* Every watcher that runs owns its index and has a holder, and a start finds no
\* watcher in its way: ensure_watcher, take_evictions, shutdown_watchers,
\* IndexCoordinator::shutdown and WatchHandle, in every interleaving.
THEOREM WatchersSupervised ==
    Spec => []Supervised
BY InitInv, InvInductive, InvSupervised, PTL DEF Spec

-----------------------------------------------------------------------------
\* A task past take_evictions(true) and before its start.
HasRoom(t) == Stage(t) \in {"stopping", "starting"} /\ req[t].kind = "prepare"

\* Only a start adds a watched index, only MakeRoom gets a task to where it may
\* start, and while it is there no entry is added.
LEMMA Growth ==
    ASSUME Inv, [Next]_vars
    PROVE  /\ \/ Watched' \subseteq Watched
              \/ \E t \in Tasks, x \in Watchers : StartWatch(t, x)
           /\ \A t \in Tasks : HasRoom(t)' =>
                \/ HasRoom(t) /\ Entries' \subseteq Entries
                \/ \E V \in SUBSET Workspaces : MakeRoom(t, V)
<1>1. CASE \E t \in Tasks, kind \in Kinds, w \in Workspaces \cup {None} : Begin(t, kind, w)
  BY <1>1, IndexAssumption
     DEF Inv, TypeOK, Staged, Placed, Watched, HasRoom, Stage, Ws, Idle, Begin,
            Entries, index, processes, registry, tasks, locks
<1>2. CASE \E t \in Tasks, w \in Workspaces : BeginInit(t, w)
  BY <1>2, IndexAssumption
     DEF Inv, TypeOK, Staged, Placed, Watched, HasRoom, Stage, Ws, Idle, BeginInit,
            Entries, index, processes, registry, tasks, locks
<1>3. CASE \E t \in Tasks : CheckConfig(t)
  <2> PICK t \in Tasks : CheckConfig(t)
    BY <1>3
  <2>1. /\ UNCHANGED <<owner, table>>
        /\ \A u \in Tasks \ {t} : req'[u] = req[u]
        /\ ~HasRoom(t)'
    <3>1. \/ req' = [req EXCEPT ![t].stage = "acquire"]
          \/ req' = [req EXCEPT ![t].stage = "graph"]
          \/ req' = [req EXCEPT ![t] = Idle]
          \/ req' = [req EXCEPT ![t].stage = "lifecycle"]
      BY DEF CheckConfig, Proceed, GoTo
    <3> QED  BY <3>1
       DEF CheckConfig, HasRoom, Stage, Idle, Inv, TypeOK, Request, index, registry
  <2> QED  BY <2>1 DEF Watched, HasRoom, Stage, Entries
<1>4. CASE \E t \in Tasks : AcquireForInit(t)
  BY <1>4, IndexAssumption
     DEF Inv, TypeOK, Staged, Placed, Watched, HasRoom, Stage, Ws, Idle,
            AcquireForInit, GoTo, Entries, index, processes, registry, tasks, locks
<1>5. CASE \E t \in Tasks : InitRefused(t)
  BY <1>5, IndexAssumption
     DEF Inv, TypeOK, Staged, Placed, Watched, HasRoom, Stage, Ws, Idle, InitRefused,
            Return, Entries, index, processes, registry, tasks, locks
<1>6. CASE \E t \in Tasks : EnableGraph(t)
  BY <1>6, IndexAssumption
     DEF Inv, TypeOK, Staged, Placed, Watched, HasRoom, Stage, Ws, Idle, EnableGraph,
            Proceed, Entries, index, processes, registry, tasks, locks
<1>7. CASE \E t \in Tasks : GrepaiWritesConfig(t)
  BY <1>7, IndexAssumption
     DEF Inv, TypeOK, Staged, Placed, Watched, HasRoom, Stage, Ws, Idle,
            GrepaiWritesConfig, Entries, index, processes, registry, tasks, locks
<1>8. CASE \E t \in Tasks : InitDone(t)
  BY <1>8, IndexAssumption
     DEF Inv, TypeOK, Staged, Placed, Watched, HasRoom, Stage, Ws, Idle, InitDone,
            Proceed, Unlocked, Entries, index, processes, registry, tasks, locks
<1>9. CASE \E t \in Tasks : InitFails(t)
  BY <1>9, IndexAssumption
     DEF Inv, TypeOK, Staged, Placed, Watched, HasRoom, Stage, Ws, Idle, InitFails,
            Return, Unlocked, Entries, index, processes, registry, tasks, locks
<1>10. CASE \E t \in Tasks : EnterLifecycle(t)
  BY <1>10, IndexAssumption
     DEF Inv, TypeOK, Staged, Placed, Watched, HasRoom, Stage, Ws, Idle,
            EnterLifecycle, GoTo, Entries, index, processes, registry, tasks, locks
<1>11. CASE \E t \in Tasks : ReuseWatcher(t)
  BY <1>11, IndexAssumption
     DEF Inv, TypeOK, Staged, Placed, Watched, HasRoom, Stage, Ws, Idle, ReuseWatcher,
            MayTakeBudget, Return, Entries, index, processes, registry, tasks, locks
<1>12. CASE \E t \in Tasks, V \in SUBSET Workspaces : MakeRoom(t, V)
  <2> PICK t \in Tasks, V \in SUBSET Workspaces : MakeRoom(t, V)
    BY <1>12
  <2>1. Watched' \subseteq Watched
    BY IndexAssumption DEF MakeRoom, Gone, Unlocked, Watched, Inv, TypeOK
  <2>2. Entries' \subseteq Entries
    BY DEF MakeRoom, Remove, Entries
  <2>3. \A u \in Tasks \ {t} : HasRoom(u)' => HasRoom(u)
    BY DEF MakeRoom, TakeOut, GoTo, HasRoom, Stage, Inv, TypeOK
  <2> QED  BY <2>1, <2>2, <2>3
<1>13. CASE \E t \in Tasks, V \in SUBSET Workspaces : Reap(t, V)
  BY <1>13, IndexAssumption
     DEF Inv, TypeOK, Staged, Placed, Watched, HasRoom, Stage, Ws, Idle, Reap,
            MayTakeBudget, Remove, TakeOut, GoTo, Entries, index, processes, registry,
            tasks, locks
<1>14. CASE \E t \in Tasks : ClearFailed(t)
  BY <1>14, IndexAssumption
     DEF Inv, TypeOK, Staged, Placed, Watched, HasRoom, Stage, Ws, Idle, ClearFailed,
            MayTakeBudget, Remove, TakeOut, GoTo, Entries, index, processes, registry,
            tasks, locks
<1>15. CASE \E t \in Tasks, x \in Watchers, error \in BOOLEAN : StopVictim(t, x, error)
  BY <1>15, IndexAssumption
     DEF Inv, TypeOK, Staged, Placed, Watched, HasRoom, Stage, Ws, Idle, StopVictim,
            Gone, Unlocked, Entries, index, processes, registry, tasks, locks
<1>16. CASE \E t \in Tasks : Stopped(t)
  <2> PICK t \in Tasks : Stopped(t)
    BY <1>16
  <2>1. UNCHANGED <<owner, table>>
    BY DEF Stopped, index, registry
  <2>2. \A u \in Tasks \ {t} : req'[u] = req[u]
    BY DEF Stopped, GoTo, Return, Inv, TypeOK
  <2>3. HasRoom(t)' => HasRoom(t)
    <3>1. \/ req[t].kind = "prepare"
          \/ req' = [req EXCEPT ![t].stage = "observing"]
          \/ req' = [req EXCEPT ![t] = Idle]
      BY DEF Stopped, GoTo, Return
    <3> QED  BY <3>1 DEF Stopped, HasRoom, Stage, Idle, Inv, TypeOK, Request
  <2> QED  BY <2>1, <2>2, <2>3 DEF Watched, HasRoom, Stage, Entries
<1>17. CASE \E t \in Tasks : TaskDropped(t)
  BY <1>17, IndexAssumption
     DEF Inv, TypeOK, Staged, Placed, Watched, HasRoom, Stage, Ws, Idle, TaskDropped,
            Gone, Unlocked, Return, Entries, index, processes, registry, tasks, locks
<1>18. CASE \E t \in Tasks, x \in Watchers : StartWatch(t, x)
  <2> PICK t \in Tasks, x \in Watchers : StartWatch(t, x)
    BY <1>18
  <2>1. Entries' = Entries
    BY DEF StartWatch, Entries, registry
  <2>2. \A u \in Tasks : HasRoom(u)' => HasRoom(u)
    BY DEF StartWatch, GoTo, HasRoom, Stage, Inv, TypeOK, Request
  <2> QED  BY <2>1, <2>2
<1>19. CASE \E t \in Tasks : StartRefused(t)
  BY <1>19, IndexAssumption
     DEF Inv, TypeOK, Staged, Placed, Watched, HasRoom, Stage, Ws, Idle, StartRefused,
            Return, Entries, index, processes, registry, tasks, locks
<1>20. CASE \E t \in Tasks : StartAborted(t)
  BY <1>20, IndexAssumption
     DEF Inv, TypeOK, Staged, Placed, Watched, HasRoom, Stage, Ws, Idle, StartAborted,
            Gone, Unlocked, Return, Entries, index, processes, registry, tasks, locks
<1>21. CASE \E t \in Tasks : Started(t)
  BY <1>21, IndexAssumption
     DEF Inv, TypeOK, Staged, Placed, Watched, HasRoom, Stage, Ws, Idle, Started,
            Return, Entries, index, processes, registry, tasks, locks
<1>22. CASE \E x \in Watchers : WatcherExits(x)
  BY <1>22, IndexAssumption
     DEF Inv, TypeOK, Staged, Placed, Watched, HasRoom, Stage, Ws, Idle, WatcherExits,
            Entries, index, processes, registry, tasks, locks
<1>23. CASE RegistrySnapshot
  BY <1>23, IndexAssumption
     DEF Inv, TypeOK, Staged, Placed, Watched, HasRoom, Stage, Ws, Idle,
            RegistrySnapshot, Entries, index, processes, registry, tasks, locks
<1>24. CASE Tick
  BY <1>24, IndexAssumption
     DEF Inv, TypeOK, Staged, Placed, Watched, HasRoom, Stage, Ws, Idle, Tick, Entries,
            index, processes, registry, tasks, locks
<1>25. CASE ShutdownBegins
  BY <1>25, IndexAssumption
     DEF Inv, TypeOK, Staged, Placed, Watched, HasRoom, Stage, Ws, Idle,
            ShutdownBegins, Entries, index, processes, registry, tasks, locks
<1>26. CASE ShutdownTakes
  BY <1>26, IndexAssumption
     DEF Inv, TypeOK, Staged, Placed, Watched, HasRoom, Stage, Ws, Idle, ShutdownTakes,
            Remove, Entries, index, processes, registry, tasks, locks
<1>27. CASE \E x \in Watchers : ShutdownStops(x)
  BY <1>27, IndexAssumption
     DEF Inv, TypeOK, Staged, Placed, Watched, HasRoom, Stage, Ws, Idle, ShutdownStops,
            Gone, Unlocked, Entries, index, processes, registry, tasks, locks
<1>28. CASE ShutdownEnds
  BY <1>28, IndexAssumption
     DEF Inv, TypeOK, Staged, Placed, Watched, HasRoom, Stage, Ws, Idle, ShutdownEnds,
            Entries, index, processes, registry, tasks, locks
<1>29. CASE Exit
  BY <1>29, IndexAssumption
     DEF Inv, TypeOK, Staged, Placed, Watched, HasRoom, Stage, Ws, Idle, Exit, Gone,
            Unlocked, Remove, Entries, index, processes, registry, tasks, locks
<1>30. CASE Boot
  BY <1>30, IndexAssumption
     DEF Inv, TypeOK, Staged, Placed, Watched, HasRoom, Stage, Ws, Idle, Boot, Entries,
            index, processes, registry, tasks, locks
<1>31. CASE \E t \in Tasks : Observe(t)
  BY <1>31, IndexAssumption
     DEF Inv, TypeOK, Watched, HasRoom, Stage, Idle, Observe, Return, Entries, index
<1>32. CASE UNCHANGED vars
  BY <1>32 DEF vars, Watched, HasRoom, Stage, Entries
<1> QED
  BY <1>1, <1>2, <1>3, <1>4, <1>5, <1>6, <1>7, <1>8, <1>9, <1>10, <1>11, <1>12, <1>13,
      <1>14, <1>15, <1>16, <1>17, <1>18, <1>19, <1>20, <1>21, <1>22, <1>23, <1>24, <1>25,
      <1>26, <1>27, <1>28, <1>29, <1>30, <1>31, <1>32
     DEF Next, Advance, Look, Shutdown

LEMMA BoundedInductive ==
    ASSUME Inv, Bounded, [Next]_vars
    PROVE  Bounded'
<1>1. IsFiniteSet(Workspaces) /\ Limit \in Nat
  BY IndexAssumption
<1>2. /\ IsFiniteSet(Watched) /\ IsFiniteSet(Entries)
      /\ Cardinality(Watched) \in Nat /\ Cardinality(Entries) \in Nat
  BY <1>1, FS_Subset, FS_CardinalityType DEF Watched, Entries
<1>3. Cardinality(Watched') <= Limit
  <2>1. CASE Watched' \subseteq Watched
    <3>1. Cardinality(Watched') <= Cardinality(Watched) /\ Cardinality(Watched') \in Nat
      BY <1>2, <2>1, FS_Subset, FS_CardinalityType
    <3> QED  BY <3>1, <1>1, <1>2 DEF Bounded
  <2>2. CASE \E t \in Tasks, x \in Watchers : StartWatch(t, x)
    <3> PICK t \in Tasks, x \in Watchers : StartWatch(t, x)
      BY <2>2
    <3>1. /\ Stage(t) = "starting" /\ owner' = [owner EXCEPT ![Ws(t)] = x]
          /\ HasRoom(t)
      BY DEF StartWatch, HasRoom, Inv, Staged
    <3>2. Watched' \subseteq Watched \cup {Ws(t)}
      BY <3>1 DEF Watched, Inv, TypeOK
    <3>3. Watched \subseteq Entries
      <4>1. budget = t /\ victims[t] = {} /\ lifecycle # "closed"
        BY <3>1 DEF Inv, Staged, Reading
      <4>2. leaving = {} /\ \A u \in Tasks : victims[u] = {}
        BY <4>1 DEF Inv, Placed, TypeOK
      <4> QED  BY <4>2, IndexAssumption DEF Watched, Entries, Inv, Owned
    <3>4. Cardinality(Watched) <= Limit - 1
      <4>1. Cardinality(Watched) <= Cardinality(Entries)
        BY <1>2, <3>3, FS_Subset
      <4> QED  BY <4>1, <3>1, <1>1, <1>2 DEF Bounded, HasRoom
    <3>5. /\ IsFiniteSet(Watched \cup {Ws(t)})
          /\ Cardinality(Watched \cup {Ws(t)}) <= Cardinality(Watched) + 1
      <4>1. /\ IsFiniteSet(Watched \cup {Ws(t)})
            /\ Cardinality(Watched \cup {Ws(t)}) =
                 IF Ws(t) \in Watched THEN Cardinality(Watched) ELSE Cardinality(Watched)
                     + 1
        BY <1>2, FS_AddElement, Zenon
      <4> QED  BY <4>1, <1>2
    <3>6. Cardinality(Watched') <= Cardinality(Watched \cup {Ws(t)})
      BY <3>2, <3>5, FS_Subset
    <3>7. Cardinality(Watched \cup {Ws(t)}) \in Nat /\ Cardinality(Watched') \in Nat
      BY <3>2, <3>5, FS_Subset, FS_CardinalityType
    <3> QED  BY <3>4, <3>5, <3>6, <3>7, <1>1, <1>2
  <2> QED  BY <2>1, <2>2, Growth
<1>4. ASSUME NEW t \in Tasks, HasRoom(t)'
      PROVE  Cardinality(Entries') <= Limit - 1
  <2>1. CASE HasRoom(t) /\ Entries' \subseteq Entries
    <3>1. Cardinality(Entries') <= Cardinality(Entries) /\ Cardinality(Entries') \in Nat
      BY <1>2, <2>1, FS_Subset, FS_CardinalityType
    <3> QED  BY <3>1, <2>1, <1>1, <1>2 DEF Bounded, HasRoom
  <2>2. CASE \E V \in SUBSET Workspaces : MakeRoom(t, V)
    <3> PICK V \in SUBSET Workspaces : MakeRoom(t, V)
      BY <2>2
    <3>1. Cardinality((Entries \ {Ws(t)}) \ V) <= Limit - 1
      BY DEF MakeRoom, Evicts
    <3>2. Entries' = (Entries \ {Ws(t)}) \ V
      BY IndexAssumption DEF MakeRoom, Remove, Entries, Inv, TypeOK
    <3> QED  BY <3>1, <3>2
  <2> QED  BY <1>4, <2>1, <2>2, Growth
<1> QED  BY <1>3, <1>4 DEF Bounded, HasRoom

LEMMA BoundedWithin ==
    ASSUME Inv, Bounded
    PROVE  WithinLimit
<1>1. IsFiniteSet(Watched) /\ Cardinality(Watched) \in Nat
  BY IndexAssumption, FS_Subset, FS_CardinalityType DEF Watched
<1> DEFINE f == [x \in Running |-> target[x]]
<1>2. f \in [Running -> Watched]
  BY DEF Inv, Owned, Running, Watched
<1>3. \A x, y \in Running : f[x] = f[y] => x = y
  BY DEF Inv, Owned, Running
<1>4. f \in Injection(Running, Watched)
  BY <1>2, <1>3 DEF Injection, IsInjective
<1>5. IsFiniteSet(Running) /\ Cardinality(Running) <= Cardinality(Watched)
  BY <1>1, <1>4, FS_Injection
<1>6. Cardinality(Running) \in Nat /\ Limit \in Nat
  BY <1>5, FS_CardinalityType, IndexAssumption
<1> QED  BY <1>1, <1>5, <1>6 DEF Bounded, WithinLimit

LEMMA InitBounded ==
    Init => Bounded
<1> SUFFICES ASSUME Init PROVE Bounded
  OBVIOUS
<1>1. Watched = {}
  BY IndexAssumption DEF Init, Watched
<1>2. \A t \in Tasks : Stage(t) = "idle"
  BY DEF Init, Stage, Idle
<1>3. Cardinality(Watched) = 0 /\ Limit \in Nat
  BY <1>1, FS_EmptySet, IndexAssumption
<1> QED  BY <1>2, <1>3 DEF Bounded

\* watcher_limit holds at every moment, for every limit: also while a watcher is
\* replaced, when searches start theirs at once, and after a shutdown.
THEOREM LimitHolds ==
    Spec => []WithinLimit
<1>1. Init => Inv /\ Bounded
  BY InitInv, InitBounded
<1>2. (Inv /\ Bounded) /\ [Next]_vars => (Inv /\ Bounded)'
  BY InvInductive, BoundedInductive
<1>3. Inv /\ Bounded => WithinLimit
  BY BoundedWithin
<1> QED  BY <1>1, <1>2, <1>3, PTL DEF Spec

=============================================================================
