# HZR: a TLA+ model of the daemon's durable protocols

HZR is a local daemon (`hzrd`) with a command-line client that runs shell
commands for coding agents, accounts for what they cost, searches an index of the
workspace, and keeps a long-term memory in a second process, ICM. This directory
holds TLA+ modules of the parts of it that are hardest to test: what must hold
across crashes, restarts, failed writes, dropped requests and processes that
interleave. TLC checks them on small instances; TLAPS proves the safety
properties that matter most for instances of any size.

All paths below are relative to the root of the repository.

## 1. Inventory

### Components that keep state

| Component | Source | State | Operations |
| --- | --- | --- | --- |
| Execution jobs | `crates/hzr-daemon/src/exec_jobs.rs`, `exec_jobs/` | `runtime/exec-jobs/<id>.json`, `<id>.output/`, the receipt database, the map of active jobs under one mutex | start, wait, cancel, read output, admission with reclamation, shutdown, recovery |
| Fidelity reservations | `crates/hzr-daemon/src/ledger_writer.rs` and the handlers in `api.rs` | `fidelity-pending/<id>.json`, `.json.corrupt`, `.receipt`, rows of the `commands` table, `pending_fidelity` | reserve, begin, complete, cancel, recover before spawn, reconcile, load |
| Memory client | `crates/hzr-memory/src/{client,circuit,mcp,http_transport}.rs` | the circuit breaker, one MCP connection behind a mutex | health, recall, store, CLI fallback |
| Memory supervisor | `crates/hzr-memory/src/{supervisor,runtime}.rs` | the lock file, `runtime/service.json`, `icm.pid`, the child | start, stop, restart, status, attach, drop |
| Approvals | `crates/hzr-daemon/src/approval.rs` | up to 128 pending approvals, five minutes each | insert, take, is_pending |
| Daemon lifecycle | `crates/hzr-daemon/src/{server,lock,shutdown,state}.rs` | the daemon lock, the listener | serve, supervise the memory, drain |
| Accounting | `crates/hzr-daemon/src/accounting_sweeper.rs`, `crates/hzr-exec/src/accounting.rs`, `crates/hzr-core/src/accounting_coverage.rs`, `fork-core/rtk/src/tracking.rs`, `fork_run` in `api.rs` | registrations, journals, failure signals and lock files of the fork directory, rows of engine receipts, gap intervals | register, append, signal, drain, record, acknowledge, reject, sweep, report and recover gaps |
| Index watchers | `crates/hzr-index/src/{coordinator,watch,owner,grepai}.rs`, the preparation in `hzr-context/src/planner.rs` | `config.yaml` and the owner lock of each index, the grepai processes, the table of watchers under a budget and a lifecycle lock | initialize, prepare, reuse, evict, reap, clear, shut down |
| Index placement | `crates/hzr-index/src/{workspace,registry,migration,generation}.rs` | links, registrations, backups, generations | discover, register, migrate |
| Ledger database | `crates/hzr-core/src/ledger.rs` | SQLite tables | record, report, migrate |
| Updater | `crates/hzr-cli/src/{update,activation,post_upgrade}.rs` | the installed release | download, verify, run the installer, check |

The rest (context planner, codec, executor internals, command rewriting, protocol
types, CLI rendering, host hooks, agent observer, the RTK fork, the visualizer) is
computation, parsing, rendering or third-party code; `PROJECT.json` lists each
with the reason it is left out.

### Interactions

A client posts a command to `exec_jobs::start`. Under the mutex of the active map
the job store admits it (reclaiming old records if it must), writes a Running
record and spawns a task that calls `api::execute_command`. That handler asks the
ledger actor for a fidelity reservation when the command wants raw output, asks the
policy, stops for an approval if the policy says so, makes the execution boundary
durable, starts the process, and reports the measured cost back to the actor. The
actor is one thread that serves one request at a time. The operator resolves with
`hzr doctor` what a crash left unknown. Independently, `hzrd` supervises ICM and
its request handlers call it through the memory client. One daemon at a time owns a
data root, by an exclusive file lock.

Commands that hooks rewrite run an engine (the RTK fork) in processes the daemon
does not see. They append receipts to a journal named after the correlation that the
rewrite exported; the daemon's sweeper, or the handler of a managed call, drains
journals into the ledger, and keeps in the coverage store where accounting is
missing. A search spawns a task that initializes the workspace's index and starts a
grepai watcher for it; that task outlives the request and may outlive the shutdown of
the coordinator. `hzr index init` works on the same directories from a process of
its own, and only the owner lock orders the two.

### What is hard, and what makes each part correct

* *Execution jobs.* A command with side effects must run at most once although
  clients retry, ids are reclaimed, the daemon dies between any two writes and the
  file system forgets writes it was not told to keep.
* *Fidelity reservations.* The session's allowance must hold although reservations,
  completions, failures and restarts interleave, and although a command may deliver
  more than it was bounded by; nothing that ran may be lost to the accounting; what a
  receipt says must stay true.
* *Memory client.* A store must not be repeated when its answer was lost; a reply in
  the pipe must not be taken for another call's; the breaker must hear only of the
  requests of its own generation and must never get stuck.
* *Memory supervisor.* Two ICM processes must never write one database, whoever
  crashes when.
* *Accounting.* A receipt must not fall between journal and ledger while journals are
  rotated under appends, batches are drained again after a crash or a failed insert,
  and the sweeper works off a listing that is stale; it must not be taken from the
  command that is registered for it, and what is thrown away must be reported.
* *Index watchers.* No watcher may run that nobody will stop, no two on one index,
  and never more than the limit, while preparations, sweeps, clearings and the
  shutdown pass handles to each other across awaits; and nobody may wait for ever
  for a lock whose holder waits for him.

## 2. Modules

| Module | What it is |
| --- | --- |
| `OnceOnly` | What the job store promises: an id is spent at most once. |
| `ExecJobs` | The job store, its tasks, reclamation, crash, power loss and recovery. |
| `ExecJobsProofs` | Proofs about `ExecJobs`: what runs, and under which binding. |
| `ExecStoreProofs` | Proofs about `ExecJobs`: what the store keeps and removes. |
| `Allowance` | What the reservations promise: grants stay affordable, and a command runs only under one. |
| `Fidelity` | The ledger actor's reservations, the handlers around it, the operator, restarts. |
| `FidelityProofs` | Proofs about `Fidelity`. |
| `MemoryClient` | The breaker, both transports, the fallback, and ICM as they see it. |
| `MemoryClientProofs` | Proofs about `MemoryClient`. |
| `IcmSupervisor` | Supervisors of one data root, the lock, the durable identity, ICM processes. |
| `IcmSupervisorProofs` | Proofs about `IcmSupervisor`. |
| `Accounting` | Engine processes, journals, the sweeper, managed calls, the ledger's receipt rows and the gaps. |
| `AccountingProofs` | Proofs about `Accounting`. |
| `IndexWatchers` | Preparations, the coordinator's table and locks, owner locks, grepai processes, the shutdown. |
| `IndexWatchersProofs` | Proofs about `IndexWatchers`. |
| `MC...` | Constants for TLC: model values and symmetry. |

### ExecJobs

`recs` are the records as a running system reads them; `survivors[id]` the set of
contents a power loss may leave of a record: a write adds to it, a directory sync
reduces it to what is visible. `receipts` is the SQLite table, whose commits are
durable (`synchronous = EXTRA`). `outputs` are the spilled outputs, `phase`, `job`
and `result` the task of an id, `op` the admission that holds the mutex, `reader`
an output read that holds it. Each handler is one action when it works under the
mutex without waiting (`StartKnown`, `Wait`, `CancelKnown`); an admission is split
where it touches the disk (`Admit`, `CommitReceipts`, `UnlinkRecord`,
`RemoveOutput`, `FinishBatch`, `FinishScan`, `PersistNew`), because a crash or a
failure can come between. `execute_command` is what the job sees of it: the refusals
before a process exists (`NotStarted`), the cancellation check, the start and the
end. Time is a clock of writes (`clock`) and the write before which files are older
than the grace (`horizon`). `execs` counts starts and `seen` what the client was
last told: neither is in the code.

Receipts are never given up, and the registry they are kept in has a page quota
(`receipts.rs:118`). `ReceiptSize` is what the receipt of an id takes of it and
`MaxReceiptSize` the quota: a batch that does not fit (`ReceiptsFit`) commits nothing and
fails its admission. `BytesShort` counts the outputs, stored and reserved, which make up
the byte quota; the code also counts the record files and the registry in it
(`retention.rs:33`), which are small beside an output and left out. A start whose
`recover_compaction` cannot remove an orphaned output does not come up (`BootFinish`).

### Fidelity

`file`, `quarantine` and `receipt` are the files of `fidelity-pending`, `ledger` the
rows of each reservation, `pending` the actor's map, `handler` where the request
that owns a reservation is. A request of the actor is one action with a parameter
`f`: the failure it meets, if any. The failures are those the code tells apart, and
each leaves the durable state the code leaves when it stops at that point; a crash
inside a request is therefore the failure at that place followed by `Stop`. `Boot`
is the whole load: expired reservations (only a Reserved record can expire; how old
it is, is a choice), outbox records, records with a receipt, unreadable ones, and
unreadable ones that cannot be renamed; one start meets one kind of failure. Tokens
are small numbers. What a command delivers is what was measured, more than its `bound`
included: `operation.rs` bounds the length of the file before the command runs, and
numbered lines, standard error or a file that grows exceed it. `bound` keeps the upper
bound of a reservation after its entry is gone; the code forgets it.

The operator acknowledges any execution he is shown. That he says of a command that it
did not run only when it did not and its request is over (`OperatorMay`) is an assumption
on a human: neither `fidelity_reconcile` nor `ReconcileFidelity` can check it.

### MemoryClient

One record per call: its kind, stage, permit (a generation), verdict and outcome.
`requests` and `replies` are the pipes of the one MCP connection, or, over HTTP, a
bag of exchanges in flight that are answered in any order. A verdict is what the
client can tell of an attempt; `SafeFallback` is what it may repeat. `Drop` is the
future of a call being dropped at an await, which releases its mutex guard and
leaves the connection with an unread reply. `attach` takes the mutex anew for the
connection and for its `initialize` (`Attach`, `Initialize`), so that a call may come
between, whose unread reply then breaks the handshake. ICM (`Serve`) carries out a request and
answers, refuses it, or answers something unusable, having stored or not. `commits`
counts what it stored.

### IcmSupervisor

A supervisor is a process of its own; its methods are serialized by its mutexes, so
`stage` tells the one in progress. Every durable step of a start, a stop and a
release is an action, and a crash can follow each. A process identity (PID with
start time) is exact: identities are not reused, and `Alive` is what `is_current`
computes. `sharing`, fixed from the start, is `"daemon"` when one supervisor runs at
a time, which `hzrd` guarantees by its lock, and `"library"` when they run side by
side, as the crate allows.

### Accounting

A correlation is one command; `route` says whether it was registered with the daemon,
ran without it, or runs inside a managed call. A receipt is a process and its
sequence number, because every engine process counts from zero, and its `Key` is what
the ledger sees of it: correlation and sequence. `journal[c]` is the active and the
pending file, `torn` a line cut short, `failed` the failure signals, `age` the ticks
since each file was written. A rejected journal is renamed to one name per command and
kind: `rejected` is what is under it, and `overwritten` the receipts that a later rename
replaced, which are in no file any more. A rename may fail and leave the journal where it
is. A registration is two steps (`Register`, `RegisterGap`): the context is visible before
its gap is recorded, is taken back if that fails, and stays if the caller dies in between;
a context that vanishes after the listing is a failure of its own (`ContextVanished`).
Engines may run in the background after their command is complete. Of the ages of gaps
only that of the registrations is kept, since only it decides anything; an age at its limit
stays there (`Older`), because the code only compares it with the limit. `sweep`, `seen`, `todo`, `cur`, `batch` and `left` are the
sweeper's program counter, its listing of the directory and the batch in work; it
goes through the contexts, then the orphans, then the stale locks, and each of its
inserts, acknowledgements, renames and coverage updates is an action, after which
the daemon may die. `call` is the handler of a managed call. `lost` and `stray` are
processes whose lock file was unlinked, or whose open journal was renamed, under
them. `written` and `overwritten` are no state of the code.

Two assumptions on time are in the guards and not in the code. An append, which writes one
line under a lock, is shorter than a tick, which stands for minutes (`Tick`). And an append
whose lock file or journal a sweep removed under it is over when the next sweep starts, a
second or more later (`SweepStart`). Without the second a rotation could meet such an append
(`RotationWaits`).

### IndexWatchers

`req[t]` is what a task of the daemon, or an `hzr index init`, is about; its stages are
the places where the code awaits or another process can come between. `owner[w]` is
who holds the owner lock of an index: a task that initializes it, or the handle of its
watcher. A handle is in `table`, in the `victims` of the task that took it out or is
starting it, or in `leaving`, which the shutdown took. `budget` is
`watcher_budget`; `lifecycle` is `watcher_lifecycle` together with the shutdown, its only
writer: open, closing (the write guard is asked for), closed (held), over (released:
preparations that waited go on), exited. Taking the budget and looking at the table
are one action, since only the holder of the budget changes the table. The maintenance
task sweeps one at a time; beside it every dashboard reaps as well, then looks at the
watcher of its workspace (`status`, `Observe`), and is dropped with the handles it holds when
its client goes away (`TaskDropped`), as a clearing is. `Gone` consumes
handles, after the process was waited for or, in `Drop`, sent SIGKILL. `idle` and `failed`
are the ages that decide what expires and what makes room first.

## 3. Runs

| Run | Module, cfg | Expected | What it shows |
| --- | --- | --- | --- |
| `exec_jobs_power` | `MCExecJobs`, `Power` | pass | At most one execution per id, stable bindings, tombstones, and `OnceOnly`, under crashes, power losses, failed syncs and failed output removals. |
| `exec_jobs_reclaim` | `MCExecJobs`, `Reclaim` | pass | Three ids in two slots: quota, readers, live approvals, spilled outputs, monotone answers, under every failure but power loss. |
| `exec_jobs_live` | `MCExecJobs`, `Live` | pass | Every job ends; every start that is retried is admitted, unless the registry of receipts is full. |
| `fidelity` | `MCFidelity` | pass | Nothing that ran is lost, true receipts, the allowance in operations and, up to each command's bound, in tokens, and `Allowance` as the abstract specification. |
| `fidelity_live` | `MCFidelity`, `Live` | pass | Every command that was started gets its row, or its unreadable record is set aside: nothing that ran disappears. |
| `memory_http` | `MCMemoryClient`, `Http` | pass | Stores at most once, one probe, closed by the probe only. |
| `memory_mcp` | `MCMemoryClient`, `Mcp` | pass | A receipt means stored, with stale replies in the pipe; every call returns. |
| `memory_probe` | `MCMemoryClient`, `Probe` | violation | A breaker that stays half open (section 6). |
| `icm_supervisor` | `MCIcmSupervisor` | pass | Crashes at every step: one writer under the daemon's lock, one owner also with supervisors side by side. |
| `accounting` | `MCAccounting` | pass | No receipt is lost between journal and ledger, except a rejected one that a later rejection overwrites; rejected orphans are reported; the orphan pass takes nothing from a registration; no journal is rotated under an append; every receipt is settled. |
| `accounting_keys` | `MCAccounting`, `Keys` | violation | Two engine processes of one command whose receipts have one key (section 6). |
| `index_watchers` | `MCIndexWatchers` | pass | Every running watcher has its index's lock and a holder; the limit holds at every moment; every request and every shutdown comes to its end. |

### Bounds

* *ExecJobs.* `MaxActive`, `MaxRecords`, `MaxUnits`, `KeepRecent` and `Batch` stand
  for the code's 32 jobs, record and byte quotas, recent records and batches of 256;
  they are small enough that every limit is met. Two ids with two workspaces and two
  requests show a wrong binding; three ids in two slots make one admission wait for
  another's reclamation. `MaxDisruptions` bounds failures: two let a failure hit
  the recovery from another. In the safety runs the registry has room for two
  receipts; in `Live` it has room for the receipt of one id and not for the other's, so
  that reclamation both goes on and comes to its end.
* *Fidelity.* Three reservations for two operations and three tokens of sizes one
  and two, so that operations and tokens run out independently, and a command of bound
  one may deliver two, and one of bound two only one; two failures.
* *MemoryClient.* Three calls: one in flight from before the breaker opened, the
  probe, and one refused. Four failures open the breaker, fail the probe and drop a
  call.
* *IcmSupervisor.* Three incarnations and three processes: one that leaves an
  orphan, one that misjudges it, one that acts on that. In the MemoryClient and
  IcmSupervisor runs behaviours end when the calls, or the incarnations, are used
  up, hence `CHECK_DEADLOCK FALSE`.
* *Accounting.* One command with two engine processes of one receipt each: two
  appends can race each other and a drain, and share a key. `Grace` and `Ttl` are one
  tick: an orphan, an abandoned context and young ones occur, and a larger `Ttl` adds
  only young contexts at a later age; the proofs hold for any `Grace` up to `Ttl`. One fault
  of any kind besides kills; a second rejection of one command, which overwrites the
  first, takes none. Commands do not share files, so a second correlation adds only the
  sweeper's order.
* *IndexWatchers.* Two tasks on two workspaces with a limit of one, so that every new
  watcher evicts another's; two watcher identities, one more than may run; a time to
  live of one tick. Shutdowns, exits, failed stops and failed starts are not bounded.
  With room for one watcher all the others make room for a new one; which goes first
  (`Before`) matters from a limit of two on, and to no property: the proofs hold for any
  order.

Symmetry is used in safety runs only, over ids, reservations, calls, supervisors and
processes, which no definition tells apart.

### Fairness

* *ExecJobs.* tokio runs ready tasks (weak fairness of each job, the admission, the
  reader, the restart); its mutex is first come, first served, so a completion that
  keeps waiting gets it (strong fairness of `Complete`); commands end by their
  timeout; files age and approvals lapse; a client polls, and retries a start that
  was refused for want of room.
* *Fidelity.* Handlers run; the daemon is started again when it is down and restarted
  when it reports integrity issues; the operator acknowledges unknown executions.
  Nothing makes a healthy daemon stop.
* *MemoryClient.* A polled call makes progress; the mutex is fair (strong fairness of
  `McpSend`); ICM serves or the timeout strikes; time passes. No restart of ICM is
  assumed.
* *Accounting.* The sweeper's loop runs for ever and a daemon that died is started
  again; an append that began ends, and time passes. Nothing is assumed of the commands,
  and faults are not fair.
* *IndexWatchers.* Every await of a task ends: grepai's commands have deadlines, and a
  process that outlives them is killed. The budget is a tokio mutex, first come,
  first served (strong fairness of `Look`); the lifecycle lock lets no reader pass a
  waiting writer, which is in the guards. Nothing makes a watcher exit, a client go
  away, a shutdown begin or the process end.
* No liveness is claimed of `IcmSupervisor`: a launch that was announced but not
  committed refuses every later start until the operator steps in.

## 4. Proofs

Every theorem holds for any constants that satisfy the named assumptions of its
module (`ConstantsAssumption`, `FidelityAssumption`, the assumption of
`MemoryClient`, `SupervisorAssumption`, `AccountingAssumption`, `IndexAssumption`),
hence for any number of ids, calls, failures and restarts.

* **ExecJobs.** `Invariance` proves an inductive invariant of five parts: types;
  `TaskInv` (a task has its record); `DiskInv` (what is visible is among what may
  survive, and an id of which nothing is visible has left nothing that could come
  back); the state of the admission that holds the mutex; and that an id which
  executed, or still can, is durably bound. The last needs `DiskInv`, because only
  what *survives* decides what the next daemon reads, and the admission's part,
  because between the receipts and the unlinks the binding is in two places.
  From it follow `StartedAtMostOnce`, `ExecutedIdsStayBound`, `TombstonesHold`,
  `BindingsAreStable` and the refinement `ImplementsOnceOnly`.
  `ExecStoreProofs` adds `StoreInv`: a job that runs has its record, at the revision of
  its copy; a result exists only once the task is done, and spilled output with it; a
  record about to be unlinked has ended, carries no live approval and has a receipt of
  the same state at the next revision; what is read is there. `ApprovalRecordsStay`
  follows at every step. `BytesStayWithinQuota` adds that an admission which passed its
  check still finds room when it writes, since a finished job keeps its share until its
  output is removed. `SpilledOutputStays`, `ClientsNeverGoBack` and `QuotaHolds`
  assume that no power is lost (`"power" \notin Disruptions`), because each is false
  otherwise: TLC finds an unlinked record that comes back without its output, an answer
  that was given from a write the disk then forgets, and a reclaimed record that comes
  back after another took its place. The directory is synchronised once per batch, after
  the outputs are gone, and a record whose synchronisation failed is answered from as if
  it had succeeded.
* **Fidelity.** `TypeCorrect`, `NothingLost` and `ReceiptsStayTruthful` rest on `LocalInv`, a relation between the file,
  receipt, rows, pending entry and handler stage of one reservation, with a frame
  lemma for the others. `AllowanceKept` and `ImplementsAllowance` add that every
  reservation that is `Held` is covered by a row or a pending entry whenever the
  daemon is up, so that the actor's count bounds it. They assume that records stay
  readable (`"unreadable" \notin Faults`): a quarantined record gives its share
  back. `TokensKept` needs no such assumption. It follows what is `Due` for a
  reservation: the tokens of its row or, before there is one, of its outbox record, each
  up to its bound, or the bound its handler still works under. What a command delivers
  beyond its bound is in its row and counts at the next admission, but nothing can
  promise it beforehand. Only an admission adds to the sum
  of the dues, and while admissions are possible every due is in a row or pending, so
  that the actor's check bounds the sum. A sum is the number of units it stands for
  (`Total`), so that the library's facts about cardinality take the place of an
  induction over the rows.
* **MemoryClient.** `ProbesSerialized` and `ClosedByProbeOnly` rest on one fact: no
  permit is newer than the breaker's generation. `StoredAtMostOnce` needs, for each
  call, a relation between its stage, its verdict, the requests of its own still in
  the pipe and what was stored. `TypeCorrect` collects the types of the pipes, the calls
  and the breaker (`RestInv`). `ReceiptsAreStored` needs that the ids of a connection are
  not reused (`IdInv`): under the newest id, while a call holds the connection, there is
  only what belongs to that call, so that a stale reply is never taken for its own; and
  that a success which was answered, read or returned is of a memory that is stored
  (`StoredInv`).
* **IcmSupervisor.** `SingleOwner`: whoever owns or is about to own a child holds
  the lock. `SingleWriter`, under the daemon's lock, needs in addition that a live
  process is fenced: `service.json` says "starting" or names it, until a supervisor
  knows that it is dead.
* **Accounting.** `ReceiptsKept` rests on two facts about a batch: what was drained is
  in the pending journal until it is acknowledged, and what is no longer `left` of it
  is recorded, so that an acknowledgement removes only what has its row; and on what a
  rejection does (`RejectMoves`): it moves a journal's receipts, and those it replaces are
  the only ones it loses. `OrphansHaveNoContext` needs that what
  the sweeper's listing says of a command without a registration stays true: a
  correlation is registered before its first process starts, and a retired one never
  comes back. `OrphansReported` follows from the order of the gap and the rename.
  `TypeCorrect` needs `TypeInv`, because what a process may still write and what the
  sweeper works on are not in `TypeOK`. `RotationsWait` needs `LockInv`: lock files do
  not suffice, since a retirement, the orphan pass and the removal of stale locks unlink
  them under a process that is still appending. Such a process is of a command that the
  sweep is done with: it is not in work and not among those left (`TodoListed`,
  `CurDone`), so that only the next sweep could drain it, and that one starts when the
  append is over (`SweepStart`).
* **IndexWatchers.** Neither `Supervised` nor `WithinLimit` is inductive. The invariant
  adds that an index knows its owner and a handle its index (`Owned`), that a handle
  is in one place only, and that the task which holds some has the budget, or the
  shutdown the guard (`Placed`), and what a task has by each stage (`Staged`).
  `WatchersSupervised` follows at once. `LimitHolds` counts the indexes that a watcher
  owns, of which the running watchers are an injective image: only a start adds one,
  and a task that may start has made room, which nobody fills while it has the
  budget.

Every safety and action property that a passing run checks is a theorem. Checked by TLC
only: the liveness properties (`JobsEnd`, `EveryStartAdmitted`, `EventuallyRecorded`,
`CallsEnd`, `ReceiptsSettle`, `RequestsEnd`), which rest on fairness and `ENABLED`; and
the two violations, which are counterexamples.

## 5. What is not modelled, and why

* Bytes: outputs and receipts have sizes in units, records and the registry file none;
  outputs have no content, hashes are exact.
* An operator who says of a command that ran that it did not, and a start of `Fidelity`
  that meets failures of two kinds.
* Path validation, permissions, symlink checks, authentication.
* Power loss in `Fidelity` and `IcmSupervisor`: only the process dies. Their writes
  are synchronised before they are relied on, except removals.
* The wall clock going back, and reused process identities.
* An MCP request cut in half by a dropped call, and `next_id` running out.
* ICM itself, SQLite and the file systems are modelled by how the code uses them.
* `child.id()` returning nothing for a process just spawned.
* In `Accounting`, the counts an interval keeps, `hzr doctor`'s bulk recoveries, the
  limits on sizes and numbers of files (16 MiB, 4 MiB, 20 000 contexts, 200 orphans)
  and contexts that cannot be read.
* In `IndexWatchers`, a crash of the daemon: its grepai processes then run on without
  a handle, and only grepai's own lock in the index directory keeps them off the next
  daemon's. Also what a failed `grepai init` leaves out of a configuration besides the
  repository graph, and `try_wait` failing.
* The discovery, registration and migration of indexes, the approvals' bound of 128,
  and the rest of the command line: sequential code, parsing and rendering.
* Most of the repository's lines are the RTK fork, reports of the ledger, diagnostics,
  rendering and configuration. They compute or format, keep no state of their own and
  meet none of the hazards above; a model of them would repeat the code.

## 6. Findings

1. *A breaker can stay half open* (`memory_probe`). A probe that is answered with a
   4xx or a tool error, or is dropped, reports nothing, and nothing else moves a
   half-open breaker on (`circuit.rs:68`).
2. *Receipts of two processes share a key* (`accounting_keys`). Every engine process
   numbers its receipts from zero, and a rewritten shell command gives all its engine
   processes one correlation; the ledger takes the second process's receipt for a
   replay of the first's and ignores it (`tracking.rs:1810`, `ledger.rs:1619`).

Observations that no run states as a property:

* `release_owned` (`supervisor.rs:469`) unlocks before it removes the identity, which
  may by then be another supervisor's; if that one then crashes, a third can start a
  second ICM. Only supervisors in several processes can meet it, never those of
  `hzrd`, for which `OneWriter` holds.
* A registered batch that is rejected is renamed before its gap is recorded
  (`accounting_sweeper.rs:484`): a crash between the two sets receipts aside without a
  word. The orphan pass does it in the other order.
* A rejected journal is renamed to a name that is the same for every batch of its command
  (`accounting_sweeper.rs:453`, `534`): the second rejection overwrites the first, whose
  receipts are then in no file and have no row. `KeyKept` and `ReceiptsKept` say that this is
  the only way a receipt is lost.
* A context that was completed after the sweeper's listing is retired by it although its
  journal was not in the listing (`accounting_sweeper.rs:182`): the receipts are recorded
  later as an orphan's, without their attribution.
* Receipts are never given up: once their registry has reached its 256 MiB, every start
  that needs a record reclaimed is refused, for good. The code and its document say so
  (`docs/review/20261024_Execution-History-Capacity.md:28`), and `EveryStartAdmitted` excepts it.
* An unreadable reservation is renamed at a start (`ledger_writer.rs:451`), and the next
  start does not look at it any more, so that it blocks new executions only once.
* A preparation that waited for the shutdown of the coordinator starts its watcher
  after it (`planner.rs:464`); the end of the process kills it.

Two more about `Fidelity`. The time to live of a reservation is looked at only when
the daemon starts (`ledger_writer.rs:463`), although `hzr doctor` says that stale reservations expire
after five minutes (`diagnostics.rs:381`): the share of a request that returned
early is held until then. And the check of `ReconcileFidelity`
(`ledger_writer.rs:985`) does not tell an unknown execution from one in progress, so
that the completion of a reconciled command that was still running is refused and its
measured tokens are never recorded: its row counts an operation without tokens.

## 7. Plan

In this order:

1. the migration of an index (`hzr-index/src/migration.rs`: stage, back up, manifest,
   switch of the link) against preparations and a second migration;
2. the composition of jobs, approvals and reservations, with the property that an
   approved command is started and accounted for once, and approvals' bound and
   expiry;
3. the lifecycle of the daemon: `supervise_memory`, the order of the stops, and the
   liveness of memory after ICM died;
4. power loss in `Fidelity`, `IcmSupervisor` and the journals of `Accounting`.
