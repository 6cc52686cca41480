# TLA+ models of the agent framework

The repository is a Rust workspace that serves coding-agent hosts: a command line
(`router-rs`) and MCP servers through which hosts start background jobs, supervise
worker processes, run goal loops and chains of tasks, route requests to skills and
keep traces. Nearly all of its state is JSON files below `artifacts/` that several
processes and threads read, change and write back. What can go wrong is mostly in
between: a crash after one of two writes, a call that goes on after its timeout, a
lock that is judged stale, a record that names a process which has ended.

This directory models the parts where that matters most, model-checks them with TLC
and proves their main invariants with TLAPS.

| module | models | proofs |
|---|---|---|
| `BackgroundState`, `MCBackgroundState` | the background-job store (`core/runtime-storage/src/background_state/`) | `BackgroundStateProofs` |
| `SessionLease`, `BackgroundLease` | what that store promises about sessions; the refinement | |
| `LoopLock` | the lock file of a goal loop (`core/goal-engine/src/kill_switch.rs`) | `LoopLockProofs` |
| `LoopRunner` | the goal loop itself (`core/goal-engine/src/runner.rs`, `dispatcher.rs`, `state.rs`) | `LoopRunnerProofs` |
| `SessionSupervisor` | worker processes and their records (`core/session-supervisor/src/`) | `SessionSupervisorProofs` |
| `ChainEngine`, `MCChainEngine` | the task chain (`core/chain-engine/src/`, its MCP tools) | `ChainEngineProofs` |
| `ChainScheduling` | the selection of `scheduler.rs` and its cycle search, as specified and as the loops that compute them | `ChainEngineProofs` |
| `TaskLedger` | the append-only log of a task: checkpoints, compaction, replay (`core/core-state/src/task_ledger.rs`, `task_state.rs`) | `GoalStateProofs` |
| `GoalState`, `MCGoalState` | the goals, pointers and evidence of a repository (`core/core-state/src/state_manager/`, `core/framework-extra/src/evidence.rs`, the task tools) | `GoalStateProofs` |
| `GoalLifecycle` | what those operations promise of a goal's status; refined by `GoalState` | `GoalStateProofs` |
| `BatchRun`, `MCBatchRun` | batch runs of the document tools over one directory (`rust_tools/batch-common/src/engine.rs`) | `BatchRunProofs` |
| `StdioTransport` | the JSON-lines loop of the router (`core/runtime-infra/src/stdio_transport.rs`) | `StdioTransportProofs` |
| `StdioService` | what that loop promises its client; refined by `StdioTransport` | `StdioTransportProofs` |

Check a module with `tlc -config Chain.cfg MCChainEngine`, prove one with
`tlapm ChainEngineProofs.tla`. Operators named `Fault...` are deliberate mistakes: each
stands for a plausible bug in the definition below it, and replacing that definition by
it makes TLC refute the property it is meant for.

## 1. Inventory

### Components with state that several steps share

**Background jobs** (`runtime-storage/background_state`). State: one JSON file with a row
per job, the session each active job owns and pending session takeovers; per process, the
time it last reaped. Operations: apply a mutation, reserve, claim and release a takeover,
queries; each begins by loading, merging and reaping. Interaction: any number of host
processes on one path, serialised by an advisory lock per call. Hard: the reap is flushed
before the operation persists, so one call writes twice and either write may fail; reaping
is throttled per process by an in-memory time; the session map is rebuilt from rows when the
file has none. Correct when: active jobs never share a session, the map agrees with the
rows, finished jobs stay finished, live rows survive compaction.

**Loop lock** (`goal-engine/kill_switch.rs`). State: `.loop-active`, holding an id and a
time. Operations: read, judge stale, remove, exclusive create, write, refresh, drop of
the guard. Hard: all steps interleave between processes; removal is by path. Correct when:
one loop runs at a time and a dead one's lock goes away.

**Goal loop** (`goal-engine/runner.rs`). State: the loop state (checkpoint) and the pause
state on disk, a signal file, the running process's memory. Operations: prepare, acquire the lock, preflight,
dispatch an action, take a signal (kill, pause, resume, feedback, redirect), time out,
verify, synchronise the goal, escalate, finish, clean up. Hard: crashes between steps, failed
writes that are only logged, signals that arrive in any state, callers that read before they
hold the lock. Correct when: completed actions are neither lost nor repeated, a passing run
did everything, every call returns.

**Session supervisor**. State: a store with a record per worker; the operating system's
processes and who is whose parent. Operations: launch, list, terminate, mark blocked, resume
due, each with dry runs; children that exit; host restarts. Hard: the process is started
before the record is saved, and resume_due looks under one lock and acts under another.
Correct when: every live child is named by its record and no live one is written off.

**Task chain** (`chain-engine`). State: `TASK_CHAIN.json`. Operations: tick, skip, retry, resume, and the
advance on completing a goal. Hard: tools read before they lock or do not lock at all;
rounds, dependencies, conditions, capacities, timeouts, retries and failure strategies
combine. Correct when: order and capacity hold, completed work stays completed, ready work starts.

**Goals and their ledger** (`core-state`, `framework-extra/evidence.rs`, the task tools). State: per task
`GOAL_STATE.json`, `TASK_LEDGER.jsonl` and `EVIDENCE_INDEX.json`; `TASK_POINTERS.json` with the active and the
focused task. Operations: start, checkpoint, amend, pause, resume, block, unblock, retry, complete, fail and clear
under a flock of the repository, the goal written first and the ledger appended after; create, focus and complete a
task; append evidence (ledger first, index after, under another lock); the promotion of the focused task; the loop
runner's unlocked write-back. Hard: every operation is several writes of which the later ones are best effort; the
ledger compacts itself and is replayed over the files; sessions refuse each other's goals. Correct when: a driving goal
has its contract, the lifecycle follows the transition matrix, replay survives compaction, a success is not forgotten,
the pointers name listed tasks.

**Batch runs** (`batch-common`). State: `results.jsonl`, `checkpoint.json` and `catalog.json` in the output directory;
in memory a channel from the workers to one writer thread. Operations: a run, fresh or resumed, with or without
fail-fast. Hard: writes cut short by a kill, rows appended to a half-written line, a writer that dies while workers
send. Correct when: what the checkpoint records has its row, a successful run covers its input, every run returns.

**Stdio transport** (`runtime-infra/stdio_transport.rs`). State: the requests in flight and when each was seen to
start, channels from the reader to a dispatcher, from there to each worker thread and back to the reader, the count of
unflushed answers. Operations: read a line, answer it at once or submit it, hand it out, start and finish it, receive a
result, time a request out, join the threads and drain at the end of the input. Hard: results that come after their timeout, messages received
only at the limit or at the end, workers that are still busy with a request given up. Correct when: each accepted line is
answered once and all answers are flushed before a successful end.

**Storage and tool dispatch** (`runtime-storage` backends, `mcp_stdio_harness`). Atomic writes, appends and path locks
with a 5 s timeout; each tool call in a thread that outlives its 60 s timeout. Their effects enter
the models as writes that fail and calls that overlap. Not modelled themselves yet.

**Traces, code graph, research harness, browser sessions.** Each keeps files or sessions of its own; see the plan.

### Components without such state

Routing and scoring, the skill layer, the quality gate, text tools, document converters, the
CLI, host projections, doctor and maintenance commands are functions of their input or write
generated files. They are listed in `PROJECT.json` with the reason they are left out.

### How the modelled parts interact

A tick or a completed goal starts tasks of the chain; a started task becomes a goal; the goal
loop works on a goal under the loop lock; a host runs loops and agents as workers of the
session supervisor and registers them as background jobs; at its end the loop writes the goal back. The interfaces are narrow: files and
exit codes. Each module therefore takes its neighbours as environment actions: `LoopRunner`
acquires the lock in one step and lets a dead run's lock count as expired (what `LoopLock` shows of
written locks), `ChainEngine` takes the end of a goal as `Complete`, and `GoalState` takes a finished loop as
`ReadForSync` and `WriteSync`.

## 2. The models

### BackgroundState

`disk` is the state file, `lastReaped` the per-process throttle, `now` a clock. A call holds
the path lock from load to its last write and each write replaces the file atomically, so one call is one step;
inside it `Loaded` merges and reaps, and either the reap alone reaches the disk
(`FlushOnly`: operation refused, its write failed, or the process died) or the operation's
result does. `Query` models that a read-only call closes the throttle window although its
reaped view is forgotten. `Restart` empties the throttle. One process in the runs stands for several:
two processes differ only in `lastReaped`, and `Restart` together with the clock gives every value it can have.

`SeededSpec` starts from files of another version: no session rows, any status strings, `ghost`
standing for one outside the state machine.

*Promise*: `SessionLease` says a session is held by one job and leaves it only by the holder's
own action or after the lease lapsed. `BackgroundLease` maps holder to "the active job working in
the session" and lapsed to "heartbeat older than the cutoff"; `LeaseSpec` is a property of a run.

Left out: the memory backend, the control-plane metadata, fields of a job no branch reads.

### LoopLock

One action per step of `acquire_lock`, the drop of the guard, `refresh_lock` and the death of a process at any step.
`file` keeps who created it, whether it was written and the age of the time in it (capped at `MaxAge`, which
is where it becomes stale); `broken` records that some process judged a lock stale.

### LoopRunner

`stage` is where each call is, `pc`, `idx`, `mem`, `results` and `status` are the run that holds the
lock, `disk`, `pause` and `signal` the files. `taken` splits `take_signal` in its read and its remove.
`Save` may fail, as the code only logs it; `lostWrite` remembers that, and properties about the
checkpoint are stated for runs in which it did not. Static actions are assumed (no action added while running); the
outcomes of actions, preflight and verification are nondeterministic. Counters saturate at
the threshold. Research mode restarts a run while `depth` is left (`MaxDepth` at the call). A call may be
refused at any time before it has the lock, a dry run writes its own state over the file, which counts as a lost write.

Behaviour seen while modelling for which no property is kept: a signal written between the read and
the remove of another is lost; feedback is consumed but not passed to the action that is
dispatched again (`dispatcher.rs:509`); a second call clears the pause file before it fails to get the lock;
a dry run overwrites the checkpoint of a live run; the checkpoint is written before the action it is about is marked done (`runner.rs:483`, `:496`), so
a crash right after a commit dispatches that one action again, against `runner.rs:480-482` (`OnlyLastUnrecorded` states the bound); a call that read the state of a live run before the lock skips
that run's actions once it has ended (`runner.rs:73`), which no run of this project covers, since the run has one
caller; and the consecutive failures that `types.rs:742` wants kept across runs are forgotten, because the end of each
run removes `LOOP_RUN_STATE.json`, so the breaker trips within one run only.

### SessionSupervisor

`store` is the file, `up` the processes that run, `children` who can reap whom, `call` the
resume_due calls between their two locks. `Launch` starts the process and then saves, or fails to.
A restart makes every child an orphan of the host: it stays in `up` and leaves `children`.
`orphaned` collects the processes the code lets go of knowingly (a launch over a live record, a dry run, a lost save). SIGKILL is assumed to work and process ids are not reused.
Event lists, lane metadata and log files are left out; a caller's `now` is assumed to be the wall clock.

Behaviour seen while modelling: dry runs change the store; a rate-limited worker whose process
exits becomes interrupted and is never resumed (`process.rs:212`); a worker older than the retention is
compacted by the list that first notes its end (`lib.rs:120` wants this, `runtime.rs:152` keeps
records for the retention time); `reap_stale_workers` never reaps a running record with a process id
(`worker.rs:322`), unlike what `tests.rs:1072` expects.

### ChainEngine

A chain is a record: per task its status, attempts, start and backoff; whether it is paused; its failure strategy. `chain` is the file
and `call[c]` the copy a tool call has read and not yet written. `Load` takes the copy without the
lock, as the code does; `Tick`, `Skip`, `Retry` and `Resume` write the copy back changed; `Complete`
reads and writes in one step, since it holds the lock throughout. A tick is `PostTick(Advanced(root, R))`:
backoffs end, a selection `R` starts, groups time out, failures are retried or strike.
The round-robin over a hash map is stated by what it guarantees (`Selection`) instead of by its loop: within limits, in the order
of the chain inside a group, nothing that fits left out, no group two ahead of one that could
still start a task. `ChainScheduling` also has the loop, for any order of the map (`RoundRobin`), and the
depth-first search of `validate_dag` with its explicit stack (`Accepted`). The queues and graphs they are compared on with `Selection` and
`Acyclic` are the constants `Queues` and `Graphs`: those of `MCChainEngine` in the run `Chain`, any in the proofs.

Start times are kept only in timeout groups, the only place they are read. Left out: conditions on
task outputs, the linear mode and `task_chain_advance`, a new chain replacing the file, the
aggregate, tasks declared running when the chain is made.

Behaviour seen while modelling: a scheduled retry is eligible before its backoff is over
(`scheduler.rs:62`); a task with a false condition stays pending instead of being skipped as `types.rs:45`
says, so such a chain never completes; blocked counts as terminal, so a paused chain counts as
complete; a resumed chain with a failed task is paused again by the next tick; a timeout
group's clock is not reset by retries (`tracker.rs:72`); the first backoff is that of the second
retry (`tracker.rs:198`); abort reports tasks as newly ready that it skips in the same
tick; no background poller exists although comments speak of one; `validate_dag` (`scheduler.rs:317`) does not look at rounds, so
a chain with a task that depends on one of a later round is accepted and stalls: the later round waits behind the barrier
(`scheduler.rs:79`) for the task that waits for it.

### TaskLedger

Pure operators on one ledger, a sequence of transactions. `Appended` is the whole append: the row, the periodic
checkpoint, then compaction when the file is over its limit. `Compacted` works on the rows in memory, which do not hold
the checkpoint just written, so a compaction drops it, as in the code. `AfterAppend` is the set of files that a stop
after any of these writes leaves. `HydratedGoal` and `HydratedVerified` are the replay over the files. The hash chain and the sequence numbers are
left out: a break in them only logs a warning.

### GoalState

One action per operation. An operation that holds the flock throughout is one step, whose later writes may be missing
(`Lossy`; `MaxLosses` bounds how often). The three callers that do not hold it take two steps: evidence (`LogEvidence`,
`WriteIndex`, both under the index's own lock, so one per task is in flight), the runner's write-back (`ReadForSync`, `WriteSync`), and `task_complete`
(`FindNoGoal`, `CompleteTask`). Session guards, the transition matrix, the drive contract, the completion gates over the
hydrated task, the trimming of the index and the pointer rewrites are all there. Of the text of a goal only whether it
satisfies the contract is kept; the verdict of the quality gate is nondeterministic; `max_iterations` and the
archived status are never written by this code and are left out; so is the staleness annotation.

Behaviour seen while modelling for which no property is kept:
* the mark that is set when a ledger append fails (`goal_ops.rs:108`) is never read, so nothing repeats the append, and
  `evidence.rs:248`, which calls a missing index row recoverable on the next append, has no code that recovers it;
* the runner's write-back can bring back a goal that was cleared, or undo a fail (`runner.rs:861`);
* resume accepts a failed or completed goal, so does the lifecycle specification; unblock also works from paused and
  from review_pending;
* the verified flag of a task is lost when a compaction keeps only the last evidence row, or when a checkpoint was
  written between the ledger append and the index write;
* the evidence index survives the clear of its goal and counts for the next goal of the task;
* `task_complete` completes whatever task is active when it gets the flock, although it looked for a goal of another
  one before.

### BatchRun

`lines` is `results.jsonl`: rows, `Cut` (what a write leaves that was cut short) and `Spoilt` (what becomes of a cut
line that the next run's first row is appended to). The worker threads are `Process`, in any order of paths; the writer
is `Receive`, `Flush`, `CreateCheckpoint`, `SaveCheckpoint`; the main thread is `Begin`, `CannotMerge`, `CreateCatalog`,
`WriteCatalog` and `JoinFailed`. `CutRows` is what a failed write or a kill leaves of the buffered rows: any number of whole ones, and perhaps a cut
one. A row that lost only its newline counts as cut: it parses, but the next append spoils it all the same, so `CannotMerge` may come one run
earlier in the model. File::create and the write of the checkpoint and the catalog are two steps.

Behaviour seen while modelling: once a line is spoilt every resume ends in an error with all paths done; in a resumed
catalog the first row of a path wins, so an error of an older run may hide a later success. `index.md` and the summary
are renderings of the catalog and are left out; two processes over one directory are not modelled.

### StdioTransport

`reader` is where the main thread is: reading, holding a line, joining, draining, or at one of the ends of the loop. `inFlight`, `started` and `age` are
`in_flight_requests`; the clock of a request starts when the reader hears that it has started, and stops mattering at `Timeout`.
Lines are numbered as they are read, and are submitted and handed out in that order, so the channels `tasks` and
`queue[w]` are sets whose first line is the smallest; `results` mixes the messages of the workers and is a sequence.
A timeout is taken only when no message is there, as `recv_timeout` does; after the join no message can come, so an empty channel means it is disconnected (`lost`).
With a limit of one every line is answered by the reader, as `run_stdio_json_loop` does. `Fail` stands for errors of stdin and
stdout at any moment. Left out: a dispatcher whose worker channels are closed, which needs a worker that stopped early, blank lines, how the limits
are resolved.

*Promise*: `StdioService` says a line is answered once, no more than `Limit` accepted lines wait, and the service
ends by itself only when none waits. `ServiceSpec` maps its open lines to `inFlight`.

Behaviour seen while modelling for which no property is kept: a client that waits for an answer before it sends more never gets one, since
results are received only at the limit or at the end of the input, and flushed per 16; the dispatcher hands requests
round robin to workers that may be busy with a request given up, where they never start and have no deadline, so one operation that
hangs stops the reader in the end; the join comes before the drain, so no request times out after the end of the input.

## 3. The runs

| run | instance | shows |
|---|---|---|
| `BackgroundState` | 2 jobs, 2 sessions, limits 1 and 2, seeded files with any status, clock 0..2 | one active job per session and the map names it; finished jobs stay finished; the store implements `SessionLease`, so no live job's session is given away and no compaction takes it |
| `LoopLock` | 3 processes, expiry after 2 ticks | exclusive until a stale lock is broken, a dead process's written lock goes away |
| `LoopRunner` | 1 caller, 3 actions (one reporting only), all 5 signals, 2 of them sent, 2 crashes, dry runs, one research restart | the checkpoint lags by at most one commit, nothing recorded is repeated, a pass did everything, the pause file is truthful, every call returns |
| `Supervisor` | 1 host, 1 worker, 2 concurrent resume calls, 3 processes, 1 restart, dry runs, lost saves | live children are recorded and never written off; nothing resumes early |
| `Chain` | 4 tasks in 3 rounds, each failure strategy, one call at a time | dependency order, capacity, completed stays completed, round order, ready tasks start; the round-robin loop selects what `Selection` allows (6 tasks, two groups and none, limits 1 to 5, every map order); the cycle search accepts just the acyclic chains (every list of dependencies over 3 tasks) |
| `Goals` | 2 tasks, 2 sessions and none, 4 calls, 1 lossy step, checkpoints every 2 rows, compaction above 2, an index of 2 | contract, lifecycle (`GoalLifecycle`), replay, evidence and pointers |
| `Batch` | 2 paths (listed once, twice or not at all), 3 runs, 1 failure | what the checkpoint records has its row, a success covers its input, every run returns |
| `StdioTransport` | 6 lines, 2 workers, timeout after 2 ticks, a flush per 2 answers | the transport implements `StdioService`; each line that was read is answered and flushed |

Four runs end in a violation, each a disagreement between the code and what it says of itself
(`findings` in `PROJECT.json` quotes the lines):

| run | the code does |
|---|---|
| `LoopLockRace` | two processes that read the same stale lock both end up holding a fresh one |
| `SupervisorForeign` | after a restart a live worker is taken for a dead one, because waitpid answers ECHILD |
| `ChainLostUpdate` | a tick that read the chain before a goal was completed overwrites the completion |
| `GoalHydration` | fail, a blocked quality gate and an iteration are logged under types that replay skips, so a failed goal is hydrated as running |

**Bounds.** Two jobs and two sessions give every takeover between two owners, a limit of one
forces compaction with live rows present, the clock reaches beyond each single age. Three processes are what the stale-lock race needs
beyond its victim. Three actions separate "the last" from "an earlier" commit, two crashes let a run be rescued twice, and two
signals let one replace or follow another during a pause. Three processes of one worker allow a process to be replaced twice, by two interleaved calls. Four
tasks hold a dependency, two tasks of one group and of one timeout group, a condition on another round and a round
that can be emptied by skipping. Four calls are the shortest goal histories that compact a ledger with a checkpoint in it, fill and trim
an index, or move a goal across two sessions; one lossy step is enough, because the writes of a step are either all there or stopped at one
place. In `GoalHydration` the interval of 3 and 4 lines keep checkpoints and compaction out of the counterexample. Six lines let a request time out, its worker fall behind, the turn come back
to that worker twice, and a batch of answers be flushed and another begun; two workers are the least that can answer out of order. Three batch runs are one that fails, one that
spoils a line and one that reads it. Symmetry is used for jobs and sessions, and for tasks and sessions, only where no liveness is
checked; `CHOOSE` over jobs in the rebuilt map never has two candidates when it is used.

**Deadlock** is checked except in `Goals`, `GoalHydration`, `Batch` and `StdioTransport`, whose bounded calls, runs and lines are used up in the end.

**Fairness.** `LoopLock`: time passes, callers keep trying to start loops, as a scheduler restarts
them, and a call that has begun runs on (weak); a process that judges the lock stale again and again is
not killed before its removal every time (strong). Nothing makes a loop end. `LoopRunner`: the process
holding the lock keeps running, since every wait is a poll with a deadline, and so does each call
before the lock; nobody must call or signal. `ChainEngine`: nothing in the code ticks a chain by itself, so
`ReadyStarts` assumes what its users do: calls are made, among them ticks again and again (strong, because other
calls take turns), and running tasks are completed. No fairness is assumed for skip,
retry or resume. `BatchRun`: the threads of a run are scheduled (weak, on their steps together, each of which
uses up a finite supply); no run need begin and no failure need happen. `StdioTransport`: the client closes its
input in the end, the three kinds of threads are scheduled, and an operation ends, if late (weak, per thread and step); time need not pass. `GoalState` has no loops or waits and needs none.

## 4. The proofs

All theorems hold for every value of the constants allowed by the `ASSUME`s of the modules: any number
of jobs, sessions, processes, actions, workers, tasks, paths, callers and any clock.

* **Background jobs** (`TypeCorrect`, `LoadsOwned`, `SessionsExclusive`, `SessionsNotStolen`, `FinishedStays`, `GhostsNotRevived`,
  `LiveRowsStay`, `StoreImplementsLease`; all but the first for `SeededSpec`). The
  claim "active jobs do not share a session" is not inductive: it needs the session map to agree.
  The invariant `Sound` says of the file that no two active jobs share a session, and that either it has no
  owners at all (an old file, whose map is rebuilt) or each active job owns its session. Every
  view a call computes is `Owned`, whatever was reaped, compacted or flushed alone. The action properties and the step
  simulation of `SessionLease` rest on two lemmas: what a loaded view may differ in from the file (`LoadedRows`), and that an operation
  takes an owned view to an owned one and changes the row of one job (`OperationShape`).
* **Loop lock** (`LockTypeCorrect`, `MutualExclusion`, `LockFileOwned`). Until a lock is judged stale nobody is about
  to remove one and the file is the one created by the process in the loop; the exclusive create does the
  rest. After that the statement is false: `LoopLockRace`.
* **Goal loop** (`RunTypeCorrect`, `CheckpointLag` for any number of callers; `PauseFileTells`, `CheckpointIsHonoured`,
  `PassIsCommitted` under the hypothesis `OneCaller`). `Progress` ties the memory of the
  run to its results, results to the action index, and a free lock to an empty run; then only the last
  commit of a run can be missing from its checkpoint. The other three need more: `Alone` adds that what the file records as done is
  done for the run and for the call about to take the lock (`Inherited`), that what is done anywhere was committed while no
  write was lost (`DoneCommitted`), and what each result of the run stands for (`ResultsEarned`). With two callers `Inherited` fails: a call may
  have read the file before the run that precedes it.
* **Supervisor** (`SupervisorTypeCorrect`, `ResumedInTime`; `ChildrenRecorded`, `ChildrenNotWrittenOff` under the hypothesis that
  there is one host). Process numbers are fresh, and each step either launches nothing and only ends records without a live
  child, or puts the one new child into its worker's record.
* **Chain** (`ChainTypeCorrect`, `DependenciesSettled`, `CapacityKept`; `CompletedStays`, `RoundsFollow` for calls that do not overlap). The invariant is stated of the
  file and of every copy a call holds, so it survives stale copies being written back. Every operation but
  the start of tasks gives a `Later` chain: nothing new runs and nothing done is undone; the start is covered
  by `Eligible` and `WithinLimits`. Without overlap a call holds the chain as the file has it (`Current`), and a failed task has no attempt left
  (`Exhausted`), so that the tick which opens a round does not take a task of an earlier one back into waiting. `RoundsFollow` asks that no task of a new
  chain be given as failed: the first tick would start the next round and only then schedule its retry.
* **The scheduler's loops** (`RoundRobinSelects`, `RoundRobinReaches`, `RoundRobinFair`, `AcceptedAcyclic`, `CyclesFound`; for the chain
  `TickCanChoose`, `NoStall`). They are recursive functions, so the induction is done in sets of numbers, each of which has a least
  member (`LeastNumber`), not with the theorems that take a predicate. The round-robin keeps `Dealt`: after n passes no group has more tasks than it is
  due, and one has fewer only if it is spent or the chain is full; a pass that adds nothing ends it, and there are no more
  passes that add something than tasks. Conversely a selection is reached by the order that serves the groups with most tasks in it first.
  The search keeps `Searched`: the stack is a path, the dependencies it has passed were left or are next on the stack, and among what was left there is no
  cycle, nor a way out of it; each turn does one more of the finitely many `Places`, so it ends. It follows that a tick
  always has a selection, hence that stating the round-robin by `Selection` blocks no tick, and that it is not empty when all tasks are done
  or waiting (`NoStall`). The hypothesis of `NoStall`, no conditions and no dependency on a later round, is one the code does not check: without it chains do stall.
* **Ledger** (`CompactionKeepsReplay`). For every ledger and every goal file, compaction keeps what replay
  finds: the kept rows stay in their order (`RowsAt` over `Rank`), so the last row of a snapshot type
  and the last checkpoint survive and keep their order. It holds of the goal only; the verified flag may change.
* **Goals** (`TypeCorrect`, `DrivingIsContracted`, `PointersAreListed`, `CompactionIsFaithful`, `IndexIsLogged`,
  `SuccessSurvives`, `GoalsFollowLifecycle`). The invariant is `TypeInv /\ DriveInv /\ EvidenceInv /\ PreparedInv /\
  PointersListed`: `TypeInv` types every row of every ledger and keeps a prepared index within its limit, `DriveInv` asks for the contract
  also of the copy a runner holds, `EvidenceInv` ties a
  non-empty or prepared index to an evidence row of the ledger, `PreparedInv` says that an index about to be written
  keeps a success the index has. From it come the invariants, the action property and the step
  simulation of `GoalLifecycle`, whose initial state and every step map to one of its own or to a stutter.
* **Batch runs** (`BatchTypeCorrect`, `CatalogCovers`, `DoneIsThere`, `RunsAreFinite`). `IInv` is `Typed`, `CheckpointHasRows` (a path the
  checkpoint records has some row, or a line is spoilt and no resume can succeed), `ResultsHeld`, `DoneAccounted` and `InputAccounted` (during a run, each path of
  the input is pending, in the channel, or marked) together with the property. `DoneIsThere` counts: `Promised` bounds the done
  paths without a row of their status by the spoilt lines, for the file before the flush together with the buffer, and after it; an append
  either keeps all rows or spoils exactly one more line and loses one row (`AppendSpoils`). `RunsAreFinite` gives the half of `RunReturns` that needs no fairness: `Work`
  (two for each listed path, one for each result in the channel, then the files to write) falls with every step of a run.
* **Stdio transport** (`TransportTypeCorrect`, `NoRequestLost`, `TransportImplementsService`, `TransportIsFinite`). `NothingLost` says that a request in flight
  is with the dispatcher, in a worker's channel, at a worker, or has its result in the channel; `Accounted` that a
  line is answered once or not yet, and not at all while it is in flight or unread; `Bounded` that the limit holds; `Ended` that after the join the pool
  is empty. From these a drain never finds the channel disconnected (`reader = "lost"` is unreachable), and
  every step maps to a step of `StdioService` or to a stutter. `TransportIsFinite` does for `LinesAnswered` what `RunsAreFinite` does for
  `RunReturns`: `Work` weighs each line by the place it is in, from unread to the result channel, and falls with every step but `Tick`.

Of the background store `SessionsNotStolen`, `GhostsNotRevived` and `LiveRowsStay` are proved only; no run repeats them.

Only model-checked: liveness under fairness (`ReadyStarts`, `RunReturns` and the like), which, like `ENABLED`, is beyond the
prover; of `RunReturns` and `LinesAnswered` it is only proved that nothing goes on for ever, not that something can go on. Every other property of a passing run is the statement of a theorem.

## 5. Plan

1. `ChainGoals`: the chain composed with goals, for tasks that are marked running while their goal fails to start
   (`tools.rs:796`).
2. `RuntimeStorage` (path locks with their timeout, append with half-written lines) and the tool threads of the MCP harness that outlive their 60 s timeout.
3. The claims and the proof graph of the research harness; the sync of the code graph; browser sessions; the step ledger
   and the closeout checks.

## Not modelled

* `runtime-storage` backends, the MCP tool threads: their effects enter the models as writes
  that fail or stop half way and as calls that overlap; the code itself is in the plan.
* The research harness, the code graph, browser sessions, traces, the step ledger and closeout checks, agent health and the team manager: components
  with state of their own, not reached yet.
* Routing, skills, quality-gate scoring, text tools, the document converters, the CLI, host projection and
  maintenance: functions of their input, or writers of generated files; there is little in them that a model checker finds and a test does not.
* `symbolic.rs` of the research harness is computer algebra over expression trees: its correctness is about data, which a finite model does not reach.

`PROJECT.json` lists each component with its status and reason.
