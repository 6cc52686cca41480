------------------------------ MODULE GoalState ------------------------------
(***************************************************************************)
(* The goals of a repository: core/core-state (framework_goal_drive and the*)
(* task pointers), the task tools that call it, the evidence index of      *)
(* framework-extra, and the goal sync of the loop runner.                  *)
(*                                                                         *)
(* Hook processes and servers of several sessions share artifacts/current: *)
(* GOAL_STATE.json, EVIDENCE_INDEX.json and TASK_LEDGER.jsonl of each task *)
(* and TASK_POINTERS.json.  A goal operation holds the repository's flock  *)
(* from its read to its last write and is one step, whose ledger append    *)
(* and pointer write may be missing (they are best effort, and the process *)
(* may die before them).  Three callers do not hold it throughout and take *)
(* two steps: an evidence append (ledger first, then the index, under the  *)
(* index's own lock), the runner's write-back of a finished run, and       *)
(* task_complete, which looks for a goal before it takes the flock.        *)
(*                                                                         *)
(* Of a goal's text only whether it satisfies the drive contract is kept.  *)
(***************************************************************************)
EXTENDS TaskLedger

CONSTANTS
  Tasks,           \* task ids
  Sessions,        \* the session ids of the callers' environments
  None,            \* no session id, no task
  Starts,          \* the payloads of start
  Amends,          \* the payloads of amend
  MaxCheckpoints,  \* the 100 checkpoints of a goal
  MaxRows,         \* MAX_POST_TOOL_EVIDENCE_ARTIFACTS
  Rows,            \* the evidence rows that are appended
  MaxCalls,        \* bound: calls on goals, tasks and evidence
  MaxLosses        \* bound: calls whose later writes are missing

VARIABLES
  goal,       \* GOAL_STATE.json of each task
  ledger,     \* TASK_LEDGER.jsonl of each task
  evidence,   \* the rows of EVIDENCE_INDEX.json of each task
  pointers,   \* TASK_POINTERS.json: [written, active, focus, listed]
  dirs,       \* the tasks that have a directory
  appending,  \* the index an evidence append is about to write, per task
  syncing,    \* the goal a loop runner has read to write it back
  completing, \* the tasks a task_complete found without a goal
  calls, losses

vars == <<goal, ledger, evidence, pointers, dirs,
          appending, syncing, completing, calls, losses>>

-----------------------------------------------------------------------------
(* Goals.                                                                  *)

Statuses == {"running", "paused", "blocked", "review_pending", "failed", "completed"}

\* contract: the fields satisfy the drive contract; gated: completion_gates
\* ask for one successful evidence row and one checkpoint.
Goal == [status: Statuses, drive: BOOLEAN, evidence: BOOLEAN, contract: BOOLEAN,
         gated: BOOLEAN, checkpoints: Nat, iterations: Nat,
         session: Sessions \cup {None}]

StartPayload == [status: Statuses, drive: BOOLEAN, evidence: BOOLEAN,
                 contract: BOOLEAN, gated: BOOLEAN]

\* "keep" where the payload does not name the field.
AmendPayload == [drive: {"keep", "on", "off"}, contract: {"keep", "on", "off"},
                 gated: {"keep", "on", "off"}, keepProgress: BOOLEAN]

ASSUME GoalAssumption ==
  /\ NoGoal \notin Goal /\ None \notin Tasks \cup Sessions
  /\ Starts \subseteq StartPayload /\ Amends \subseteq AmendPayload
  /\ MaxCheckpoints \in Nat /\ MaxRows \in Nat \ {0, 1}
  /\ Rows \subseteq RowKinds /\ MaxCalls \in Nat /\ MaxLosses \in Nat

\* is_valid_goal_transition
ValidTransition(from, to) ==
  \/ from = "running" /\ to \in {"paused", "blocked", "review_pending", "completed", "failed"}
  \/ from \in {"paused", "blocked", "review_pending"} /\ to \in {"running", "failed"}

\* Fault: the contract of a driving goal is not checked.
FaultNoContract(drive, contract) == TRUE

\* validate_drive_contract
ContractHolds(drive, contract) == drive => contract

\* A field of an amend payload over the current value.
Over(field, current) == IF field = "keep" THEN current ELSE field = "on"

\* annotate_goal_staleness: the goal belongs to another session.
Stale(g, s) == g.session # None /\ s # None /\ g.session # s

-----------------------------------------------------------------------------
(* Evidence.                                                               *)

AnyOk(rows) == \E i \in DOMAIN rows : ImpliesSuccess(rows[i])

Smaller(a, b) == IF a < b THEN a ELSE b

\* The last n of the positions S.
Newest(S, n) == {i \in S : Cardinality({k \in S : k >= i}) <= n}

\* Fault: over the limit the oldest rows go, whatever they say.
FaultTrimmed(rows) == RowsAt(rows, Newest(DOMAIN rows, MaxRows))

\* Over the limit, the newest success=true rows within their share of it,
\* then the newest of the others.
Trimmed(rows) ==
  LET success == {i \in DOMAIN rows : rows[i] = "success"}
      kept    == Newest(success, (MaxRows * 2) \div 3)
      others  == Newest(DOMAIN rows \ success, MaxRows - Cardinality(kept))
  IN IF Len(rows) <= MaxRows THEN rows
     ELSE RowsAt(rows, kept) \o RowsAt(rows, others)

-----------------------------------------------------------------------------
(* The writes.                                                             *)

\* A step may lose its later writes, to an error or the end of its process.
MayLose == losses' \in losses .. Smaller(losses + 1, MaxLosses)

Lossy == losses' # losses

Call == calls < MaxCalls /\ calls' = calls + 1 /\ MayLose

\* The checkpoint an append to t's ledger would write: the files as they are
\* once the goal file is g.
CheckpointOf(t, g) == CheckpointTx(g, AnyOk(evidence[t]))

\* The ledgers an append may leave; a best-effort one may leave it unwritten.
Written(t, tx, g) ==
  LET all == AfterAppend(ledger[t], tx, CheckpointOf(t, g))
      one == Appended(ledger[t], tx, CheckpointOf(t, g))
  IN \E l \in IF Lossy THEN all ELSE {one} : ledger' = [ledger EXCEPT ![t] = l]

Logged(t, tx, g) == Written(t, tx, g) \/ (Lossy /\ UNCHANGED ledger)

\* commit_goal_mutation: the goal file, then the ledger.
Commit(t, g, tx) == goal' = [goal EXCEPT ![t] = g] /\ Logged(t, tx, g)

\* sync_task_pointers_after_goal_drive, set_task_focus
Pointed(t, focus) ==
  [written |-> TRUE, active |-> t, focus |-> IF focus THEN t ELSE pointers.focus,
   listed |-> pointers.listed \cup {t}]

PointersSynced(t) ==
  \/ Lossy /\ UNCHANGED pointers
  \/ \E focus \in BOOLEAN : pointers' = Pointed(t, focus)

\* Fault: the focus pointer is forgotten.
FaultNeutralized(t) ==
  [pointers EXCEPT !.active = IF @ = t THEN None ELSE @, !.listed = @ \ {t}]

\* neutralize_task_pointers_for_task
Neutralized(t) ==
  [pointers EXCEPT !.active = IF @ = t THEN None ELSE @,
                   !.focus = IF @ = t THEN None ELSE @, !.listed = @ \ {t}]

PointersNeutralized(t) ==
  pointers' = Neutralized(t) \/ (Lossy /\ UNCHANGED pointers)

-----------------------------------------------------------------------------
(* framework_goal_drive: one action per operation.  s is the session id of *)
(* the caller's environment, None without one.                             *)

Init ==
  /\ goal = [t \in Tasks |-> NoGoal]
  /\ ledger = [t \in Tasks |-> <<>>]
  /\ evidence = [t \in Tasks |-> <<>>]
  /\ pointers = [written |-> FALSE, active |-> None, focus |-> None, listed |-> {}]
  /\ dirs = {}
  /\ appending = [t \in Tasks |-> {}]
  /\ syncing = {}
  /\ completing = {}
  /\ calls = 0 /\ losses = 0


\* What no goal or task operation touches.
Quiet == UNCHANGED <<evidence, appending, syncing>>

\* The goal the operation reads is there and is not another session's.
Owned(s, t) == goal[t] # NoGoal /\ ~Stale(goal[t], s)

\* The session is the payload's or the environment's.
Start(t) ==
  /\ Call /\ Quiet /\ UNCHANGED completing
  /\ goal[t] = NoGoal
  /\ \E p \in Starts, owner \in Sessions \cup {None} :
       LET g == [status |-> p.status, drive |-> p.drive,
                 evidence |-> p.drive \/ p.evidence, contract |-> p.contract,
                 gated |-> p.gated, checkpoints |-> 0, iterations |-> 0,
                 session |-> owner]
       IN ContractHolds(p.drive, p.contract) /\ Commit(t, g, GoalTx(g))
  /\ PointersSynced(t)
  /\ dirs' = dirs \cup {t}

\* An operation that changes the goal and nothing of the pointers.
Changed(t, g) ==
  /\ Call /\ Quiet /\ Commit(t, g, GoalTx(g))
  /\ UNCHANGED <<pointers, dirs, completing>>

Checkpoint(s, t) ==
  /\ Owned(s, t) /\ goal[t].checkpoints < MaxCheckpoints
  /\ Changed(t, [goal[t] EXCEPT !.checkpoints = @ + 1])

Pause(s, t) ==
  /\ Owned(s, t) /\ ValidTransition(goal[t].status, "paused")
  /\ Changed(t, [goal[t] EXCEPT !.status = "paused"])

Block(s, t) ==
  /\ Owned(s, t) /\ ValidTransition(goal[t].status, "blocked")
  /\ Changed(t, [goal[t] EXCEPT !.status = "blocked", !.drive = FALSE])

\* Also from paused and review_pending: the matrix is all it asks.
Unblock(s, t) ==
  /\ Owned(s, t) /\ ValidTransition(goal[t].status, "running")
  /\ Changed(t, [goal[t] EXCEPT !.status = "running"])

Amend(s, t) ==
  /\ Owned(s, t) /\ goal[t].status # "completed"
  /\ \E p \in Amends :
       LET g == [goal[t] EXCEPT !.drive = Over(p.drive, @),
                                !.contract = Over(p.contract, @),
                                !.gated = Over(p.gated, @),
                                !.evidence = @ \/ p.drive = "on",
                                !.checkpoints = IF p.keepProgress THEN @ ELSE 0]
       IN /\ g.drive => g.evidence
          /\ ContractHolds(g.drive, g.contract)
          /\ Changed(t, g)

\* Resume and retry also point at the task.
Rerun(t, g) ==
  /\ Call /\ Quiet /\ Commit(t, g, GoalTx(g)) /\ PointersSynced(t)
  /\ UNCHANGED <<dirs, completing>>

\* Refused from running, blocked and review_pending only.
Resume(s, t) ==
  /\ Owned(s, t) /\ goal[t].status \in {"paused", "failed", "completed"}
  /\ \E field \in {"keep", "on", "off"} :
       LET g == [goal[t] EXCEPT !.status = "running", !.drive = Over(field, @)]
       IN ContractHolds(g.drive, g.contract) /\ Rerun(t, g)

Retry(s, t) ==
  /\ Owned(s, t) /\ goal[t].status = "review_pending"
  /\ Rerun(t, [goal[t] EXCEPT !.status = "running"])

\* Fault: a goal that has ended may fail again.
FaultCanFail(g) == TRUE

CanFail(g) == g.status \notin {"completed", "failed"}

Fail(s, t) ==
  /\ Owned(s, t) /\ CanFail(goal[t])
  /\ Call /\ Quiet
  /\ LET g == [goal[t] EXCEPT !.status = "failed"] IN Commit(t, g, NoteTx("goal_failed"))
  /\ PointersNeutralized(t)
  /\ UNCHANGED <<dirs, completing>>

\* The completion gates look at the hydrated task, not at the files.
GatesOpen(t) ==
  goal[t].gated =>
    /\ HydratedVerified(ledger[t], AnyOk(evidence[t]))
    /\ HydratedGoal(ledger[t], goal[t]).checkpoints > 0

\* The quality gate blocks (or its hook fails), or the iteration is counted.
Complete(s, t) ==
  /\ Owned(s, t) /\ goal[t].status \in {"running", "review_pending"}
  /\ goal[t].evidence => AnyOk(evidence[t])
  /\ GatesOpen(t)
  /\ Call /\ Quiet
  /\ \/ LET g == [goal[t] EXCEPT !.status = "review_pending"]
        IN Commit(t, g, NoteTx("goal_quality_gate_blocked"))
     \/ LET g == [goal[t] EXCEPT !.iterations = @ + 1]
        IN Commit(t, g, NoteTx("goal_iteration_completed"))
  /\ UNCHANGED <<pointers, dirs, completing>>

Clear(s, t, force) ==
  /\ Call /\ Quiet
  /\ (goal[t] # NoGoal /\ Stale(goal[t], s)) => force
  /\ IF goal[t] = NoGoal THEN UNCHANGED <<goal, ledger>>
     ELSE Commit(t, NoGoal, NoteTx("goal_cleared"))
  /\ PointersNeutralized(t)
  /\ UNCHANGED <<dirs, completing>>

-----------------------------------------------------------------------------
(* The task tools and the promotion of the focused task.                   *)

TaskCreate(t) ==
  /\ Call /\ Quiet /\ UNCHANGED <<goal, completing>>
  /\ dirs' = dirs \cup {t}
  /\ IF Has(ledger[t], NoteTx("task_created")) THEN UNCHANGED <<pointers, ledger>>
     ELSE \/ Lossy /\ UNCHANGED <<pointers, ledger>>
          \/ /\ pointers' = IF t \in pointers.listed /\ pointers.focus # t
                            THEN pointers ELSE Pointed(t, TRUE)
             /\ Logged(t, NoteTx("task_created"), goal[t])

TaskFocus(t) ==
  /\ Call /\ Quiet /\ UNCHANGED <<goal, ledger, dirs, completing>>
  /\ t \in dirs /\ ~Lossy
  /\ pointers' = Pointed(t, TRUE)

\* task_complete found no goal; with one it is Complete.  One such call is in
\* flight at a time.
FindNoGoal(t) ==
  /\ Call /\ Quiet /\ ~Lossy
  /\ goal[t] = NoGoal /\ completing = {}
  /\ completing' = {t}
  /\ UNCHANGED <<goal, ledger, pointers, dirs>>

\* validate_complete_transition
CompleteAllowed(t) ==
  IF goal[t] = NoGoal THEN evidence[t] # <<>> => AnyOk(evidence[t])
  ELSE AnyOk(evidence[t])

\* Under the flock the goal is not looked for again, and without an explicit
\* task id the task is the one now active.
CompleteTask(t) ==
  /\ MayLose /\ Quiet /\ UNCHANGED <<goal, calls>>
  /\ t \in completing /\ completing' = completing \ {t}
  /\ \E u \in {t, pointers.active} \ {None} :
       /\ CompleteAllowed(u)
       /\ \/ Lossy /\ UNCHANGED <<pointers, ledger, dirs>>
          \/ /\ pointers' = Neutralized(u)
             /\ IF Has(ledger[u], NoteTx("task_completed")) THEN UNCHANGED ledger
                ELSE Logged(u, NoteTx("task_completed"), goal[u])
             /\ dirs' = dirs \cup {u}

\* maybe_promote_focus_to_active_pointer
Promote ==
  /\ pointers.active \in Tasks /\ pointers.focus \in Tasks
  /\ pointers.active # pointers.focus
  /\ goal[pointers.active] = NoGoal /\ goal[pointers.focus] # NoGoal
  /\ pointers' = Pointed(pointers.focus, FALSE)
  /\ UNCHANGED <<goal, ledger, evidence, dirs, appending, syncing, completing, calls, losses>>

-----------------------------------------------------------------------------
(* Evidence: under the index's lock, the ledger first, then the index.     *)

\* Fault: the index is never trimmed.
FaultIndexAfter(rows, row, duplicate) == IF duplicate THEN rows ELSE Append(rows, row)

\* A row with the command and the second of a recorded one is not added to
\* the index, but it is logged.
IndexAfter(rows, row, duplicate) == Trimmed(IF duplicate THEN rows ELSE Append(rows, row))

\* Fault: the index is prepared although the ledger could not be written.
FaultLogEvidence(t) ==
  /\ Call /\ pointers.written /\ appending[t] = {}
  /\ \E row \in Rows : appending' = [appending EXCEPT ![t] = {IndexAfter(evidence[t], row, FALSE)}]
  /\ dirs' = dirs \cup {t}
  /\ UNCHANGED <<goal, ledger, evidence, pointers, syncing, completing>>

\* Without TASK_POINTERS.json nothing is recorded; if the ledger cannot be
\* written the call fails before the index.
LogEvidence(t) ==
  /\ Call /\ pointers.written /\ appending[t] = {}
  /\ \E row \in Rows, duplicate \in BOOLEAN :
       /\ duplicate => evidence[t] # <<>>
       /\ Written(t, EvidenceTx(row), goal[t])
       /\ appending' = [appending EXCEPT ![t] = {IndexAfter(evidence[t], row, duplicate)}]
  /\ dirs' = dirs \cup {t}
  /\ UNCHANGED <<goal, evidence, pointers, syncing, completing>>

\* The index is written, or the process ends or fails before it.
WriteIndex(t) ==
  /\ appending[t] # {} /\ appending' = [appending EXCEPT ![t] = {}]
  /\ MayLose
  /\ IF Lossy THEN UNCHANGED evidence
     ELSE \E rows \in appending[t] : evidence' = [evidence EXCEPT ![t] = rows]
  /\ UNCHANGED <<goal, ledger, pointers, dirs, syncing, completing, calls>>

-----------------------------------------------------------------------------
(* The runner's epilogue: read GOAL_STATE.json, touch updated_at and write *)
(* it back, with no lock and no session guard.                             *)

ReadForSync(t) ==
  /\ Call /\ ~Lossy
  /\ syncing = {} /\ goal[t] # NoGoal
  /\ syncing' = {[task |-> t, goal |-> goal[t]]}
  /\ UNCHANGED <<goal, ledger, evidence, pointers, dirs, appending, completing>>

WriteSync ==
  /\ syncing # {} /\ syncing' = {}
  /\ MayLose
  /\ IF Lossy THEN UNCHANGED goal
     ELSE \E copy \in syncing : goal' = [goal EXCEPT ![copy.task] = copy.goal]
  /\ UNCHANGED <<ledger, evidence, pointers, dirs, appending, completing, calls>>

-----------------------------------------------------------------------------

\* The operations that refuse a goal of another session.
Guarded(s, t) ==
  \/ Checkpoint(s, t) \/ Pause(s, t) \/ Block(s, t) \/ Unblock(s, t) \/ Amend(s, t)
  \/ Resume(s, t) \/ Retry(s, t) \/ Fail(s, t) \/ Complete(s, t) \/ Clear(s, t, FALSE)

Next ==
  \/ \E t \in Tasks, s \in Sessions \cup {None} : Guarded(s, t) \/ Clear(s, t, TRUE)
  \/ \E t \in Tasks :
       \/ Start(t) \/ TaskCreate(t) \/ TaskFocus(t) \/ FindNoGoal(t) \/ CompleteTask(t)
       \/ LogEvidence(t) \/ WriteIndex(t) \/ ReadForSync(t)
  \/ Promote \/ WriteSync

Spec == Init /\ [][Next]_vars

-----------------------------------------------------------------------------
(* Properties.                                                             *)

\* Every variable has its type; the ledgers are sequences of known rows.
TypeOK ==
  /\ goal \in [Tasks -> Goal \cup {NoGoal}]
  /\ \A t \in Tasks : \A i \in DOMAIN ledger[t] :
       ledger[t][i].type \in {"goal_state", "evidence", "state_checkpoint", "note"}
  /\ \A t \in Tasks : \A i \in DOMAIN evidence[t] : evidence[t][i] \in RowKinds
  /\ \A t \in Tasks : Len(evidence[t]) <= MaxRows /\ Cardinality(appending[t]) <= 1
  /\ pointers \in [written: BOOLEAN, active: Tasks \cup {None},
                   focus: Tasks \cup {None}, listed: SUBSET Tasks]
  /\ dirs \subseteq Tasks /\ completing \subseteq Tasks
  /\ syncing \in SUBSET [task: Tasks, goal: Goal] /\ Cardinality(syncing) <= 1

\* A goal in drive-until-done mode carries the deep contract, however it came
\* to drive: started, amended in two steps, blocked, unblocked and resumed, or
\* written back by a runner (validate_drive_contract).
DrivingGoalHasContract ==
  \A t \in Tasks : goal[t] # NoGoal /\ goal[t].drive => goal[t].contract

\* Compacting a ledger, at whatever moment, does not change the goal that
\* replay finds in it (compact_jsonl_core against hydrate_task_state_hybrid).
CompactionKeepsGoal ==
  \A t \in Tasks :
    HydratedGoal(Compacted(ledger[t]), goal[t]) = HydratedGoal(ledger[t], goal[t])

\* An index with rows has evidence in the ledger too: the ledger is written
\* first, and compaction keeps the last evidence row.
EvidenceIsLogged ==
  \A t \in Tasks :
    evidence[t] # <<>> => \E i \in DOMAIN ledger[t] : ledger[t][i].type = "evidence"

\* The index never loses its last success=true row, whatever the rows that
\* arrive later and push others out.
SuccessKept ==
  [][\A t \in Tasks : Has(evidence[t], "success") => Has(evidence'[t], "success")]_vars

\* The active and the focused task are listed ones, after any sequence of
\* starts, clears, completions, promotions and lost pointer writes.
PointersListed ==
  {pointers.active, pointers.focus} \ {None} \subseteq pointers.listed

\* The goal operations move the status as GoalLifecycle allows.
Lifecycle ==
  INSTANCE GoalLifecycle WITH
    status <- [t \in Tasks |-> IF goal[t] = NoGoal THEN "none" ELSE goal[t].status],
    held <- {[task |-> c.task, status |-> c.goal.status] : c \in syncing}

LifecycleSpec == Lifecycle!Spec

\* The hydrated goal of a task has the status its GOAL_STATE.json has: "Always
\* read directly from physical files" (task_state.rs:545).
HydratedGoalIsCurrent ==
  \A t \in Tasks :
    goal[t] # NoGoal => HydratedGoal(ledger[t], goal[t]).status = goal[t].status

=============================================================================
