------------------------------ MODULE ChainEngine ------------------------------
(***************************************************************************)
(* The task chain (core/chain-engine and its MCP tools): TASK_CHAIN.json   *)
(* holds a graph of tasks with dependencies, conditions, rounds, parallel  *)
(* groups, timeout groups and retries.  A tick starts the tasks that are   *)
(* ready, fails those whose group ran out of time, schedules retries and   *)
(* applies the failure strategy; completing the goal of a task advances    *)
(* the chain as well; an operator skips or retries a task and resumes a    *)
(* paused chain.                                                           *)
(*                                                                         *)
(* The tools read the file first and write it back later, so that other    *)
(* calls come in between: a tick takes the chain lock only for the second  *)
(* half, skip, retry and resume do not take it, and completing a task      *)
(* holds it throughout.  The callers are threads of one process, which     *)
(* share that lock.                                                        *)
(***************************************************************************)
EXTENDS ChainScheduling

CONSTANTS
  N,              \* tasks in the chain; a task is named by its place there
  DependsOn,      \* depends_on of each task
  Condition,      \* of each task: the source, and its statuses that satisfy it
  Round,          \* round of each task
  Group,          \* parallel_group of each task, or None
  TimeoutGroup,   \* timeout_group of each task, or None
  MaxSeconds,     \* max_seconds of each timeout group
  MaxAttempts,    \* max_attempts of each task's retry policy, 0 without one
  Backoff,        \* backoff before a retry
  MaxConcurrent,  \* max_concurrent_tasks
  Strategies,     \* on_any_failure values a chain may be made with
  Given,          \* statuses the tasks of a new chain may be given
  Callers,        \* calls of the tools under way at once
  MaxRuns,        \* bound: attempts of a task an operator retries
  MaxNow,         \* bound of the clock
  Queues,         \* queues the round-robin is run on
  Graphs          \* dependencies the search for a cycle is run on

Tasks == 1..N

Strategy == {"pause_dag", "abort_dag", "continue"}

\* validate_dag: the dependencies have no cycle.
ValidDag == Acyclic(DependsOn)

ASSUME ChainAssumption ==
  /\ N \in Nat
  /\ DependsOn \in [Tasks -> SUBSET Tasks] /\ ValidDag
  /\ DOMAIN Group = Tasks
  /\ Round \in [Tasks -> Nat \ {0}]
  /\ MaxAttempts \in [Tasks -> Nat]
  /\ \A t \in Tasks : TimeoutGroup[t] # None => MaxSeconds[TimeoutGroup[t]] \in Nat
  /\ Backoff \in Nat /\ MaxConcurrent \in Nat
  /\ Strategies \subseteq Strategy
  /\ Given \subseteq {"pending", "completed", "failed"}
  /\ None \notin Nat
  /\ MaxRuns \in Nat /\ MaxNow \in Nat
  /\ \A q \in Queues : IsQueue(q)
  /\ \A graph \in Graphs : IsGraph(graph)

VARIABLES
  chain,   \* TASK_CHAIN.json
  call,    \* the chain each call has read and not written back, or None
  now      \* the wall clock

vars == <<chain, call, now>>

Done == {"completed", "skipped"}
Terminal == Done \cup {"failed", "blocked"}
Waiting == {"pending", "retry_scheduled"}
Status == Terminal \cup Waiting \cup {"running"}

Task == [status: Status, attempt: Nat, started: Nat \cup {None}, backoff: Nat]

Chain == [task: [Tasks -> Task], paused: BOOLEAN, strategy: Strategy]

TypeOK ==
  /\ chain \in Chain
  /\ call \in [Callers -> Chain \cup {None}]
  /\ now \in Nat

StatusOf(root, t) == root.task[t].status

\* The tasks of a chain whose status is in S.
With(root, S) == {t \in Tasks : StatusOf(root, t) \in S}

Running(root) == With(root, {"running"})

\* root with the status of the tasks in S changed.
SetStatus(root, S, status) ==
  [root EXCEPT !.task = [t \in Tasks |->
    IF t \in S THEN [root.task[t] EXCEPT !.status = status] ELSE root.task[t]]]

-----------------------------------------------------------------------------
(* advance_dag.                                                            *)

\* handle_expired_backoffs.
Awake(root) ==
  [root EXCEPT !.task = [t \in Tasks |->
    IF root.task[t].status = "retry_scheduled" /\ now >= root.task[t].backoff
    THEN [root.task[t] EXCEPT !.status = "pending", !.backoff = 0]
    ELSE root.task[t]]]

\* Fault: a dependency that failed counts as settled.
FaultDependenciesMet(root, t) ==
  \A d \in DependsOn[t] : StatusOf(root, d) \in Done \cup {"failed"}

DependenciesMet(root, t) == \A d \in DependsOn[t] : StatusOf(root, d) \in Done

ConditionMet(root, t) ==
  Condition[t] # None => StatusOf(root, Condition[t].source) \in Condition[t].statuses

\* Fault: the barrier looks at the previous round only.
FaultBarrierOpen(root, t) ==
  \A u \in Tasks : Round[u] + 1 = Round[t] => StatusOf(root, u) \in Terminal

\* Fault: a failed task keeps its round open.
FaultBarrierFailed(root, t) ==
  \A u \in Tasks : Round[u] < Round[t] => StatusOf(root, u) \in Done

\* The round barrier: all earlier rounds are terminal.
BarrierOpen(root, t) ==
  \A u \in Tasks : Round[u] < Round[t] => StatusOf(root, u) \in Terminal

\* A retry whose backoff still runs is eligible like a pending task.
Eligible(root) ==
  {t \in With(root, Waiting) :
     DependenciesMet(root, t) /\ ConditionMet(root, t) /\ BarrierOpen(root, t)}

InGroup(S, g) == Members(Group, S, g)

Groups == AllGroups(Group)

GroupCap == Cap(MaxConcurrent)

Queue(root) ==
  [eligible |-> Eligible(root), running |-> Running(root), group |-> Group,
   limit |-> MaxConcurrent]

\* advance_dag returns at once.
Held(root) == root.paused \/ MaxConcurrent = 0

\* The sets of tasks advance_dag may start: those of its round-robin over the
\* groups, whose order is that of a HashMap.
Selections(root) ==
  IF Held(root) THEN {{}}
  ELSE UNION {{R \in SUBSET q.eligible : Selection(q, R)} : q \in {Queue(Awake(root))}}

\* The start of a task is kept where it is read: in timeout groups.
Started(root, R) ==
  [root EXCEPT !.task = [t \in Tasks |->
    IF t \in R
    THEN [root.task[t] EXCEPT !.status = "running", !.attempt = @ + 1,
                              !.started = IF TimeoutGroup[t] = None THEN None ELSE now]
    ELSE root.task[t]]]

Advanced(root, R) == IF Held(root) THEN root ELSE Started(Awake(root), R)

-----------------------------------------------------------------------------
(* process_post_tick.                                                      *)

\* A task of timeout group g has been started max_seconds ago: the clock of a
\* group is that of its task that was started first.
Expired(root, g) ==
  \E t \in Tasks :
    /\ TimeoutGroup[t] = g /\ root.task[t].started # None
    /\ now >= root.task[t].started + MaxSeconds[g]

\* process_timeouts.
TimedOut(root) ==
  SetStatus(root,
            {t \in Running(root) : TimeoutGroup[t] # None /\ Expired(root, TimeoutGroup[t])},
            "failed")

\* The first step of process_failures: retry what has attempts left.
Retried(root) ==
  [root EXCEPT !.task = [t \in Tasks |->
    IF root.task[t].status = "failed" /\ root.task[t].attempt < MaxAttempts[t]
    THEN [root.task[t] EXCEPT !.status = "retry_scheduled", !.backoff = now + Backoff]
    ELSE root.task[t]]]

\* Fault: the waiting tasks of a paused chain get the state of the chain.
FaultStruck(root) ==
  IF With(root, {"failed"}) = {} \/ root.strategy # "pause_dag" THEN root
  ELSE [SetStatus(root, With(root, Waiting), "paused") EXCEPT !.paused = TRUE]

\* The second step: the failure strategy.
Struck(root) ==
  IF With(root, {"failed"}) = {} \/ root.strategy = "continue" THEN root
  ELSE IF root.strategy = "abort_dag"
  THEN SetStatus(root, Tasks \ With(root, Terminal), "skipped")
  ELSE [SetStatus(root, With(root, Waiting), "blocked") EXCEPT !.paused = TRUE]

PostTick(root) == Struck(Retried(TimedOut(root)))

-----------------------------------------------------------------------------
(* The tools.                                                              *)

Init ==
  /\ \E given \in [Tasks -> Given], strategy \in Strategies :
       chain = [task |-> [t \in Tasks |-> [status |-> given[t], attempt |-> 0,
                                           started |-> None, backoff |-> 0]],
                paused |-> FALSE, strategy |-> strategy]
  /\ call = [c \in Callers |-> None]
  /\ now = 0

\* A tool reads the file, without the lock.
Load(c) ==
  /\ call[c] = None
  /\ call' = [call EXCEPT ![c] = chain]
  /\ UNCHANGED <<chain, now>>

\* A tool writes the chain it has read back as root.
Write(c, root) ==
  /\ call[c] # None
  /\ chain' = root
  /\ call' = [call EXCEPT ![c] = None]
  /\ UNCHANGED now

\* chain_dag_tick, from taking the lock on.
Tick(c) ==
  /\ call[c] # None
  /\ \E R \in Selections(call[c]) : Write(c, PostTick(Advanced(call[c], R)))

\* Fault: chain_dag_skip does not look at the status.
FaultSkip(c, t) ==
  /\ call[c] # None
  /\ Write(c, SetStatus(call[c], {t}, "skipped"))

\* chain_dag_skip.
Skip(c, t) ==
  /\ call[c] # None
  /\ t \notin With(call[c], Terminal)
  /\ Write(c, SetStatus(call[c], {t}, "skipped"))

\* chain_dag_retry; an operator retries a task up to MaxRuns attempts.
Retry(c, t) ==
  /\ call[c] # None
  /\ t \in With(call[c], {"failed", "retry_scheduled"})
  /\ call[c].task[t].attempt < MaxRuns
  /\ Write(c, [call[c] EXCEPT !.task[t].status = "pending", !.task[t].backoff = 0])

\* chain_dag_resume.
Resume(c) ==
  /\ call[c] # None
  /\ call[c].paused
  /\ Write(c, [SetStatus(call[c], With(call[c], {"blocked"}), "pending")
                 EXCEPT !.paused = FALSE])

\* A call that is refused: a terminal task to skip, a chain that is not paused,
\* an unknown task.
Refuse(c) ==
  /\ call[c] # None
  /\ call' = [call EXCEPT ![c] = None]
  /\ UNCHANGED <<chain, now>>

\* auto_advance_chain_after_complete: the goal of a task is complete, whatever
\* the chain says of the task; it reads and writes under the lock.
Complete(c, t) ==
  /\ call[c] = None
  /\ LET root == SetStatus(chain, {t}, "completed") IN
       \E R \in Selections(root) : chain' = Advanced(root, R)
  /\ UNCHANGED <<call, now>>

Clock ==
  /\ now < MaxNow
  /\ now' = now + 1
  /\ UNCHANGED <<chain, call>>

Next ==
  \/ \E c \in Callers : Load(c) \/ Tick(c) \/ Resume(c) \/ Refuse(c)
  \/ \E c \in Callers, t \in Tasks : Skip(c, t) \/ Retry(c, t) \/ Complete(c, t)
  \/ Clock

Spec == Init /\ [][Next]_vars

\* Nothing in the code ticks a chain by itself: its users go on ticking it and
\* finish, or skip, what runs.
Ticked == \E c \in Callers : Tick(c)

Finished == \E c \in Callers, t \in Running(chain) : Complete(c, t)

FairSpec ==
  /\ Spec
  /\ WF_vars(\E c \in Callers : Load(c))
  /\ SF_vars(Ticked)
  /\ SF_vars(Finished)

-----------------------------------------------------------------------------
(* Properties.                                                             *)

SettledFirst(root) ==
  \A t \in Running(root) : \A d \in DependsOn[t] : StatusOf(root, d) \in Done

\* A task runs only when all it depends on is completed or skipped, whatever
\* was retried, skipped, blocked or resumed in the meantime, and even when
\* calls overlap and overwrite each other (dependencies_met_cached).
RunsAfterDependencies == SettledFirst(chain)

Bounded(root) ==
  /\ Cardinality(Running(root)) <= MaxConcurrent
  /\ \A g \in Groups \ {None} : Cardinality(InGroup(Running(root), g)) <= GroupCap

\* The running tasks exceed neither max_concurrent_tasks nor, within a parallel
\* group, the share of one group, although ticks, completions and retries all
\* start tasks (the capacity checks of advance_dag).
WithinCapacity == Bounded(chain)

\* Completed work is never undone: no tick, failure strategy, skip or retry
\* takes a task out of completed, so that nothing is run twice (is_terminal).
CompletionKept ==
  [][With(chain, {"completed"}) \subseteq With(chain', {"completed"})]_vars

\* A task starts only when every task of every earlier round has ended in one
\* way or another, also in rounds that were emptied by skipping (the round
\* barrier of advance_dag).
RoundsInOrder ==
  [][\A t \in Running(chain') \ Running(chain), u \in Tasks :
       Round[u] < Round[t] => u \in With(chain', Terminal)]_vars

\* Nothing but the capacity holds task t back.
Ready(t) ==
  /\ ~chain.paused /\ t \in With(chain, Waiting)
  /\ DependsOn[t] \subseteq With(chain, {"completed", "skipped"})
  /\ ConditionMet(chain, t)
  /\ \A u \in Tasks : Round[u] < Round[t] =>
       u \in With(chain, {"completed", "skipped", "failed", "blocked"})

\* A task that is ready is not passed over for ever: it starts, or something
\* changes that makes it wait, as long as the chain is ticked and running tasks
\* finish (the round-robin selection of advance_dag).
ReadyStarts == \A t \in Tasks : Ready(t) ~> ~Ready(t)

(* The scheduler's loops.  What is said of them does not depend on the      *)
(* state, so that it is evaluated in the initial states.                    *)

\* The round-robin of advance_dag, whatever the order of its groups, starts what
\* a tick may start and nothing else: it stays within the limits, keeps the
\* order of the chain inside a group, leaves no capacity unused, and serves the
\* groups evenly; and each choice of that kind is what some order gives.
RoundRobinIsFair ==
  Init => \A q \in Queues :
    {RoundRobin(q, order) : order \in Orders(q)} = {R \in SUBSET q.eligible : Selection(q, R)}

\* validate_dag accepts a chain just when its dependencies have no cycle, and
\* its searches end: on diamonds, on tasks that depend on themselves, and in
\* whatever order the dependencies are listed.
AcceptedIsAcyclic ==
  Init => \A graph \in Graphs :
    /\ \A t \in DOMAIN graph : Ended(Search(graph, t))
    /\ Accepted(graph) <=> Acyclic(Depends(graph))

=============================================================================
