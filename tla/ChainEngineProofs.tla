--------------------------- MODULE ChainEngineProofs ---------------------------
(* Proofs about ChainEngine for every chain and any number of callers: the    *)
(* types, the order of dependencies and the capacity.  All three hold of the  *)
(* file and of every copy a call has read, so that a stale copy written back  *)
(* keeps them.  When calls do not overlap, completed tasks stay completed and *)
(* rounds follow each other.  Of the two loops of the scheduler: what they    *)
(* compute, for every queue and every graph of dependencies.                  *)
EXTENDS ChainEngine, FiniteSetTheorems, SequenceTheorems, WellFoundedInduction, TLAPS

\* b is a later chain than a in which nothing was started or undone.
Later(a, b) ==
  /\ Running(b) \subseteq Running(a)
  /\ With(a, Done) \subseteq With(b, Done)
  /\ With(a, {"completed"}) \subseteq With(b, {"completed"})

\* What fails in b had failed in a, after as many attempts.
SameFailures(a, b) ==
  \A t \in Tasks : StatusOf(b, t) = "failed" =>
    StatusOf(a, t) = "failed" /\ b.task[t].attempt = a.task[t].attempt

\* A chain that keeps the order of dependencies and the capacity.
Good(root) == SettledFirst(root) /\ Bounded(root)

\* The file is good, and so is every copy that a call holds.
Inv ==
  /\ TypeOK
  /\ Good(chain)
  /\ \A c \in Callers : call[c] # None => Good(call[c])

-----------------------------------------------------------------------------
(* Chains.                                                                  *)

\* A task of a chain has a status.
LEMMA StatusType ==
  ASSUME NEW root \in Chain, NEW t \in Tasks
  PROVE  StatusOf(root, t) \in Status
BY DEF Chain, Task, StatusOf

\* The capacity of a group is a number.
LEMMA GroupCapNat == GroupCap \in Nat
BY ChainAssumption DEF GroupCap, Cap

\* A chain has finitely many tasks.
LEMMA TasksFinite == IsFiniteSet(Tasks) /\ \A S \in SUBSET Tasks : IsFiniteSet(S)
<1>1. IsFiniteSet(Tasks)
  BY FS_Interval, ChainAssumption DEF Tasks
<1> QED
  BY <1>1, FS_Subset

\* What setting a status leaves: a chain, with that status for those tasks.
LEMMA SetStatusType ==
  ASSUME NEW root \in Chain, NEW S, NEW status \in Status
  PROVE  /\ SetStatus(root, S, status) \in Chain
         /\ \A t \in Tasks : StatusOf(SetStatus(root, S, status), t)
                              = IF t \in S THEN status ELSE StatusOf(root, t)
<1> DEFINE tasks == [t \in Tasks |-> IF t \in S THEN [root.task[t] EXCEPT !.status = status]
                                     ELSE root.task[t]]
<1>1. root.task \in [Tasks -> Task] /\ root.paused \in BOOLEAN /\ root.strategy \in Strategy
  BY DEF Chain
<1>2. tasks \in [Tasks -> Task]
  BY <1>1 DEF Task
<1>3. /\ SetStatus(root, S, status) \in Chain
      /\ SetStatus(root, S, status).task = tasks
  BY <1>2 DEF SetStatus, Chain
<1>4. \A t \in Tasks : tasks[t].status = IF t \in S THEN status ELSE root.task[t].status
  BY <1>1 DEF Task
<1> QED
  BY <1>3, <1>4 DEF StatusOf

\* Tasks that are not done may get any status but running.
LEMMA SetStatusLater ==
  ASSUME NEW root \in Chain, NEW S, NEW status \in Status \ {"running"},
         status = "completed" \/ S \cap With(root, Done) = {}
  PROVE  Later(root, SetStatus(root, S, status))
<1>1. \A t \in Tasks : StatusOf(SetStatus(root, S, status), t)
                        = IF t \in S THEN status ELSE StatusOf(root, t)
  BY SetStatusType
<1> QED
  BY <1>1 DEF Later, Running, With, Done

\* The entry of a task after its status is set.
LEMMA SetStatusEntry ==
  ASSUME NEW root \in Chain, NEW S, NEW status \in Status \ {"failed"}
  PROVE  SameFailures(root, SetStatus(root, S, status))
<1>1. \A t \in Tasks :
        /\ StatusOf(SetStatus(root, S, status), t) = IF t \in S THEN status ELSE StatusOf(root, t)
        /\ t \notin S => SetStatus(root, S, status).task[t] = root.task[t]
  BY SetStatusType DEF SetStatus, Chain
<1> QED BY <1>1 DEF SameFailures

\* Two steps that start nothing make one.
LEMMA LaterTransitive ==
  ASSUME NEW a, NEW b, NEW d, Later(a, b), Later(b, d)
  PROVE  Later(a, d)
BY DEF Later

\* A later chain of a good one is good.
LEMMA LaterGood ==
  ASSUME NEW a \in Chain, NEW b \in Chain, Good(a), Later(a, b)
  PROVE  Good(b)
<1>1. SettledFirst(b)
  <2> SUFFICES ASSUME NEW t \in Running(b), NEW d \in DependsOn[t]
               PROVE  StatusOf(b, d) \in Done
    BY DEF SettledFirst
  <2>1. t \in Running(a) /\ t \in Tasks
    BY DEF Later, Running, With
  <2>2. StatusOf(a, d) \in Done /\ d \in Tasks
    BY <2>1, ChainAssumption DEF Good, SettledFirst
  <2>3. With(a, Done) \subseteq With(b, Done)
    BY DEF Later
  <2> QED
    BY <2>2, <2>3 DEF With
<1>2. \A S \in SUBSET Tasks : \A T \in SUBSET S : \A k \in Nat :
        Cardinality(S) <= k => Cardinality(T) <= k
  <2> SUFFICES ASSUME NEW S \in SUBSET Tasks, NEW T \in SUBSET S, NEW k \in Nat,
                      Cardinality(S) <= k
               PROVE  Cardinality(T) <= k
    OBVIOUS
  <2>1. IsFiniteSet(S) /\ IsFiniteSet(T)
    BY TasksFinite
  <2>2. Cardinality(S) \in Nat /\ Cardinality(T) \in Nat /\ Cardinality(T) <= Cardinality(S)
    BY <2>1, FS_Subset, FS_CardinalityType
  <2> QED
    BY <2>2
<1>3. Running(a) \in SUBSET Tasks /\ Running(b) \in SUBSET Running(a)
  BY DEF Later, Running, With
<1>4. Cardinality(Running(b)) <= MaxConcurrent
  BY <1>2, <1>3, ChainAssumption DEF Good, Bounded
<1>5. ASSUME NEW g \in Groups \ {None}
      PROVE  Cardinality(InGroup(Running(b), g)) <= GroupCap
  <2>1. InGroup(Running(a), g) \in SUBSET Tasks
    BY <1>3 DEF InGroup, Members
  <2>2. InGroup(Running(b), g) \in SUBSET InGroup(Running(a), g)
    BY <1>3 DEF InGroup, Members
  <2>3. Cardinality(InGroup(Running(a), g)) <= GroupCap
    BY DEF Good, Bounded
  <2> QED
    BY <1>2, <2>1, <2>2, <2>3, GroupCapNat
<1> QED
  BY <1>1, <1>4, <1>5 DEF Good, Bounded

-----------------------------------------------------------------------------
(* The steps of a tick.                                                     *)

\* Ends of backoffs start nothing and undo nothing.
LEMMA AwakeLater ==
  ASSUME NEW root \in Chain, now \in Nat
  PROVE  Awake(root) \in Chain /\ Later(root, Awake(root))
<1> DEFINE wakes(t) == root.task[t].status = "retry_scheduled" /\ now >= root.task[t].backoff
           tasks == [t \in Tasks |-> IF wakes(t)
                       THEN [root.task[t] EXCEPT !.status = "pending", !.backoff = 0]
                       ELSE root.task[t]]
<1>1. root.task \in [Tasks -> Task] /\ root.paused \in BOOLEAN /\ root.strategy \in Strategy
  BY DEF Chain
<1>2. tasks \in [Tasks -> Task]
  BY <1>1 DEF Task, Status, Waiting
<1>3. Awake(root) \in Chain /\ Awake(root).task = tasks
  BY <1>2 DEF Awake, Chain
<1>4. \A t \in Tasks : \/ tasks[t].status = root.task[t].status
                       \/ root.task[t].status = "retry_scheduled" /\ tasks[t].status = "pending"
  <2> TAKE t \in Tasks
  <2>1. root.task[t] \in Task
    BY <1>1
  <2>2. CASE wakes(t)
    BY <2>1, <2>2 DEF Task
  <2>3. CASE ~wakes(t)
    <3>1. tasks[t] = root.task[t]
      BY <2>3
    <3> QED
      BY <3>1
  <2> QED
    BY <2>2, <2>3
<1>5. Later(root, Awake(root))
  BY <1>3, <1>4 DEF Later, Running, With, StatusOf, Done
<1> QED
  BY <1>3, <1>5

\* Scheduling retries starts nothing and undoes nothing.
LEMMA RetriedLater ==
  ASSUME NEW root \in Chain, now \in Nat
  PROVE  Retried(root) \in Chain /\ Later(root, Retried(root))
<1> DEFINE retries(t) == root.task[t].status = "failed" /\ root.task[t].attempt < MaxAttempts[t]
           tasks == [t \in Tasks |-> IF retries(t)
                       THEN [root.task[t] EXCEPT !.status = "retry_scheduled",
                                                 !.backoff = now + Backoff]
                       ELSE root.task[t]]
<1>1. root.task \in [Tasks -> Task] /\ root.paused \in BOOLEAN /\ root.strategy \in Strategy
  BY DEF Chain
<1>2. tasks \in [Tasks -> Task]
  <2>1. now + Backoff \in Nat /\ "retry_scheduled" \in Status
    BY ChainAssumption DEF Status, Waiting
  <2> QED
    BY <1>1, <2>1 DEF Task
<1>3. Retried(root) \in Chain /\ Retried(root).task = tasks
  BY <1>2 DEF Retried, Chain
<1>4. \A t \in Tasks : \/ tasks[t].status = root.task[t].status
                       \/ root.task[t].status = "failed" /\ tasks[t].status = "retry_scheduled"
  <2> TAKE t \in Tasks
  <2>1. root.task[t] \in Task
    BY <1>1
  <2>2. CASE retries(t)
    BY <2>1, <2>2 DEF Task
  <2>3. CASE ~retries(t)
    <3>1. tasks[t] = root.task[t]
      BY <2>3
    <3> QED
      BY <3>1
  <2> QED
    BY <2>2, <2>3
<1>5. Later(root, Retried(root))
  BY <1>3, <1>4 DEF Later, Running, With, StatusOf, Done
<1> QED
  BY <1>3, <1>5

\* Group timeouts start nothing and undo nothing.
LEMMA TimedOutLater ==
  ASSUME NEW root \in Chain
  PROVE  TimedOut(root) \in Chain /\ Later(root, TimedOut(root))
<1> DEFINE S == {t \in Running(root) : TimeoutGroup[t] # None /\ Expired(root, TimeoutGroup[t])}
<1>1. S \cap With(root, Done) = {}
  BY DEF Running, With, Done
<1>2. "failed" \in Status \ {"running"}
  BY DEF Status, Terminal
<1> HIDE DEF S
<1>3. SetStatus(root, S, "failed") \in Chain /\ Later(root, SetStatus(root, S, "failed"))
  BY <1>1, <1>2, SetStatusType, SetStatusLater
<1> QED
  BY <1>3 DEF TimedOut, S

\* The failure strategy starts nothing and undoes nothing.
LEMMA StruckLater ==
  ASSUME NEW root \in Chain
  PROVE  Struck(root) \in Chain /\ Later(root, Struck(root))
<1> DEFINE blocked == SetStatus(root, With(root, Waiting), "blocked")
           skipped == SetStatus(root, Tasks \ With(root, Terminal), "skipped")
<1>1. Later(root, root)
  BY DEF Later
<1>2. /\ {"blocked", "skipped"} \subseteq Status \ {"running"}
      /\ (Tasks \ With(root, Terminal)) \cap With(root, Done) = {}
  BY DEF Status, Terminal, Done, With
<1>3. skipped \in Chain /\ Later(root, skipped)
  BY <1>2, SetStatusType, SetStatusLater
<1>4. With(root, Waiting) \cap With(root, Done) = {}
  BY DEF With, Waiting, Done
<1>5. blocked \in Chain /\ Later(root, blocked)
  BY <1>2, <1>4, SetStatusType, SetStatusLater
<1> HIDE DEF blocked
<1>6. [blocked EXCEPT !.paused = TRUE] \in Chain
      /\ [blocked EXCEPT !.paused = TRUE].task = blocked.task
  BY <1>5 DEF Chain
<1>7. Later(root, [blocked EXCEPT !.paused = TRUE])
  BY <1>5, <1>6 DEF Later, Running, With, StatusOf
<1> QED
  BY <1>1, <1>3, <1>6, <1>7 DEF Struck, blocked

\* What a tick does after the selection keeps a chain good.
LEMMA PostTickGood ==
  ASSUME NEW root \in Chain, Good(root), now \in Nat
  PROVE  PostTick(root) \in Chain /\ Good(PostTick(root))
<1>1. TimedOut(root) \in Chain /\ Later(root, TimedOut(root))
  BY TimedOutLater
<1>2. Retried(TimedOut(root)) \in Chain /\ Later(TimedOut(root), Retried(TimedOut(root)))
  BY <1>1, RetriedLater
<1>3. PostTick(root) \in Chain /\ Later(Retried(TimedOut(root)), PostTick(root))
  BY <1>2, StruckLater DEF PostTick
<1>4. Later(root, PostTick(root))
  BY <1>1, <1>2, <1>3, LaterTransitive
<1> QED
  BY <1>3, <1>4, LaterGood

\* The statuses after the selected tasks are started.
LEMMA StartedStatus ==
  ASSUME NEW root \in Chain, NEW R, now \in Nat
  PROVE  /\ Started(root, R) \in Chain
         /\ \A t \in Tasks : StatusOf(Started(root, R), t)
                              = IF t \in R THEN "running" ELSE StatusOf(root, t)
<1> DEFINE start(t) == IF TimeoutGroup[t] = None THEN None ELSE now
           tasks == [t \in Tasks |-> IF t \in R
                       THEN [root.task[t] EXCEPT !.status = "running", !.attempt = @ + 1,
                                                 !.started = start(t)]
                       ELSE root.task[t]]
<1>1. root.task \in [Tasks -> Task] /\ root.paused \in BOOLEAN /\ root.strategy \in Strategy
  BY DEF Chain
<1>2. \A t \in Tasks : start(t) \in Nat \cup {None}
  OBVIOUS
<1>3. "running" \in Status
  BY DEF Status
<1>4. tasks \in [Tasks -> Task]
  <2> HIDE DEF start
  <2>1. ASSUME NEW t \in Tasks, NEW r \in Task, NEW x \in Nat \cup {None}
        PROVE  [r EXCEPT !.status = "running", !.attempt = @ + 1, !.started = x] \in Task
    <3>1. r.attempt + 1 \in Nat
      BY DEF Task
    <3> QED
      BY <1>3, <3>1 DEF Task
  <2>2. \A t \in Tasks : tasks[t] \in Task
    BY <1>1, <1>2, <2>1
  <2> QED
    BY <2>2
<1>5. \A t \in Tasks : tasks[t].status = IF t \in R THEN "running" ELSE root.task[t].status
  BY <1>1 DEF Task
<1>6. Started(root, R) \in Chain /\ Started(root, R).task = tasks
  BY <1>4 DEF Started, Chain
<1> QED
  BY <1>5, <1>6 DEF StatusOf

\* What advance_dag starts has its dependencies done and fits the limits.
LEMMA StartedGood ==
  ASSUME NEW root \in Chain, Good(root), now \in Nat,
         NEW R \in SUBSET Eligible(root), Selection(Queue(root), R)
  PROVE  Good(Started(root, R))
<1> DEFINE started == Started(root, R)
<1>1. /\ started \in Chain
      /\ \A t \in Tasks : StatusOf(started, t) = IF t \in R THEN "running" ELSE StatusOf(root, t)
  BY StartedStatus
<1>2. /\ R \subseteq Tasks
      /\ \A t \in R : StatusOf(root, t) \in Waiting /\ DependenciesMet(root, t)
  BY DEF Eligible, With
<1> HIDE DEF started
<1>3. Running(started) = Running(root) \cup R
  BY <1>1, <1>2 DEF Running, With
<1>4. With(root, Done) \subseteq With(started, Done)
  BY <1>1, <1>2 DEF With, Done, Waiting
<1>5. SettledFirst(started)
  <2> SUFFICES ASSUME NEW t \in Running(started), NEW d \in DependsOn[t]
               PROVE  StatusOf(started, d) \in Done
    BY DEF SettledFirst
  <2>1. t \in Tasks /\ d \in Tasks
    BY ChainAssumption DEF Running, With
  <2>2. StatusOf(root, d) \in Done
    BY <1>2, <1>3 DEF Good, SettledFirst, DependenciesMet
  <2> QED
    BY <1>4, <2>1, <2>2 DEF With
<1>6. CASE R = {}
  <2>1. Running(started) = Running(root)
    BY <1>3, <1>6
  <2> QED
    BY <1>5, <2>1 DEF Good, Bounded, started
<1>7. CASE R # {}
  <2>1. Cardinality(Running(started)) <= MaxConcurrent
    BY <1>3, <1>7 DEF Selection, WithinLimits, Queue
  <2>2. ASSUME NEW g \in Groups \ {None}
        PROVE  Cardinality(InGroup(Running(started), g)) <= GroupCap
    <3>1. CASE InGroup(R, g) = {}
      <4>1. InGroup(Running(started), g) = InGroup(Running(root), g)
        BY <1>3, <3>1 DEF InGroup, Members
      <4> QED
        BY <4>1 DEF Good, Bounded
    <3>2. CASE InGroup(R, g) # {}
      BY <1>3, <3>2 DEF Selection, WithinLimits, Queue, InGroup, Groups, GroupCap
    <3> QED
      BY <3>1, <3>2
  <2> QED
    BY <1>5, <2>1, <2>2 DEF Good, Bounded, started
<1> QED
  BY <1>6, <1>7

\* Starting a selection keeps a chain good.
LEMMA AdvancedGood ==
  ASSUME NEW root \in Chain, Good(root), now \in Nat, NEW R \in Selections(root)
  PROVE  Advanced(root, R) \in Chain /\ Good(Advanced(root, R))
<1>1. CASE Held(root)
  BY <1>1 DEF Advanced
<1>2. CASE ~Held(root)
  <2>1. Awake(root) \in Chain /\ Good(Awake(root))
    BY AwakeLater, LaterGood
  <2>2. R \in SUBSET Eligible(Awake(root)) /\ Selection(Queue(Awake(root)), R)
    BY <1>2 DEF Selections, Queue
  <2>3. Started(Awake(root), R) \in Chain /\ Good(Started(Awake(root), R))
    BY <2>1, <2>2, StartedStatus, StartedGood
  <2> QED
    BY <1>2, <2>3 DEF Advanced
<1> QED
  BY <1>1, <1>2

-----------------------------------------------------------------------------
(* The invariant.                                                           *)

\* Every new chain is good: nothing runs in it.
LEMMA InitInv == Init => Inv
<1> SUFFICES ASSUME Init
             PROVE  Inv
  OBVIOUS
<1>1. PICK given \in [Tasks -> Given], strategy \in Strategies :
        chain = [task |-> [t \in Tasks |-> [status |-> given[t], attempt |-> 0,
                                            started |-> None, backoff |-> 0]],
                 paused |-> FALSE, strategy |-> strategy]
  BY DEF Init
<1>2. \A t \in Tasks : given[t] \in Status \ {"running"}
  BY ChainAssumption DEF Status, Terminal, Done, Waiting
<1>3. chain \in Chain
  BY <1>1, <1>2, ChainAssumption DEF Chain, Task
<1>4. Running(chain) = {}
  BY <1>1, <1>2 DEF Running, With, StatusOf
<1>5. Good(chain)
  <2>1. Cardinality({}) = 0
    BY FS_EmptySet
  <2>2. \A g : InGroup({}, g) = {}
    BY DEF InGroup, Members
  <2>3. SettledFirst(chain)
    BY <1>4 DEF SettledFirst
  <2>4. Cardinality(Running(chain)) <= MaxConcurrent
    BY <1>4, <2>1, ChainAssumption
  <2>5. \A g \in Groups \ {None} : Cardinality(InGroup(Running(chain), g)) = 0
    BY <1>4, <2>1, <2>2
  <2>6. \A g \in Groups \ {None} : Cardinality(InGroup(Running(chain), g)) <= GroupCap
    BY <2>5, GroupCapNat
  <2> QED
    BY <2>3, <2>4, <2>6 DEF Good, Bounded
<1> QED
  BY <1>3, <1>5 DEF Inv, TypeOK, Init

\* A call writes back a good chain.
LEMMA WriteInv ==
  ASSUME Inv, NEW c \in Callers, NEW root \in Chain, Good(root), Write(c, root)
  PROVE  Inv'
<1>1. call' \in [Callers -> Chain \cup {None}] /\ chain' = root /\ now' = now
  BY DEF Inv, TypeOK, Write
<1>2. \A d \in Callers : call'[d] = call[d] \/ call'[d] = None
  BY DEF Inv, TypeOK, Write
<1>3. TypeOK'
  BY <1>1 DEF Inv, TypeOK
<1>4. Good(chain)'
  BY <1>1 DEF Good, SettledFirst, Bounded, Running, With, StatusOf, InGroup, Groups, GroupCap
<1>5. ASSUME NEW d \in Callers, call'[d] # None
      PROVE  Good(call[d])'
  <2>1. call'[d] = call[d] /\ Good(call[d])
    BY <1>2, <1>5 DEF Inv
  <2> QED
    BY <2>1 DEF Good, SettledFirst, Bounded, Running, With, StatusOf, InGroup, Groups, GroupCap
<1> QED
  BY <1>3, <1>4, <1>5 DEF Inv

\* Skip, retry and resume write back a later chain without new failures.
WritesLater(c) ==
  \E root \in Chain :
    Write(c, root) /\ Later(call[c], root) /\ SameFailures(call[c], root)

\* A skip starts nothing and undoes nothing.
LEMMA SkipLater ==
  ASSUME Inv, NEW c \in Callers, NEW t \in Tasks, Skip(c, t)
  PROVE  WritesLater(c)
<1> DEFINE root == SetStatus(call[c], {t}, "skipped")
<1>1. call[c] \in Chain
  BY DEF Inv, TypeOK, Skip
<1>2. "skipped" \in Status \ {"running", "failed"} /\ {t} \cap With(call[c], Done) = {}
  BY DEF Status, Terminal, Done, Skip, With
<1>3. root \in Chain /\ Later(call[c], root) /\ SameFailures(call[c], root)
  BY <1>1, <1>2, SetStatusType, SetStatusLater, SetStatusEntry
<1> HIDE DEF root
<1>4. Write(c, root)
  BY DEF Skip, root
<1> QED
  BY <1>3, <1>4 DEF WritesLater

\* A retry starts nothing and undoes nothing.
LEMMA RetryLater ==
  ASSUME Inv, NEW c \in Callers, NEW t \in Tasks, Retry(c, t)
  PROVE  WritesLater(c)
<1> DEFINE entry == [call[c].task[t] EXCEPT !.status = "pending", !.backoff = 0]
           root == [call[c] EXCEPT !.task[t].status = "pending", !.task[t].backoff = 0]
<1>1. call[c] \in Chain
  BY DEF Inv, TypeOK, Retry
<1>2. call[c].task \in [Tasks -> Task] /\ call[c].task[t] \in Task
  BY <1>1 DEF Chain
<1>3. entry \in Task /\ entry.status = "pending"
  BY <1>2 DEF Task, Status, Waiting
<1>4. root = [call[c] EXCEPT !.task = [call[c].task EXCEPT ![t] = entry]]
  BY <1>1, <1>2 DEF Chain, Task
<1> HIDE DEF entry, root
<1>5. root \in Chain /\ root.task = [call[c].task EXCEPT ![t] = entry]
  BY <1>1, <1>2, <1>3, <1>4 DEF Chain
<1>6. \A u \in Tasks : /\ StatusOf(root, u) = IF u = t THEN "pending" ELSE StatusOf(call[c], u)
                       /\ u # t => root.task[u] = call[c].task[u]
  BY <1>2, <1>3, <1>5 DEF StatusOf
<1>7. StatusOf(call[c], t) \notin Done /\ "pending" \notin Done
  BY DEF Retry, With, Done
<1>8. Later(call[c], root)
  BY <1>6, <1>7 DEF Later, Running, With, Done
<1>9. SameFailures(call[c], root)
  BY <1>6 DEF SameFailures
<1>10. Write(c, root)
  BY DEF Retry, root
<1> QED
  BY <1>5, <1>8, <1>9, <1>10 DEF WritesLater

\* A resume starts nothing and undoes nothing.
LEMMA ResumeLater ==
  ASSUME Inv, NEW c \in Callers, Resume(c)
  PROVE  WritesLater(c)
<1> DEFINE freed == SetStatus(call[c], With(call[c], {"blocked"}), "pending")
           root == [freed EXCEPT !.paused = FALSE]
<1>1. call[c] \in Chain
  BY DEF Inv, TypeOK, Resume
<1>2. "pending" \in Status \ {"running", "failed"}
  BY DEF Status, Waiting
<1>3. With(call[c], {"blocked"}) \cap With(call[c], Done) = {}
  BY DEF With, Done
<1>4. freed \in Chain /\ Later(call[c], freed) /\ SameFailures(call[c], freed)
  BY <1>1, <1>2, <1>3, SetStatusType, SetStatusLater, SetStatusEntry
<1> HIDE DEF freed
<1>5. root \in Chain /\ root.task = freed.task
  BY <1>4 DEF Chain
<1> HIDE DEF root
<1>6. Later(call[c], root) /\ SameFailures(call[c], root)
  BY <1>4, <1>5 DEF Later, SameFailures, Running, With, StatusOf
<1>7. Write(c, root)
  BY DEF Resume, root, freed
<1> QED
  BY <1>5, <1>6, <1>7 DEF WritesLater

\* A call that writes a later chain keeps the invariant.
LEMMA LaterInv ==
  ASSUME Inv, NEW c \in Callers, WritesLater(c)
  PROVE  Inv'
<1>1. PICK root \in Chain : Write(c, root) /\ Later(call[c], root)
  BY DEF WritesLater
<1>2. call[c] \in Chain /\ Good(call[c])
  BY <1>1 DEF Inv, TypeOK, Write
<1> QED
  BY <1>1, <1>2, LaterGood, WriteInv

\* A tick keeps the invariant.
LEMMA TickInv ==
  ASSUME Inv, NEW c \in Callers, Tick(c)
  PROVE  Inv'
<1>1. call[c] \in Chain /\ Good(call[c]) /\ now \in Nat
  BY DEF Inv, TypeOK, Tick
<1>2. PICK R \in Selections(call[c]) : Write(c, PostTick(Advanced(call[c], R)))
  BY DEF Tick
<1>3. Advanced(call[c], R) \in Chain /\ Good(Advanced(call[c], R))
  BY <1>1, AdvancedGood
<1>4. PostTick(Advanced(call[c], R)) \in Chain /\ Good(PostTick(Advanced(call[c], R)))
  BY <1>1, <1>3, PostTickGood
<1> QED
  BY <1>2, <1>4, WriteInv

\* The file changes and the calls do not.
LEMMA FileInv ==
  ASSUME Inv, chain' \in Chain, Good(chain'), now' \in Nat, UNCHANGED call
  PROVE  Inv'
<1>1. TypeOK'
  BY DEF Inv, TypeOK
<1>2. Good(chain)'
  BY DEF Good, SettledFirst, Bounded, Running, With, StatusOf, InGroup, Groups, GroupCap
<1>3. ASSUME NEW d \in Callers, call'[d] # None
      PROVE  Good(call[d])'
  <2>1. call'[d] = call[d] /\ Good(call[d])
    BY <1>3 DEF Inv
  <2> QED
    BY <2>1 DEF Good, SettledFirst, Bounded, Running, With, StatusOf, InGroup, Groups, GroupCap
<1> QED
  BY <1>1, <1>2, <1>3 DEF Inv

\* The advance on completing a goal keeps the invariant.
LEMMA CompleteInv ==
  ASSUME Inv, NEW c \in Callers, NEW t \in Tasks, Complete(c, t)
  PROVE  Inv'
<1> DEFINE root == SetStatus(chain, {t}, "completed")
<1>1. chain \in Chain /\ Good(chain) /\ now \in Nat
  BY DEF Inv, TypeOK
<1>2. "completed" \in Status \ {"running"} /\ "completed" \in Done
  BY DEF Status, Terminal, Done
<1>3. root \in Chain /\ Good(root)
  BY <1>1, <1>2, SetStatusType, SetStatusLater, LaterGood
<1> HIDE DEF root
<1>4. PICK R \in Selections(root) : chain' = Advanced(root, R)
  BY DEF Complete, root
<1>5. Advanced(root, R) \in Chain /\ Good(Advanced(root, R))
  BY <1>1, <1>3, AdvancedGood
<1>6. chain' \in Chain /\ Good(chain') /\ now' \in Nat /\ UNCHANGED call
  BY <1>1, <1>4, <1>5 DEF Complete
<1> QED
  BY <1>6, FileInv

\* Every step keeps the invariant.
LEMMA NextInv == Inv /\ [Next]_vars => Inv'
<1> SUFFICES ASSUME Inv, [Next]_vars
             PROVE  Inv'
  OBVIOUS
<1>1. ASSUME NEW c \in Callers, Load(c)
      PROVE  Inv'
  <2>1. /\ chain' = chain /\ now' = now
        /\ call' = [call EXCEPT ![c] = chain]
    BY <1>1 DEF Load
  <2>2. TypeOK'
    BY <2>1 DEF Inv, TypeOK
  <2>3. Good(chain)'
    BY <2>1 DEF Inv, Good, SettledFirst, Bounded, Running, With, StatusOf, InGroup, Groups,
                GroupCap
  <2>4. ASSUME NEW d \in Callers, call'[d] # None
        PROVE  Good(call[d])'
    <3>1. (call'[d] = chain /\ Good(chain)) \/ (call'[d] = call[d] /\ Good(call[d]))
      BY <2>1, <2>4 DEF Inv, TypeOK
    <3> QED
      BY <3>1 DEF Good, SettledFirst, Bounded, Running, With, StatusOf, InGroup, Groups, GroupCap
  <2> QED
    BY <2>2, <2>3, <2>4 DEF Inv
<1>2. ASSUME NEW c \in Callers, Refuse(c)
      PROVE  Inv'
  <2>1. chain' = chain /\ now' = now /\ call' = [call EXCEPT ![c] = None]
    BY <1>2 DEF Refuse
  <2>2. TypeOK'
    BY <2>1 DEF Inv, TypeOK
  <2>3. Good(chain)'
    BY <2>1 DEF Inv, Good, SettledFirst, Bounded, Running, With, StatusOf, InGroup, Groups,
                GroupCap
  <2>4. ASSUME NEW d \in Callers, call'[d] # None
        PROVE  Good(call[d])'
    <3>1. call'[d] = call[d] /\ Good(call[d])
      BY <2>1, <2>4 DEF Inv, TypeOK
    <3> QED
      BY <3>1 DEF Good, SettledFirst, Bounded, Running, With, StatusOf, InGroup, Groups, GroupCap
  <2> QED
    BY <2>2, <2>3, <2>4 DEF Inv
<1>3. CASE Clock \/ UNCHANGED vars
  <2>1. chain' = chain /\ call' = call /\ now' \in Nat
    BY <1>3 DEF Clock, vars, Inv, TypeOK
  <2> QED
    BY <2>1, FileInv DEF Inv, TypeOK
<1> QED
  BY <1>1, <1>2, <1>3, TickInv, ResumeLater, SkipLater, RetryLater, LaterInv, CompleteInv DEF Next

-----------------------------------------------------------------------------

\* The invariant holds throughout.
LEMMA Invariance == Spec => []Inv
BY InitInv, NextInv, PTL DEF Spec

\* Chains stay well typed, in the file and in every call.
THEOREM ChainTypeCorrect == Spec => []TypeOK
<1>1. Inv => TypeOK
  BY DEF Inv
<1> QED
  BY <1>1, Invariance, PTL

\* For every chain and any number of overlapping calls, a task that runs has
\* all its dependencies completed or skipped (dependencies_met_cached).
THEOREM DependenciesSettled == Spec => []RunsAfterDependencies
<1>1. Inv => RunsAfterDependencies
  BY DEF Inv, Good, RunsAfterDependencies
<1> QED
  BY <1>1, Invariance, PTL

\* For every chain and any number of overlapping calls, what the file says is
\* running exceeds no limit (the capacity checks of advance_dag).
THEOREM CapacityKept == Spec => []WithinCapacity
<1>1. Inv => WithinCapacity
  BY DEF Inv, Good, WithinCapacity
<1> QED
  BY <1>1, Invariance, PTL

-----------------------------------------------------------------------------
(* One call at a time: nothing changes between the read and the write of a    *)
(* call.  With two the file may go back to an older chain (ChainLostUpdate).  *)

\* There is one caller.
OneCaller == \A c, d \in Callers : c = d

\* A call holds the chain as the file has it.
Current == \A c \in Callers : call[c] # None => call[c] = chain

\* A failed task has no attempt left: the tick that fails it retries it.
Exhausted(root) ==
  \A t \in Tasks : StatusOf(root, t) = "failed" => root.task[t].attempt >= MaxAttempts[t]

\* What has ended in a has ended in b.
SameEnds(a, b) == With(a, Terminal) \subseteq With(b, Terminal)

\* A step that starts the tasks R of a chain, each after all earlier rounds.
InOrder(a, b) ==
  \A t \in Running(b) \ Running(a), u \in Tasks :
    Round[u] < Round[t] => u \in With(b, Terminal)

\* No task of a new chain is given as failed.
NoneGivenFailed == "failed" \notin Given

\* The invariant of calls that do not overlap.
OneInv == Current /\ (NoneGivenFailed => Exhausted(chain))

\* Without new failures no failed task gets an attempt back.
LEMMA SameFailuresExhausted ==
  ASSUME NEW a, NEW b, Exhausted(a), SameFailures(a, b)
  PROVE  Exhausted(b)
BY DEF Exhausted, SameFailures

\* Ends of backoffs concern scheduled retries only.
LEMMA AwakeEntries ==
  ASSUME NEW root \in Chain, now \in Nat
  PROVE  SameFailures(root, Awake(root)) /\ SameEnds(root, Awake(root))
<1>1. /\ root.task \in [Tasks -> Task]
      /\ Awake(root).task = [t \in Tasks |->
           IF root.task[t].status = "retry_scheduled" /\ now >= root.task[t].backoff
           THEN [root.task[t] EXCEPT !.status = "pending", !.backoff = 0]
           ELSE root.task[t]]
  BY DEF Awake, Chain
<1>2. ASSUME NEW t \in Tasks
      PROVE  \/ Awake(root).task[t] = root.task[t]
             \/ /\ root.task[t].status = "retry_scheduled"
                /\ Awake(root).task[t].status = "pending"
  BY <1>1 DEF Task
<1>3. SameFailures(root, Awake(root))
  BY <1>2 DEF SameFailures, StatusOf
<1>4. SameEnds(root, Awake(root))
  BY <1>2 DEF SameEnds, With, StatusOf, Terminal, Done
<1> QED BY <1>3, <1>4

\* The start of eligible tasks ends nothing and fails nothing.
LEMMA StartedEntries ==
  ASSUME NEW root \in Chain, now \in Nat, NEW R \in SUBSET With(root, Waiting)
  PROVE  /\ SameFailures(root, Started(root, R)) /\ SameEnds(root, Started(root, R))
         /\ With(root, {"completed"}) \subseteq With(Started(root, R), {"completed"})
<1>1. \A t \in Tasks : StatusOf(Started(root, R), t) = IF t \in R THEN "running" ELSE StatusOf(root, t)
  BY StartedStatus
<1>2. \A t \in Tasks : t \notin R => Started(root, R).task[t] = root.task[t]
  BY DEF Started, Chain
<1>3. \A t \in R : StatusOf(root, t) \in Waiting
  BY DEF With
<1>4. SameFailures(root, Started(root, R))
  BY <1>1, <1>2 DEF SameFailures
<1>5. SameEnds(root, Started(root, R))
  BY <1>1, <1>3 DEF SameEnds, With, Terminal, Done, Waiting
<1>6. With(root, {"completed"}) \subseteq With(Started(root, R), {"completed"})
  BY <1>1, <1>3 DEF With, Waiting
<1> QED BY <1>4, <1>5, <1>6

\* A tick that fails a task retries it if it may.
LEMMA RetriedEntries ==
  ASSUME NEW root \in Chain, now \in Nat
  PROVE  Exhausted(Retried(root))
<1>1. /\ root.task \in [Tasks -> Task]
      /\ Retried(root).task = [t \in Tasks |->
           IF root.task[t].status = "failed" /\ root.task[t].attempt < MaxAttempts[t]
           THEN [root.task[t] EXCEPT !.status = "retry_scheduled", !.backoff = now + Backoff]
           ELSE root.task[t]]
  BY DEF Retried, Chain
<1>2. ASSUME NEW t \in Tasks, Retried(root).task[t].status = "failed"
      PROVE  Retried(root).task[t].attempt >= MaxAttempts[t]
  <2>1. root.task[t] \in Task /\ root.task[t].attempt \in Nat /\ MaxAttempts[t] \in Nat
    BY <1>1, ChainAssumption DEF Task
  <2>2. ~(root.task[t].status = "failed" /\ root.task[t].attempt < MaxAttempts[t])
    <3>1. SUFFICES ASSUME root.task[t].status = "failed", root.task[t].attempt < MaxAttempts[t]
                   PROVE  FALSE
      OBVIOUS
    <3>2. Retried(root).task[t] =
            [root.task[t] EXCEPT !.status = "retry_scheduled", !.backoff = now + Backoff]
      BY <1>1, <3>1
    <3> QED BY <1>2, <2>1, <3>2 DEF Task
  <2>3. Retried(root).task[t] = root.task[t]
    BY <1>1, <2>2
  <2> QED BY <1>2, <2>1, <2>2, <2>3
<1> QED BY <1>2 DEF Exhausted, StatusOf

\* What has ended for good stays ended through the rest of a tick.
LEMMA RetriedEnds ==
  ASSUME NEW a \in Chain, NEW root \in Chain, now \in Nat, Exhausted(a), SameEnds(a, root),
         \A t \in With(a, Terminal) : root.task[t] = a.task[t]
  PROVE  SameEnds(a, Retried(root))
<1>1. ASSUME NEW t \in With(a, Terminal)
      PROVE  Retried(root).task[t] = a.task[t]
  <2>1. t \in Tasks /\ root.task[t] = a.task[t]
    BY DEF With
  <2>2. a.task[t].attempt \in Nat /\ MaxAttempts[t] \in Nat
    BY <2>1, ChainAssumption DEF Chain, Task
  <2>3. ~(root.task[t].status = "failed" /\ root.task[t].attempt < MaxAttempts[t])
    BY <2>1, <2>2 DEF Exhausted, StatusOf
  <2> QED BY <2>1, <2>3 DEF Retried, Chain
<1> QED BY <1>1 DEF SameEnds, With, StatusOf

\* The failure strategy ends tasks and fails none.
LEMMA StruckEntries ==
  ASSUME NEW root \in Chain
  PROVE  SameEnds(root, Struck(root)) /\ SameFailures(root, Struck(root))
<1> DEFINE blocked == SetStatus(root, With(root, Waiting), "blocked")
           skipped == SetStatus(root, Tasks \ With(root, Terminal), "skipped")
<1>1. {"blocked", "skipped"} \subseteq Status \ {"failed"}
  BY DEF Status, Terminal, Done
<1>2. SameFailures(root, skipped) /\ SameFailures(root, blocked) /\ blocked \in Chain
  BY <1>1, SetStatusEntry, SetStatusType
<1>3. SameEnds(root, skipped) /\ SameEnds(root, blocked)
  <2>1. \A t \in Tasks : StatusOf(skipped, t) =
          IF t \in Tasks \ With(root, Terminal) THEN "skipped" ELSE StatusOf(root, t)
    BY <1>1, SetStatusType
  <2>2. \A t \in Tasks : StatusOf(blocked, t) =
          IF t \in With(root, Waiting) THEN "blocked" ELSE StatusOf(root, t)
    BY <1>1, SetStatusType
  <2> HIDE DEF skipped, blocked
  <2> QED BY <2>1, <2>2 DEF SameEnds, With, Terminal, Waiting, Done
<1> HIDE DEF blocked, skipped
<1>4. [blocked EXCEPT !.paused = TRUE].task = blocked.task
  BY <1>2 DEF Chain
<1>5. /\ SameEnds(root, [blocked EXCEPT !.paused = TRUE])
      /\ SameFailures(root, [blocked EXCEPT !.paused = TRUE])
  BY <1>2, <1>3, <1>4 DEF SameEnds, SameFailures, With, StatusOf
<1>6. SameEnds(root, root) /\ SameFailures(root, root)
  BY DEF SameEnds, SameFailures
<1> QED BY <1>2, <1>3, <1>5, <1>6 DEF Struck, blocked, skipped

\* What a selection starts comes after all earlier rounds, and nothing else
\* changes but the ends of backoffs.
LEMMA AdvancedEntries ==
  ASSUME NEW root \in Chain, now \in Nat, NEW R \in Selections(root)
  PROVE  /\ SameFailures(root, Advanced(root, R))
         /\ With(root, {"completed"}) \subseteq With(Advanced(root, R), {"completed"})
         /\ InOrder(root, Advanced(root, R))
<1>1. CASE Held(root)
  <2>1. Advanced(root, R) = root
    BY <1>1 DEF Advanced
  <2> QED BY <2>1 DEF SameFailures, InOrder
<1>2. CASE ~Held(root)
  <2> DEFINE a == Awake(root)
             b == Started(a, R)
  <2>1. Advanced(root, R) = b /\ R \in SUBSET Eligible(a)
    BY <1>2 DEF Advanced, Selections, Queue
  <2>2. a \in Chain /\ Later(root, a) /\ SameFailures(root, a) /\ R \in SUBSET With(a, Waiting)
    BY <2>1, AwakeLater, AwakeEntries DEF Eligible
  <2>3. /\ SameFailures(a, b) /\ SameEnds(a, b)
        /\ With(a, {"completed"}) \subseteq With(b, {"completed"})
    BY <2>2, StartedEntries
  <2>4. \A t \in Tasks : StatusOf(b, t) = IF t \in R THEN "running" ELSE StatusOf(a, t)
    BY <2>2, StartedStatus
  <2>5. Running(a) = Running(root)
    <3>1. \A t \in Tasks : \/ a.task[t] = root.task[t]
                           \/ root.task[t].status # "running"
      BY DEF Awake
    <3> QED BY <2>2, <3>1 DEF Later, Running, With, StatusOf
  <2> HIDE DEF a, b
  <2>6. InOrder(root, b)
    <3> SUFFICES ASSUME NEW t \in Running(b) \ Running(root), NEW u \in Tasks, Round[u] < Round[t]
                 PROVE  u \in With(b, Terminal)
      BY DEF InOrder
    <3>1. t \in R
      BY <2>4, <2>5 DEF Running, With
    <3>2. StatusOf(a, u) \in Terminal
      BY <2>1, <3>1 DEF Eligible, BarrierOpen
    <3> QED BY <2>3, <3>2 DEF SameEnds, With
  <2> QED BY <2>1, <2>2, <2>3, <2>6 DEF SameFailures, Later
<1> QED BY <1>1, <1>2

\* The rest of a tick starts nothing, ends at most, and retries what it may.
LEMMA PostTickEntries ==
  ASSUME NEW root \in Chain, now \in Nat
  PROVE  /\ Later(root, PostTick(root)) /\ (Exhausted(root) => SameEnds(root, PostTick(root)))
         /\ Exhausted(PostTick(root))
<1> DEFINE a == TimedOut(root)
           b == Retried(a)
<1>1. a \in Chain /\ Later(root, a)
  BY TimedOutLater
<1>2. b \in Chain /\ Later(a, b) /\ Exhausted(b)
  BY <1>1, RetriedLater, RetriedEntries
<1>3. PostTick(root) = Struck(b)
  BY DEF PostTick
<1>4. \A t \in Tasks : t \notin Running(root) => a.task[t] = root.task[t]
  BY DEF TimedOut, SetStatus, Chain
<1>5. \A t \in With(root, Terminal) : a.task[t] = root.task[t]
  BY <1>4 DEF With, Running, Terminal, Done
<1>6. SameEnds(root, a)
  BY <1>5 DEF SameEnds, With, StatusOf
<1>7. Exhausted(root) => SameEnds(root, b)
  BY <1>1, <1>5, <1>6, RetriedEnds
<1> HIDE DEF a, b
<1>8. Later(b, Struck(b)) /\ SameEnds(b, Struck(b)) /\ SameFailures(b, Struck(b))
  BY <1>2, StruckLater, StruckEntries
<1>9. Exhausted(Struck(b))
  BY <1>2, <1>8, SameFailuresExhausted
<1> QED BY <1>1, <1>2, <1>3, <1>7, <1>8, <1>9, LaterTransitive DEF SameEnds

\* Within one call the file keeps what is completed, starts in order and has no
\* failure that could be retried.
StepOrdered ==
  /\ OneInv'
  /\ With(chain, {"completed"}) \subseteq With(chain', {"completed"})
  /\ NoneGivenFailed => InOrder(chain, chain')

\* Writing a chain that follows the file in order.
LEMMA WriteOrdered ==
  ASSUME OneCaller, Inv, OneInv, NEW c \in Callers, NEW root, Write(c, root),
         With(chain, {"completed"}) \subseteq With(root, {"completed"}),
         NoneGivenFailed => Exhausted(root) /\ InOrder(chain, root)
  PROVE  StepOrdered
<1>1. chain' = root /\ call' = [call EXCEPT ![c] = None] /\ call \in [Callers -> Chain \cup {None}]
  BY DEF Write, Inv, TypeOK
<1>2. \A d \in Callers : call'[d] = None
  BY <1>1 DEF OneCaller
<1>3. Current' /\ (NoneGivenFailed => Exhausted(chain)')
  BY <1>1, <1>2 DEF Current, Exhausted, StatusOf
<1> QED BY <1>1, <1>3 DEF StepOrdered, OneInv

\* A tick starts tasks in the order of their rounds.
LEMMA TickOrdered ==
  ASSUME OneCaller, Inv, OneInv, NEW c \in Callers, Tick(c)
  PROVE  StepOrdered
<1>1. /\ call[c] = chain /\ chain \in Chain /\ now \in Nat /\ Good(chain)
      /\ NoneGivenFailed => Exhausted(chain)
  BY DEF Tick, Inv, OneInv, Current, TypeOK
<1>2. PICK R \in Selections(chain) : Write(c, PostTick(Advanced(chain, R)))
  BY <1>1 DEF Tick
<1> DEFINE a == Advanced(chain, R)
           b == PostTick(a)
<1>3. a \in Chain
  BY <1>1, AdvancedGood
<1>4. /\ SameFailures(chain, a) /\ InOrder(chain, a)
      /\ With(chain, {"completed"}) \subseteq With(a, {"completed"})
  BY <1>1, AdvancedEntries
<1>5. NoneGivenFailed => Exhausted(a)
  BY <1>1, <1>4, SameFailuresExhausted
<1>6. Later(a, b) /\ (NoneGivenFailed => SameEnds(a, b)) /\ Exhausted(b)
  BY <1>1, <1>3, <1>5, PostTickEntries
<1> HIDE DEF a, b
<1>7. NoneGivenFailed => InOrder(chain, b)
  BY <1>4, <1>6 DEF InOrder, Later, SameEnds
<1>8. With(chain, {"completed"}) \subseteq With(b, {"completed"})
  BY <1>4, <1>6 DEF Later
<1>9. Write(c, b)
  BY <1>2 DEF a, b
<1> QED BY <1>6, <1>7, <1>8, <1>9, WriteOrdered

\* Skip, retry and resume start nothing.
LEMMA LaterOrdered ==
  ASSUME OneCaller, Inv, OneInv, NEW c \in Callers, WritesLater(c)
  PROVE  StepOrdered
<1>1. PICK root \in Chain : Write(c, root) /\ Later(call[c], root) /\ SameFailures(call[c], root)
  BY DEF WritesLater
<1>2. call[c] = chain /\ (NoneGivenFailed => Exhausted(chain))
  BY <1>1 DEF Write, OneInv, Current
<1>3. InOrder(chain, root)
  BY <1>1, <1>2 DEF InOrder, Later
<1>4. NoneGivenFailed => Exhausted(root)
  BY <1>1, <1>2, SameFailuresExhausted
<1> QED BY <1>1, <1>2, <1>3, <1>4, WriteOrdered DEF Later

\* Completing a goal advances the chain in the order of the rounds.
LEMMA CompleteOrdered ==
  ASSUME OneCaller, Inv, OneInv, NEW c \in Callers, NEW t \in Tasks, Complete(c, t)
  PROVE  StepOrdered
<1> DEFINE root == SetStatus(chain, {t}, "completed")
<1>1. chain \in Chain /\ Good(chain) /\ now \in Nat /\ (NoneGivenFailed => Exhausted(chain))
  BY DEF Inv, TypeOK, OneInv
<1>2. "completed" \in Status \ {"running", "failed"}
  BY DEF Status, Terminal, Done
<1>3. /\ root \in Chain /\ Later(chain, root) /\ SameFailures(chain, root)
  BY <1>1, <1>2, SetStatusType, SetStatusLater, SetStatusEntry
<1>4. Running(root) = Running(chain) \ {t}
  BY <1>1, <1>2, SetStatusType DEF Running, With
<1> HIDE DEF root
<1>5. PICK R \in Selections(root) : chain' = Advanced(root, R)
  BY DEF Complete, root
<1>6. /\ SameFailures(root, chain') /\ InOrder(root, chain')
      /\ With(root, {"completed"}) \subseteq With(chain', {"completed"})
  BY <1>1, <1>3, <1>5, AdvancedEntries
<1>7. NoneGivenFailed => Exhausted(chain')
  BY <1>1, <1>3, <1>6, SameFailuresExhausted
<1>8. InOrder(chain, chain')
  BY <1>4, <1>6 DEF InOrder
<1>9. Current'
  BY DEF Complete, Current, OneCaller
<1>10. NoneGivenFailed => Exhausted(chain)'
  BY <1>7 DEF Exhausted, StatusOf
<1> QED BY <1>3, <1>6, <1>8, <1>9, <1>10 DEF StepOrdered, OneInv, Later

\* Every step keeps the order of the rounds.
LEMMA NextOrdered ==
  ASSUME OneCaller, Inv, OneInv, [Next]_vars
  PROVE  StepOrdered
<1>1. ASSUME chain' = chain, Current'
      PROVE  StepOrdered
  BY <1>1 DEF StepOrdered, OneInv, InOrder, Exhausted, StatusOf
<1>2. ASSUME NEW c \in Callers, Load(c)
      PROVE  StepOrdered
  BY <1>1, <1>2 DEF Load, Inv, TypeOK, OneCaller, Current
<1>3. ASSUME NEW c \in Callers, Refuse(c)
      PROVE  StepOrdered
  BY <1>1, <1>3 DEF Refuse, Inv, TypeOK, OneInv, Current
<1>4. CASE Clock \/ UNCHANGED vars
  BY <1>1, <1>4 DEF Clock, vars, OneInv, Current
<1> QED
  BY <1>2, <1>3, <1>4, TickOrdered, ResumeLater, SkipLater, RetryLater, LaterOrdered,
     CompleteOrdered DEF Next

\* Nobody holds a copy at first, and nothing has failed unless it was given so.
LEMMA InitOne == Init => OneInv
<1> SUFFICES ASSUME Init
             PROVE  OneInv
  OBVIOUS
<1>1. PICK given \in [Tasks -> Given], strategy \in Strategies :
        chain = [task |-> [t \in Tasks |-> [status |-> given[t], attempt |-> 0,
                                            started |-> None, backoff |-> 0]],
                 paused |-> FALSE, strategy |-> strategy]
  BY DEF Init
<1>2. ASSUME NoneGivenFailed, NEW t \in Tasks
      PROVE  StatusOf(chain, t) # "failed"
  BY <1>1, <1>2 DEF StatusOf, NoneGivenFailed
<1> QED BY <1>2 DEF OneInv, Current, Exhausted, Init

\* When calls do not overlap, completed work is never undone: by no tick,
\* failure strategy, skip, retry or resume (is_terminal).
THEOREM CompletedStays ==
  ASSUME OneCaller
  PROVE  Spec => CompletionKept
<1>1. Inv /\ OneInv /\ [Next]_vars =>
        OneInv' /\ [With(chain, {"completed"}) \subseteq With(chain', {"completed"})]_vars
  BY NextOrdered DEF StepOrdered
<1> QED BY <1>1, InitOne, Invariance, PTL DEF Spec, CompletionKept

\* When calls do not overlap and no task of a new chain is given as failed, a
\* task starts only after every task of every earlier round has ended (the round
\* barrier of advance_dag).
THEOREM RoundsFollow ==
  ASSUME OneCaller, NoneGivenFailed
  PROVE  Spec => RoundsInOrder
<1> DEFINE Ordered == \A t \in Running(chain') \ Running(chain), u \in Tasks :
                        Round[u] < Round[t] => u \in With(chain', Terminal)
<1>1. Inv /\ OneInv /\ [Next]_vars => OneInv' /\ [Ordered]_vars
  BY NextOrdered DEF StepOrdered, InOrder
<1> QED BY <1>1, InitOne, Invariance, PTL DEF Spec, RoundsInOrder

-----------------------------------------------------------------------------
(* Numbers, iteration and counting.                                         *)

\* A set of numbers that is not empty has a least one.
LEMMA LeastNumber ==
  ASSUME NEW S \in SUBSET Nat, S # {}
  PROVE  \E n \in S : \A m \in S : n <= m
<1> DEFINE R == {p \in Nat \X Nat : p[1] < p[2]}
<1>1. IsWellFoundedOn(R, Nat)
  BY NatLessThanWellFounded DEF OpToRel
<1>2. PICK n \in S : \A m \in S : <<m, n>> \notin R
  <2> HIDE DEF R
  <2> QED
    BY <1>1, WFMin
<1>3. \A m \in S : ~(m < n)
  BY <1>2
<1> QED
  BY <1>3

\* Induction on numbers, for a set instead of a predicate.
LEMMA NumberInduction ==
  ASSUME NEW S, 0 \in S, \A n \in Nat : n \in S => n + 1 \in S
  PROVE  \A n \in Nat : n \in S
<1> SUFFICES ASSUME Nat \ S # {} PROVE FALSE
  OBVIOUS
<1>1. PICK n \in Nat \ S : \A m \in Nat \ S : n <= m
  BY LeastNumber
<1>2. n - 1 \in Nat /\ n - 1 \in S
  BY <1>1
<1> QED
  BY <1>1, <1>2

\* k steps within X, each a function of the value and of the step's number.
IsStep(step, X, k) == step \in [X -> [1..k -> X]]

\* The values that the steps lead to, one after another from x.
HasIterate(step, x, X, k) ==
  \E f \in [0..k -> X] : f[0] = x /\ \A n \in 1..k : f[n] = step[f[n - 1]][n]

\* Iterating a step from a value gives a function.
LEMMA Iteration ==
  ASSUME NEW X, NEW x \in X, NEW k \in Nat, NEW step, IsStep(step, X, k)
  PROVE  HasIterate(step, x, X, k)
<1> USE DEF IsStep, HasIterate
<1> DEFINE Up(f, m) == f[0] = x /\ \A n \in 1..m : f[n] = step[f[n - 1]][n]
           Reached(m) == m <= k => \E f \in [0..m -> X] : Up(f, m)
           S == {m \in Nat : Reached(m)}
<1>1. 0 \in S
  <2>1. [n \in 0..0 |-> x] \in [0..0 -> X] /\ Up([n \in 0..0 |-> x], 0)
    OBVIOUS
  <2> QED
    BY <2>1
<1>2. ASSUME NEW m \in Nat, Reached(m) PROVE Reached(m + 1)
  <2> SUFFICES ASSUME m + 1 <= k PROVE \E f \in [0..(m + 1) -> X] : Up(f, m + 1)
    OBVIOUS
  <2>1. PICK f \in [0..m -> X] : Up(f, m)
    <3>1. m <= k
      OBVIOUS
    <3> HIDE DEF Up
    <3> QED
      BY <1>2, <3>1
  <2>2. m + 1 \in 1..k /\ f[m] \in X
    OBVIOUS
  <2>3. step[f[m]][m + 1] \in X
    BY <2>2
  <2> DEFINE g == [n \in 0..(m + 1) |-> IF n = m + 1 THEN step[f[m]][m + 1] ELSE f[n]]
  <2>4. g \in [0..(m + 1) -> X]
    BY <2>3
  <2>5. \A n \in 0..m : g[n] = f[n]
    OBVIOUS
  <2>6. g[m + 1] = step[g[m]][m + 1]
    BY <2>5
  <2>7. ASSUME NEW n \in 1..(m + 1) PROVE g[n] = step[g[n - 1]][n]
    <3>1. CASE n = m + 1
      BY <3>1, <2>6
    <3>2. CASE n # m + 1
      <4>1. n \in 1..m /\ n \in 0..m /\ n - 1 \in 0..m
        BY <3>2
      <4> HIDE DEF g
      <4> QED
        BY <4>1, <2>1, <2>5
    <3> QED
      BY <3>1, <3>2
  <2>8. Up(g, m + 1)
    <3>1. g[0] = x
      <4>1. 0 \in 0..m
        OBVIOUS
      <4> HIDE DEF g
      <4> QED
        BY <2>1, <2>5, <4>1
    <3> HIDE DEF g
    <3> QED
      BY <2>7, <3>1
  <2> HIDE DEF g
  <2> QED
    BY <2>4, <2>8
<1>3. k \in S
  <2>1. \A m \in Nat : m \in S => m + 1 \in S
    <3> HIDE DEF Reached
    <3> QED
      BY <1>2
  <2> HIDE DEF S
  <2> QED
    BY <1>1, <2>1, NumberInduction
<1> QED
  BY <1>3

-----------------------------------------------------------------------------
(* The round-robin.                                                         *)

\* An order of the groups is a sequence.
LEMMA OrderType ==
  ASSUME NEW q, IsQueue(q), NEW order \in Orders(q)
  PROVE  /\ Len(order) \in Nat /\ DOMAIN order = 1..Len(order)
         /\ \A i \in 1..Len(order) : order[i] \in Offered(q)
         /\ \A i, j \in 1..Len(order) : order[i] = order[j] => i = j
         /\ \A g \in Offered(q) : \E i \in 1..Len(order) : order[i] = g
<1> DEFINE k == Cardinality(Offered(q))
<1>1. IsFiniteSet(Offered(q))
  <2> DEFINE f == [t \in q.eligible |-> q.group[t]]
  <2>1. f \in Surjection(q.eligible, Offered(q))
    BY DEF Offered, Surjection
  <2> QED
    BY <2>1, FS_Surjection DEF IsQueue
<1>2. k \in Nat
  BY <1>1, FS_CardinalityType
<1>3. order \in [1..k -> Offered(q)]
  BY DEF Orders
<1>4. order \in Seq(Offered(q)) /\ Len(order) = k
  BY <1>2, <1>3
<1> QED
  BY <1>2, <1>3, <1>4 DEF Orders

\* An offer adds an eligible task or nothing.
LEMMA OfferType ==
  ASSUME NEW q, IsQueue(q), NEW ready \in SUBSET q.eligible, NEW g
  PROVE  Offer(q, ready, g) \in SUBSET q.eligible
<1> DEFINE left == Members(q.group, q.eligible, g) \ ready
<1>1. left \in SUBSET Nat /\ left \subseteq q.eligible
  BY DEF IsQueue, Members
<1>2. left # {} => First(left) \in left
  BY <1>1, LeastNumber DEF First
<1> QED
  BY <1>1, <1>2 DEF Offer

\* What a pass does, one offer after another.
LEMMA PassSteps ==
  ASSUME NEW q, IsQueue(q), NEW order \in Orders(q), NEW ready \in SUBSET q.eligible
  PROVE  \E after \in [0..Len(order) -> SUBSET q.eligible] :
           /\ after[0] = ready
           /\ \A n \in 1..Len(order) : after[n] = Offer(q, after[n - 1], order[n])
           /\ Pass(q, order, ready) = after[Len(order)]
<1> DEFINE k == Len(order)
           X == SUBSET q.eligible
           step == [r \in X |-> [n \in 1..k |-> Offer(q, r, order[n])]]
           after[n \in 0..k] == IF n = 0 THEN ready ELSE Offer(q, after[n - 1], order[n])
<1>1. k \in Nat
  BY OrderType
<1>2. step \in [X -> [1..k -> X]]
  BY OfferType
<1>3. PICK f \in [0..k -> X] : f[0] = ready /\ \A n \in 1..k : f[n] = step[f[n - 1]][n]
  <2>1. IsStep(step, X, k) /\ ready \in X
    BY <1>2 DEF IsStep
  <2>2. HasIterate(step, ready, X, k)
    <3> HIDE DEF step, X, k
    <3> QED
      BY <1>1, <2>1, Iteration
  <2> HIDE DEF step, X, k
  <2> QED
    BY <2>2 DEF HasIterate
<1>4. \A n \in 1..k : f[n] = Offer(q, f[n - 1], order[n])
  <2> SUFFICES ASSUME NEW n \in 1..k PROVE f[n] = Offer(q, f[n - 1], order[n])
    OBVIOUS
  <2>1. f[n - 1] \in X
    BY <1>1
  <2> HIDE DEF X
  <2> QED BY <1>3, <2>1
<1>5. f = [n \in 0..k |-> IF n = 0 THEN ready ELSE Offer(q, f[n - 1], order[n])]
  <2>1. DOMAIN f = 0..k
    OBVIOUS
  <2>2. \A n \in 0..k : f[n] = IF n = 0 THEN ready ELSE Offer(q, f[n - 1], order[n])
    BY <1>1, <1>3, <1>4
  <2> QED BY <2>1, <2>2
<1>6. after = [n \in 0..k |-> IF n = 0 THEN ready ELSE Offer(q, after[n - 1], order[n])]
  BY <1>5
<1>7. Pass(q, order, ready) = after[k]
  BY DEF Pass
<1>8. after[0] = ready /\ \A n \in 1..k : after[n] = Offer(q, after[n - 1], order[n])
  BY <1>1, <1>6
<1>9. DOMAIN after = 0..k
  BY <1>6
<1> HIDE DEF after
<1>10. after = [n \in 0..k |-> after[n]]
  BY <1>6, <1>9
<1>11. \A n \in 0..k : after[n] \in X
  <2> DEFINE S == {m \in Nat : m <= k => after[m] \in X}
  <2>1. 0 \in S
    BY <1>8
  <2>2. ASSUME NEW m \in Nat, m \in S PROVE m + 1 \in S
    <3>1. m + 1 <= k => m + 1 \in 1..k /\ (m + 1) - 1 = m
      BY <1>1
    <3>2. m + 1 <= k => after[m + 1] = Offer(q, after[m], order[m + 1])
      BY <1>8, <3>1
    <3> QED
      BY <1>1, <2>2, <3>2, OfferType
  <2> HIDE DEF S
  <2>3. \A m \in Nat : m \in S
    BY <2>1, <2>2, NumberInduction
  <2> QED
    BY <1>1, <2>3 DEF S
<1>12. after \in [0..k -> X]
  BY <1>10, <1>11
<1> QED
  BY <1>7, <1>8, <1>12

\* The tasks of group g in R.
Taken(q, R, g) == Cardinality(Members(q.group, R, g))

\* With R chosen the chain is at its capacity.
Full(q, R) == Cardinality(q.running) + Cardinality(R) >= q.limit

\* Disjoint finite sets count separately.
LEMMA DisjointUnion ==
  ASSUME NEW S, IsFiniteSet(S), NEW T, IsFiniteSet(T), S \cap T = {}
  PROVE  /\ Cardinality(S) \in Nat /\ Cardinality(T) \in Nat /\ IsFiniteSet(S \cup T)
         /\ Cardinality(S \cup T) = Cardinality(S) + Cardinality(T)
<1>1. Cardinality(S) \in Nat /\ Cardinality(T) \in Nat
  BY FS_CardinalityType
<1>2. Cardinality(S \cap T) = 0
  BY FS_EmptySet
<1>3. /\ IsFiniteSet(S \cup T)
      /\ Cardinality(S \cup T) = Cardinality(S) + Cardinality(T) - Cardinality(S \cap T)
  BY FS_Union
<1> QED
  BY <1>1, <1>2, <1>3

\* What is ready and what runs count separately.
LEMMA Counts ==
  ASSUME NEW q, IsQueue(q), NEW R \in SUBSET q.eligible
  PROVE  /\ IsFiniteSet(R) /\ Cardinality(R) \in Nat /\ Cardinality(q.running) \in Nat
         /\ Cardinality(q.running \cup R) = Cardinality(q.running) + Cardinality(R)
         /\ \A g : /\ IsFiniteSet(Members(q.group, R, g)) /\ Taken(q, R, g) \in Nat
                   /\ Taken(q, R, g) <= Cardinality(R)
                   /\ Cardinality(Members(q.group, q.running, g)) \in Nat
                   /\ IsFiniteSet(Members(q.group, q.running \cup R, g))
                   /\ Cardinality(Members(q.group, q.running \cup R, g))
                        = Cardinality(Members(q.group, q.running, g)) + Taken(q, R, g)
<1>1. /\ IsFiniteSet(R) /\ IsFiniteSet(q.running) /\ q.running \cap R = {}
      /\ IsFiniteSet(q.running \cup R)
  BY FS_Subset, FS_Union DEF IsQueue
<1>2. /\ Cardinality(R) \in Nat /\ Cardinality(q.running) \in Nat
      /\ Cardinality(q.running \cup R) = Cardinality(q.running) + Cardinality(R)
  BY <1>1, DisjointUnion
<1>3. ASSUME NEW g
      PROVE  /\ IsFiniteSet(Members(q.group, R, g)) /\ Taken(q, R, g) \in Nat
             /\ Taken(q, R, g) <= Cardinality(R)
             /\ Cardinality(Members(q.group, q.running, g)) \in Nat
             /\ IsFiniteSet(Members(q.group, q.running \cup R, g))
             /\ Cardinality(Members(q.group, q.running \cup R, g))
                  = Cardinality(Members(q.group, q.running, g)) + Taken(q, R, g)
  <2> DEFINE A == Members(q.group, q.running, g)
             B == Members(q.group, R, g)
  <2>1. /\ A \subseteq q.running /\ B \subseteq R /\ A \cap B = {}
        /\ Members(q.group, q.running \cup R, g) = A \cup B
    BY <1>1 DEF Members
  <2>2. IsFiniteSet(A) /\ IsFiniteSet(B) /\ Cardinality(B) <= Cardinality(R)
    BY <1>1, <2>1, FS_Subset
  <2>3. /\ Cardinality(A) \in Nat /\ Cardinality(B) \in Nat /\ IsFiniteSet(A \cup B)
        /\ Cardinality(A \cup B) = Cardinality(A) + Cardinality(B)
    <3> HIDE DEF A, B
    <3> QED
      BY <2>1, <2>2, DisjointUnion
  <2> QED
    BY <2>1, <2>2, <2>3 DEF Taken
<1> QED
  BY <1>1, <1>2, <1>3

\* A task that gets ready adds one to its group and leaves the others alone.
LEMMA AddOne ==
  ASSUME NEW q, IsQueue(q), NEW R \in SUBSET q.eligible, NEW t \in q.eligible \ R
  PROVE  /\ R \cup {t} \in SUBSET q.eligible
         /\ Cardinality(R \cup {t}) = Cardinality(R) + 1
         /\ Taken(q, R \cup {t}, q.group[t]) = Taken(q, R, q.group[t]) + 1
         /\ \A h : h # q.group[t] => Members(q.group, R \cup {t}, h) = Members(q.group, R, h)
<1>1. Cardinality(R \cup {t}) = Cardinality(R) + 1
  BY Counts, FS_AddElement
<1>2. Taken(q, R \cup {t}, q.group[t]) = Taken(q, R, q.group[t]) + 1
  <2> DEFINE B == Members(q.group, R, q.group[t])
  <2>1. Members(q.group, R \cup {t}, q.group[t]) = B \cup {t} /\ t \notin B
    BY DEF Members
  <2>2. IsFiniteSet(B)
    BY Counts
  <2> HIDE DEF B
  <2>3. Cardinality(B \cup {t}) = Cardinality(B) + 1
    BY <2>1, <2>2, FS_AddElement
  <2> QED
    BY <2>1, <2>3 DEF Taken, B
<1>3. \A h : h # q.group[t] => Members(q.group, R \cup {t}, h) = Members(q.group, R, h)
  BY DEF Members
<1> QED
  BY <1>1, <1>2, <1>3

\* The capacity of a group is a number.
LEMMA CapType == ASSUME NEW q, IsQueue(q) PROVE Cap(q.limit) \in Nat
BY DEF IsQueue, Cap

\* A group that may start nothing more stays so when more gets ready.
LEMMA SpentStays ==
  ASSUME NEW q, IsQueue(q), NEW R \in SUBSET q.eligible, NEW T \in SUBSET R, NEW g,
         Spent(q, T, g)
  PROVE  Spent(q, R, g)
<1>1. CASE Members(q.group, q.eligible, g) \subseteq T
  BY <1>1 DEF Spent
<1>2. CASE g # None /\ Cardinality(Members(q.group, q.running \cup T, g)) >= Cap(q.limit)
  <2>1. Members(q.group, q.running \cup T, g) \subseteq Members(q.group, q.running \cup R, g)
    BY DEF Members
  <2>2. /\ Cardinality(Members(q.group, q.running \cup T, g)) \in Nat
        /\ Cardinality(Members(q.group, q.running \cup R, g)) \in Nat
        /\ Cardinality(Members(q.group, q.running \cup T, g))
              <= Cardinality(Members(q.group, q.running \cup R, g))
    BY <2>1, Counts, FS_Subset, FS_CardinalityType
  <2> QED
    BY <1>2, <2>2, CapType DEF Spent
<1> QED
  BY <1>1, <1>2 DEF Spent

\* Each group gives its first tasks.
TaskOrder(q, R) ==
  \A t \in R, u \in q.eligible : q.group[u] = q.group[t] /\ u < t => u \in R

\* A group gets two more than another only if that one is spent.
Fair(q, R) ==
  \A g, h \in AllGroups(q.group) : Taken(q, R, g) > Taken(q, R, h) + 1 => Spent(q, R, h)

\* The tasks of g that are due after n passes, the groups served in the next.
Due(n, served, g) == IF g \in served THEN n + 1 ELSE n

\* No group has more than it is due, and one has less only if nothing of it fits.
Level(q, R, n, served) ==
  \A g \in AllGroups(q.group) :
    /\ Taken(q, R, g) <= Due(n, served, g)
    /\ Full(q, R) \/ Spent(q, R, g) \/ Taken(q, R, g) = Due(n, served, g)

\* R is what n passes, and offers to the groups served in the next, make ready.
Dealt(q, R, n, served) ==
  /\ R \in SUBSET q.eligible
  /\ WithinLimits(q, R) /\ TaskOrder(q, R) /\ Fair(q, R) /\ Level(q, R, n, served)

\* The task an offer adds is the first that its group has left, and fits.
LEMMA OfferAdds ==
  ASSUME NEW q, IsQueue(q), NEW R \in SUBSET q.eligible, NEW g
  PROVE  \/ Offer(q, R, g) = R /\ (Full(q, R) \/ Spent(q, R, g))
         \/ \E t \in q.eligible \ R :
              /\ Offer(q, R, g) = R \cup {t} /\ q.group[t] = g
              /\ \A u \in q.eligible \ R : q.group[u] = g => t <= u
              /\ ~Full(q, R) /\ ~Spent(q, R, g)
              /\ g # None => Cardinality(Members(q.group, q.running \cup R, g)) < Cap(q.limit)
<1> DEFINE left == Members(q.group, q.eligible, g) \ R
           capped == g # None /\ Cardinality(Members(q.group, q.running, g))
                                   + Cardinality(Members(q.group, R, g)) >= Cap(q.limit)
<1>1. capped <=> g # None /\ Cardinality(Members(q.group, q.running \cup R, g)) >= Cap(q.limit)
  BY Counts DEF Taken
<1>2. Spent(q, R, g) <=> left = {} \/ capped
  BY <1>1 DEF Spent
<1>3. Offer(q, R, g) = IF Full(q, R) \/ left = {} \/ capped THEN R ELSE R \cup {First(left)}
  BY DEF Offer, Full
<1>4. CASE Full(q, R) \/ left = {} \/ capped
  BY <1>2, <1>3, <1>4
<1>5. CASE ~Full(q, R) /\ left # {} /\ ~capped
  <2>1. left \in SUBSET Nat /\ left \subseteq q.eligible \ R
    BY DEF IsQueue, Members
  <2>2. First(left) \in left /\ \A u \in left : First(left) <= u
    BY <1>5, <2>1, LeastNumber DEF First
  <2>3. g # None => Cardinality(Members(q.group, q.running \cup R, g)) < Cap(q.limit)
    <3>1. Cardinality(Members(q.group, q.running \cup R, g)) \in Nat
      BY Counts, FS_CardinalityType
    <3> QED
      BY <1>1, <1>5, <3>1, CapType
  <2>4. q.group[First(left)] = g /\ \A u \in q.eligible \ R : q.group[u] = g => u \in left
    BY <2>2 DEF Members
  <2> HIDE DEF left
  <2> QED
    BY <1>2, <1>3, <1>5, <2>1, <2>2, <2>3, <2>4
<1> QED
  BY <1>4, <1>5

\* An offer to a group that was not served yet serves it.
LEMMA OfferDeals ==
  ASSUME NEW q, IsQueue(q), NEW R, NEW n \in Nat, NEW served, Dealt(q, R, n, served),
         NEW g \in AllGroups(q.group) \ served
  PROVE  Dealt(q, Offer(q, R, g), n, served \cup {g})
<1>1. R \in SUBSET q.eligible
  BY DEF Dealt
<1>2. \A h : Taken(q, R, h) \in Nat
  BY <1>1, Counts
<1>3. \A h : Due(n, served, h) \in Nat
  BY DEF Due
<1>4. /\ Due(n, served, g) = n /\ Due(n, served \cup {g}, g) = n + 1
      /\ \A h : h # g => Due(n, served \cup {g}, h) = Due(n, served, h)
  BY DEF Due
<1>5. CASE Offer(q, R, g) = R /\ (Full(q, R) \/ Spent(q, R, g))
  <2>1. Level(q, R, n, served \cup {g})
    <3> SUFFICES ASSUME NEW h \in AllGroups(q.group)
                 PROVE  /\ Taken(q, R, h) <= Due(n, served \cup {g}, h)
                        /\ \/ Full(q, R) \/ Spent(q, R, h)
                           \/ Taken(q, R, h) = Due(n, served \cup {g}, h)
      BY DEF Level
    <3>1. CASE h = g
      BY <1>2, <1>4, <1>5, <3>1 DEF Dealt, Level
    <3>2. CASE h # g
      BY <1>2, <1>4, <3>2 DEF Dealt, Level
    <3> QED
      BY <3>1, <3>2
  <2> QED
    BY <1>5, <2>1 DEF Dealt
<1>6. ASSUME NEW t \in q.eligible \ R,
             Offer(q, R, g) = R \cup {t}, q.group[t] = g,
             \A u \in q.eligible \ R : q.group[u] = g => t <= u,
             ~Full(q, R), ~Spent(q, R, g),
             g # None => Cardinality(Members(q.group, q.running \cup R, g)) < Cap(q.limit)
      PROVE  Dealt(q, Offer(q, R, g), n, served \cup {g})
  <2> DEFINE M == R \cup {t}
  <2>1. /\ M \in SUBSET q.eligible /\ Cardinality(M) = Cardinality(R) + 1
        /\ Taken(q, M, g) = Taken(q, R, g) + 1
        /\ \A h : h # g => Members(q.group, M, h) = Members(q.group, R, h)
    BY <1>1, <1>6, AddOne
  <2>2. \A h : h # g => Taken(q, M, h) = Taken(q, R, h)
    BY <2>1 DEF Taken
  <2>3. Taken(q, R, g) = n
    BY <1>4, <1>6 DEF Dealt, Level
  <2>4. \A h \in AllGroups(q.group) : Spent(q, R, h) => Spent(q, M, h)
    BY <2>1, SpentStays
  <2>5. WithinLimits(q, M)
    <3>1. Cardinality(q.running \cup M) <= q.limit
      <4>1. /\ Cardinality(R) \in Nat /\ Cardinality(q.running) \in Nat /\ q.limit \in Nat
            /\ Cardinality(q.running \cup M) = Cardinality(q.running) + Cardinality(M)
        <5> HIDE DEF M
        <5> QED
          BY <1>1, <2>1, Counts DEF IsQueue
      <4> QED
        BY <1>6, <2>1, <4>1 DEF Full
    <3>2. ASSUME NEW h \in AllGroups(q.group) \ {None}, Members(q.group, M, h) # {}
          PROVE  Cardinality(Members(q.group, q.running \cup M, h)) <= Cap(q.limit)
      <4>1. CASE h = g
        <5>1. /\ Cardinality(Members(q.group, q.running \cup R, g)) \in Nat
              /\ Cardinality(Members(q.group, q.running \cup M, g))
                   = Cardinality(Members(q.group, q.running \cup R, g)) + 1
          <6> HIDE DEF M
          <6>1. /\ Taken(q, R, g) \in Nat
                /\ Cardinality(Members(q.group, q.running, g)) \in Nat
                /\ Cardinality(Members(q.group, q.running \cup R, g))
                     = Cardinality(Members(q.group, q.running, g)) + Taken(q, R, g)
            BY <1>1, Counts
          <6>2. Cardinality(Members(q.group, q.running \cup M, g))
                  = Cardinality(Members(q.group, q.running, g)) + Taken(q, M, g)
            BY <2>1, Counts
          <6> QED
            BY <2>1, <6>1, <6>2
        <5> QED
          BY <1>6, <4>1, <5>1, CapType
      <4>2. CASE h # g
        <5>1. /\ Members(q.group, M, h) = Members(q.group, R, h)
              /\ Members(q.group, q.running \cup M, h) = Members(q.group, q.running \cup R, h)
          BY <1>6, <4>2 DEF Members
        <5> QED
          BY <3>2, <5>1 DEF Dealt, WithinLimits
      <4> QED
        BY <4>1, <4>2
    <3> QED
      BY <3>1, <3>2 DEF WithinLimits
  <2>6. TaskOrder(q, M)
    <3> SUFFICES ASSUME NEW a \in M, NEW u \in q.eligible, q.group[u] = q.group[a], u < a
                 PROVE  u \in M
      BY DEF TaskOrder
    <3>1. CASE a = t
      BY <1>6, <3>1 DEF IsQueue
    <3>2. CASE a \in R
      BY <3>2 DEF Dealt, TaskOrder
    <3> QED
      BY <3>1, <3>2
  <2>7. Fair(q, M)
    <3> SUFFICES ASSUME NEW a \in AllGroups(q.group), NEW h \in AllGroups(q.group),
                        Taken(q, M, a) > Taken(q, M, h) + 1
                 PROVE  Spent(q, M, h)
      BY DEF Fair
    <3>1. Taken(q, M, h) >= Taken(q, R, h)
      <4> HIDE DEF M
      <4>1. Taken(q, R, h) \in Nat /\ Taken(q, R, g) \in Nat
        BY <1>2
      <4> QED
        BY <2>1, <2>2, <4>1
    <3>2. CASE a = g
      <4>1. h # g /\ Taken(q, R, h) < n
        <5> HIDE DEF M
        <5>1. Taken(q, R, h) \in Nat
          BY <1>2
        <5> QED
          BY <2>1, <2>2, <2>3, <3>2, <5>1
      <4>2. Taken(q, R, h) # Due(n, served, h)
        BY <1>2, <4>1 DEF Due
      <4>3. Spent(q, R, h)
        BY <1>6, <4>2 DEF Dealt, Level
      <4> QED
        BY <2>4, <4>3
    <3>3. CASE a # g
      <4>1. Taken(q, R, a) > Taken(q, R, h) + 1
        <5> HIDE DEF M
        <5>1. Taken(q, R, h) \in Nat /\ Taken(q, R, a) \in Nat /\ Taken(q, M, h) \in Nat
          BY <1>1, <1>2, <2>1, Counts
        <5> QED
          BY <2>2, <3>1, <3>3, <5>1
      <4>2. Spent(q, R, h)
        BY <4>1 DEF Dealt, Fair
      <4> QED
        BY <2>4, <4>2
    <3> QED
      BY <3>2, <3>3
  <2>8. Level(q, M, n, served \cup {g})
    <3> SUFFICES ASSUME NEW h \in AllGroups(q.group)
                 PROVE  /\ Taken(q, M, h) <= Due(n, served \cup {g}, h)
                        /\ \/ Full(q, M) \/ Spent(q, M, h)
                           \/ Taken(q, M, h) = Due(n, served \cup {g}, h)
      BY DEF Level
    <3>1. CASE h = g
      BY <1>4, <2>1, <2>3, <3>1
    <3>2. CASE h # g
      <4>1. /\ Taken(q, R, h) <= Due(n, served, h)
            /\ Spent(q, R, h) \/ Taken(q, R, h) = Due(n, served, h)
        BY <1>6 DEF Dealt, Level
      <4> QED
        BY <1>4, <2>2, <2>4, <3>2, <4>1
    <3> QED
      BY <3>1, <3>2
  <2> HIDE DEF M
  <2>9. Offer(q, R, g) = M
    BY <1>6 DEF M
  <2> QED
    BY <2>1, <2>5, <2>6, <2>7, <2>8, <2>9 DEF Dealt
<1>7. CASE \E t \in q.eligible \ R :
              /\ Offer(q, R, g) = R \cup {t} /\ q.group[t] = g
              /\ \A u \in q.eligible \ R : q.group[u] = g => t <= u
              /\ ~Full(q, R) /\ ~Spent(q, R, g)
              /\ g # None => Cardinality(Members(q.group, q.running \cup R, g)) < Cap(q.limit)
  BY <1>6, <1>7
<1> QED
  BY <1>1, <1>5, <1>7, OfferAdds

\* The groups served after m offers of a pass.
ServedBy(order, m) == {order[i] : i \in 1..m}

\* The offers of a pass serve one group after another.
LEMMA PassDeals ==
  ASSUME NEW q, IsQueue(q), NEW order \in Orders(q), NEW n \in Nat,
         NEW R, Dealt(q, R, n, {})
  PROVE  \E after \in [0..Len(order) -> SUBSET q.eligible] :
           /\ after[0] = R
           /\ \A m \in 1..Len(order) : after[m] = Offer(q, after[m - 1], order[m])
           /\ Pass(q, order, R) = after[Len(order)]
           /\ \A m \in 0..Len(order) : Dealt(q, after[m], n, ServedBy(order, m))
<1> DEFINE k == Len(order)
<1>1. /\ k \in Nat
      /\ \A i \in 1..k : order[i] \in AllGroups(q.group)
      /\ \A i, j \in 1..k : order[i] = order[j] => i = j
  BY OrderType DEF Offered, AllGroups, IsQueue
<1>2. PICK after \in [0..k -> SUBSET q.eligible] :
        /\ after[0] = R
        /\ \A m \in 1..k : after[m] = Offer(q, after[m - 1], order[m])
        /\ Pass(q, order, R) = after[k]
  BY PassSteps DEF Dealt
<1> DEFINE S == {m \in Nat : m <= k => Dealt(q, after[m], n, ServedBy(order, m))}
<1>3. 0 \in S
  <2>1. ServedBy(order, 0) = {}
    BY DEF ServedBy
  <2> QED
    BY <1>2, <2>1
<1>4. ASSUME NEW m \in Nat, m \in S PROVE m + 1 \in S
  <2> SUFFICES ASSUME m + 1 <= k PROVE Dealt(q, after[m + 1], n, ServedBy(order, m + 1))
    OBVIOUS
  <2>1. m + 1 \in 1..k /\ (m + 1) - 1 = m /\ m <= k
    BY <1>1
  <2>2. Dealt(q, after[m], n, ServedBy(order, m))
    BY <1>4, <2>1
  <2>3. after[m + 1] = Offer(q, after[m], order[m + 1])
    BY <1>2, <2>1
  <2>4. order[m + 1] \in AllGroups(q.group) \ ServedBy(order, m)
    <3> SUFFICES ASSUME NEW i \in 1..m, order[i] = order[m + 1] PROVE FALSE
      BY <1>1, <2>1 DEF ServedBy
    <3>1. i \in 1..k /\ i # m + 1
      BY <2>1
    <3> QED
      BY <1>1, <2>1, <3>1
  <2>5. ServedBy(order, m + 1) = ServedBy(order, m) \cup {order[m + 1]}
    <3>1. 1..(m + 1) = 1..m \cup {m + 1}
      OBVIOUS
    <3> QED
      BY <3>1 DEF ServedBy
  <2> QED
    BY <2>2, <2>3, <2>4, <2>5, OfferDeals
<1> HIDE DEF S
<1>5. \A m \in Nat : m \in S
  BY <1>3, <1>4, NumberInduction
<1>6. \A m \in 0..k : Dealt(q, after[m], n, ServedBy(order, m))
  BY <1>1, <1>5 DEF S
<1> QED
  BY <1>2, <1>6

\* A group without an eligible task is spent before it is served.
LEMMA NothingOffered ==
  ASSUME NEW q, IsQueue(q), NEW R \in SUBSET q.eligible, NEW g, g \notin Offered(q)
  PROVE  Spent(q, R, g) /\ Taken(q, R, g) = 0
<1>1. Members(q.group, q.eligible, g) = {} /\ Members(q.group, R, g) = {}
  BY DEF Offered, Members
<1> QED
  BY <1>1, FS_EmptySet DEF Spent, Taken

\* A whole pass brings every group one task further.
LEMMA WholePass ==
  ASSUME NEW q, IsQueue(q), NEW order \in Orders(q), NEW n \in Nat,
         NEW R, Dealt(q, R, n, {})
  PROVE  Dealt(q, Pass(q, order, R), n + 1, {})
<1> DEFINE k == Len(order)
           M == Pass(q, order, R)
<1>1. Dealt(q, M, n, ServedBy(order, k))
  BY PassDeals, OrderType
<1>2. \A g \in Offered(q) : g \in ServedBy(order, k)
  BY OrderType DEF ServedBy
<1> HIDE DEF M, k
<1>3. Level(q, M, n + 1, {})
  <2> SUFFICES ASSUME NEW g \in AllGroups(q.group)
               PROVE  /\ Taken(q, M, g) <= Due(n + 1, {}, g)
                      /\ Full(q, M) \/ Spent(q, M, g) \/ Taken(q, M, g) = Due(n + 1, {}, g)
    BY DEF Level
  <2>1. CASE g \in Offered(q)
    BY <1>1, <1>2, <2>1 DEF Dealt, Level, Due
  <2>2. CASE g \notin Offered(q)
    BY <1>1, <2>2, NothingOffered DEF Dealt, Due
  <2> QED
    BY <2>1, <2>2
<1> QED
  BY <1>1, <1>3 DEF Dealt, M

\* Before the first pass nothing is ready.
LEMMA NothingDealt ==
  ASSUME NEW q, IsQueue(q)
  PROVE  Dealt(q, {}, 0, {})
<1>1. \A g : Members(q.group, {}, g) = {} /\ Taken(q, {}, g) = 0
  BY FS_EmptySet DEF Members, Taken
<1> QED
  BY <1>1 DEF Dealt, WithinLimits, TaskOrder, Fair, Level, Due

\* What the passes do, one after another.
LEMMA RoundRobinDeals ==
  ASSUME NEW q, IsQueue(q), NEW order \in Orders(q)
  PROVE  \E after \in [0..Cardinality(q.eligible) -> SUBSET q.eligible] :
           /\ after[0] = {}
           /\ \A n \in 1..Cardinality(q.eligible) : after[n] = Pass(q, order, after[n - 1])
           /\ RoundRobin(q, order) = after[Cardinality(q.eligible)]
           /\ \A n \in 0..Cardinality(q.eligible) : Dealt(q, after[n], n, {})
<1> DEFINE k == Cardinality(q.eligible)
           X == SUBSET q.eligible
           step == [r \in X |-> [n \in 1..k |-> Pass(q, order, r)]]
           after[n \in 0..k] == IF n = 0 THEN {} ELSE Pass(q, order, after[n - 1])
<1>1. k \in Nat
  BY FS_CardinalityType DEF IsQueue
<1>2. \A r \in X : Pass(q, order, r) \in X
  BY PassSteps, OrderType
<1>3. PICK f \in [0..k -> X] : f[0] = {} /\ \A n \in 1..k : f[n] = step[f[n - 1]][n]
  <2>1. step \in [X -> [1..k -> X]]
    BY <1>2
  <2>2. IsStep(step, X, k) /\ {} \in X
    BY <2>1 DEF IsStep
  <2> HIDE DEF step, X, k
  <2>3. HasIterate(step, {}, X, k)
    BY <1>1, <2>2, Iteration
  <2> QED
    BY <2>3 DEF HasIterate
<1>4. f = [n \in 0..k |-> IF n = 0 THEN {} ELSE Pass(q, order, f[n - 1])]
  <2>1. DOMAIN f = 0..k
    OBVIOUS
  <2>2. ASSUME NEW n \in 1..k PROVE f[n] = Pass(q, order, f[n - 1])
    <3>1. f[n - 1] \in X
      BY <1>1
    <3> HIDE DEF X
    <3> QED
      BY <1>3, <3>1
  <2>3. \A n \in 0..k : f[n] = IF n = 0 THEN {} ELSE Pass(q, order, f[n - 1])
    BY <1>1, <1>3, <2>2
  <2> QED
    BY <2>1, <2>3
<1>5. after = [n \in 0..k |-> IF n = 0 THEN {} ELSE Pass(q, order, after[n - 1])]
  BY <1>4
<1>6. RoundRobin(q, order) = after[k]
  BY DEF RoundRobin
<1>7. after[0] = {} /\ \A n \in 1..k : after[n] = Pass(q, order, after[n - 1])
  <2> HIDE DEF after, k
  <2>1. after[0] = {}
    BY <1>1, <1>5
  <2>2. ASSUME NEW n \in 1..k PROVE after[n] = Pass(q, order, after[n - 1])
    <3>1. n \in 0..k /\ n # 0
      BY <1>1
    <3> QED
      BY <1>5, <3>1
  <2> QED
    BY <2>1, <2>2
<1>8. DOMAIN after = 0..k
  BY <1>5
<1> HIDE DEF after
<1>9. after = [n \in 0..k |-> after[n]]
  BY <1>5, <1>8
<1> DEFINE S == {n \in Nat : n <= k => Dealt(q, after[n], n, {})}
<1>10. 0 \in S
  BY <1>7, NothingDealt
<1>11. ASSUME NEW n \in Nat, n \in S PROVE n + 1 \in S
  <2>1. n + 1 <= k => n + 1 \in 1..k /\ (n + 1) - 1 = n
    BY <1>1
  <2>2. n + 1 <= k => after[n + 1] = Pass(q, order, after[n])
    BY <1>7, <2>1
  <2> QED
    BY <1>1, <1>11, <2>2, WholePass
<1> HIDE DEF S
<1>12. \A n \in Nat : n \in S
  BY <1>10, <1>11, NumberInduction
<1>13. \A n \in 0..k : Dealt(q, after[n], n, {})
  BY <1>1, <1>12 DEF S
<1>14. after \in [0..k -> X]
  BY <1>9, <1>13 DEF Dealt
<1> QED
  BY <1>6, <1>7, <1>13, <1>14

\* Whatever the order of the groups, the round-robin gives a selection.
THEOREM RoundRobinSelects ==
  ASSUME NEW q, IsQueue(q), NEW order \in Orders(q)
  PROVE  /\ RoundRobin(q, order) \in SUBSET q.eligible
         /\ Selection(q, RoundRobin(q, order))
<1> DEFINE k == Cardinality(q.eligible)
           R == RoundRobin(q, order)
<1>1. k \in Nat
  BY FS_CardinalityType DEF IsQueue
<1>2. Dealt(q, R, k, {})
  BY <1>1, RoundRobinDeals
<1> HIDE DEF R
<1>3. R \in SUBSET q.eligible
  BY <1>2 DEF Dealt
<1>4. ~Full(q, R) => \A g \in AllGroups(q.group) : Spent(q, R, g)
  <2> SUFFICES ASSUME NEW g \in AllGroups(q.group), Taken(q, R, g) = k
               PROVE  Members(q.group, q.eligible, g) \subseteq R
    BY <1>2 DEF Dealt, Level, Due, Spent
  <2> DEFINE B == Members(q.group, R, g)
  <2>1. B \subseteq R /\ B \subseteq q.eligible /\ Cardinality(B) = k
    BY <1>3 DEF Members, Taken
  <2>2. B = q.eligible
    BY <2>1, FS_Subset DEF IsQueue
  <2> QED
    BY <2>1, <2>2 DEF Members
<1>5. Full(q, R) => Cardinality(q.running \cup R) >= q.limit
  BY <1>3, Counts DEF Full
<1>6. WithinLimits(q, R) /\ TaskOrder(q, R) /\ Fair(q, R)
  BY <1>2 DEF Dealt
<1>7. Selection(q, R)
  BY <1>4, <1>5, <1>6 DEF Selection, TaskOrder, Fair, Taken
<1> QED
  BY <1>3, <1>7 DEF R

\* A list of the elements of G, each once, the greatest keys first.
Sorted(order, G, n, key) ==
  /\ order \in [1..n -> G]
  /\ \A i, j \in 1..n : order[i] = order[j] => i = j
  /\ \A g \in G : \E i \in 1..n : order[i] = g
  /\ \A i, j \in 1..n : i < j => key[order[i]] >= key[order[j]]

\* An element with the least key comes last.
LEMMA SortedLast ==
  ASSUME NEW G, NEW key \in [G -> Nat], NEW n \in Nat, NEW g \in G,
         \A h \in G : key[g] <= key[h],
         NEW order, Sorted(order, G \ {g}, n, key)
  PROVE  \E longer : Sorted(longer, G, n + 1, key)
<1> DEFINE longer == [i \in 1..(n + 1) |-> IF i = n + 1 THEN g ELSE order[i]]
<1>1. \A i \in 1..(n + 1) : i # n + 1 => i \in 1..n
  OBVIOUS
<1>2. /\ longer[n + 1] = g /\ n + 1 \in 1..(n + 1)
      /\ \A i \in 1..n : i \in 1..(n + 1) /\ i # n + 1 /\ longer[i] = order[i] /\ order[i] \in G \ {g}
  BY DEF Sorted
<1>3. longer \in [1..(n + 1) -> G]
  BY <1>1, <1>2
<1> HIDE DEF longer
<1>4. ASSUME NEW i \in 1..(n + 1), NEW j \in 1..(n + 1), longer[i] = longer[j] PROVE i = j
  BY <1>1, <1>2, <1>4 DEF Sorted
<1>5. ASSUME NEW h \in G PROVE \E i \in 1..(n + 1) : longer[i] = h
  BY <1>2 DEF Sorted
<1>6. ASSUME NEW i \in 1..(n + 1), NEW j \in 1..(n + 1), i < j
      PROVE  key[longer[i]] >= key[longer[j]]
  <2>1. i \in 1..n
    BY <1>6
  <2>2. CASE j = n + 1
    BY <1>2, <2>1, <2>2
  <2>3. CASE j \in 1..n
    BY <1>2, <1>6, <2>1, <2>3 DEF Sorted
  <2> QED
    BY <1>1, <2>2, <2>3
<1> QED
  BY <1>3, <1>4, <1>5, <1>6 DEF Sorted

\* Every finite set can be listed in this way.
LEMMA Sorting ==
  ASSUME NEW G, IsFiniteSet(G), NEW key \in [G -> Nat]
  PROVE  \E order : Sorted(order, G, Cardinality(G), key)
<1> DEFINE Listed(H) == \E order : Sorted(order, H, Cardinality(H), key)
           S == {n \in Nat : \A H \in SUBSET G : Cardinality(H) = n => Listed(H)}
<1>1. \A H \in SUBSET G : IsFiniteSet(H) /\ Cardinality(H) \in Nat
  BY FS_Subset, FS_CardinalityType
<1>2. 0 \in S
  <2> SUFFICES ASSUME NEW H \in SUBSET G, Cardinality(H) = 0 PROVE Listed(H)
    OBVIOUS
  <2>1. H = {}
    BY <1>1, FS_EmptySet
  <2>2. Sorted([i \in 1..0 |-> 0], H, 0, key)
    BY <2>1 DEF Sorted
  <2> QED
    BY <2>2
<1>3. ASSUME NEW n \in Nat, n \in S PROVE n + 1 \in S
  <2> SUFFICES ASSUME NEW H \in SUBSET G, Cardinality(H) = n + 1 PROVE Listed(H)
    OBVIOUS
  <2>1. H # {}
    BY FS_EmptySet
  <2>2. PICK g \in H : \A h \in H : key[g] <= key[h]
    <3> DEFINE K == {key[h] : h \in H}
    <3>1. K \in SUBSET Nat /\ K # {}
      BY <2>1
    <3>2. PICK m \in K : \A l \in K : m <= l
      <4> HIDE DEF K
      <4> QED
        BY <3>1, LeastNumber
    <3> QED
      BY <3>2
  <2>3. H \ {g} \in SUBSET G /\ Cardinality(H \ {g}) = n
    BY <1>1, FS_RemoveElement
  <2>4. PICK order : Sorted(order, H \ {g}, n, key)
    BY <1>3, <2>3
  <2> DEFINE low == [h \in H |-> key[h]]
  <2>5. low \in [H -> Nat] /\ \A h \in H : low[h] = key[h]
    OBVIOUS
  <2>6. \A o, T, m : T \subseteq H => (Sorted(o, T, m, low) <=> Sorted(o, T, m, key))
    <3> HIDE DEF low
    <3> SUFFICES ASSUME NEW o, NEW T \in SUBSET H, NEW m, o \in [1..m -> T]
                 PROVE  (\A i, j \in 1..m : i < j => low[o[i]] >= low[o[j]])
                          <=> (\A i, j \in 1..m : i < j => key[o[i]] >= key[o[j]])
      BY DEF Sorted
    <3>1. \A i \in 1..m : low[o[i]] = key[o[i]]
      BY <2>5
    <3> QED
      BY <3>1
  <2> HIDE DEF low
  <2>7. \E longer : Sorted(longer, H, n + 1, low)
    <3>1. Sorted(order, H \ {g}, n, low) /\ \A h \in H : low[g] <= low[h]
      BY <2>2, <2>4, <2>5, <2>6
    <3> QED
      BY <2>5, <3>1, SortedLast
  <2> QED
    BY <2>6, <2>7
<1> HIDE DEF Listed
<1>4. \A n \in Nat : n \in S
  <2> HIDE DEF S
  <2> QED
    BY <1>2, <1>3, NumberInduction
<1>5. Listed(G)
  BY <1>1, <1>4
<1> QED
  BY <1>5 DEF Listed

\* Some order serves the groups of which T has most tasks first.
LEMMA GreatestFirst ==
  ASSUME NEW q, IsQueue(q), NEW T \in SUBSET q.eligible
  PROVE  \E order \in Orders(q) :
           \A i, j \in 1..Len(order) : i < j => Taken(q, T, order[i]) >= Taken(q, T, order[j])
<1> DEFINE G == Offered(q)
           key == [g \in G |-> Taken(q, T, g)]
<1>1. IsFiniteSet(G)
  <2> DEFINE f == [t \in q.eligible |-> q.group[t]]
  <2>1. f \in Surjection(q.eligible, G)
    BY DEF Offered, Surjection
  <2> QED
    BY <2>1, FS_Surjection DEF IsQueue
<1>2. key \in [G -> Nat]
  BY Counts
<1>3. PICK order : Sorted(order, G, Cardinality(G), key)
  <2> HIDE DEF G, key
  <2> QED
    BY <1>1, <1>2, Sorting
<1>4. order \in Orders(q)
  BY <1>3 DEF Sorted, Orders
<1>5. Len(order) = Cardinality(G)
  BY <1>1, <1>3, FS_CardinalityType DEF Sorted
<1>6. \A i \in 1..Len(order) : key[order[i]] = Taken(q, T, order[i])
  BY <1>4, OrderType
<1> HIDE DEF key, G
<1>7. \A i, j \in 1..Len(order) : i < j => key[order[i]] >= key[order[j]]
  BY <1>3, <1>5 DEF Sorted
<1> QED
  BY <1>4, <1>6, <1>7

\* What is ready within a larger choice that fits leaves room in its groups.
LEMMA RoomLeft ==
  ASSUME NEW q, IsQueue(q), NEW T \in SUBSET q.eligible, WithinLimits(q, T),
         NEW R \in SUBSET T, NEW a \in T \ R
  PROVE  /\ ~Spent(q, R, q.group[a]) /\ q.group[a] \in Offered(q)
         /\ q.group[a] \in AllGroups(q.group)
         /\ Taken(q, R, q.group[a]) < Taken(q, T, q.group[a])
<1> DEFINE h == q.group[a]
           A == Members(q.group, R, h)
           B == Members(q.group, T, h)
<1>1. A \subseteq B /\ a \in B /\ a \notin A
  BY DEF Members
<1>2. IsFiniteSet(B) /\ Cardinality(A) \in Nat /\ Cardinality(B) \in Nat
  BY Counts DEF Taken
<1>3. Cardinality(A) < Cardinality(B)
  <2> HIDE DEF A, B
  <2>1. Cardinality(A) <= Cardinality(B) /\ (Cardinality(A) = Cardinality(B) => A = B)
    BY <1>1, <1>2, FS_Subset
  <2> QED
    BY <1>1, <1>2, <2>1
<1>4. h \in Offered(q) /\ h \in AllGroups(q.group)
  BY DEF Offered, AllGroups, IsQueue
<1>5. ~(Members(q.group, q.eligible, h) \subseteq R)
  BY DEF Members
<1>6. h # None => Cardinality(Members(q.group, q.running \cup R, h)) < Cap(q.limit)
  <2> SUFFICES ASSUME h # None
               PROVE  Cardinality(Members(q.group, q.running \cup R, h)) < Cap(q.limit)
    OBVIOUS
  <2>1. B # {} /\ Cardinality(Members(q.group, q.running \cup T, h)) <= Cap(q.limit)
    BY <1>1, <1>4 DEF WithinLimits
  <2>2. /\ Cardinality(Members(q.group, q.running, h)) \in Nat
        /\ Cardinality(Members(q.group, q.running \cup T, h))
             = Cardinality(Members(q.group, q.running, h)) + Cardinality(B)
        /\ Cardinality(Members(q.group, q.running \cup R, h))
             = Cardinality(Members(q.group, q.running, h)) + Cardinality(A)
    <3>1. R \in SUBSET q.eligible
      OBVIOUS
    <3> HIDE DEF h
    <3> QED
      BY <3>1, Counts DEF Taken
  <2> HIDE DEF A, B, h
  <2> QED
    BY <1>2, <1>3, <2>1, <2>2, CapType
<1>7. ~Spent(q, R, h)
  <2>1. h # None => Cardinality(Members(q.group, q.running \cup R, h)) \in Nat
    BY Counts, FS_CardinalityType
  <2> HIDE DEF h
  <2> QED
    BY <1>5, <1>6, <2>1, CapType DEF Spent
<1> QED
  BY <1>3, <1>4, <1>7 DEF Taken

\* The groups of which T has most are served first: an offer adds a task of T.
LEMMA OfferWithin ==
  ASSUME NEW q, IsQueue(q), NEW T \in SUBSET q.eligible, Selection(q, T),
         NEW n \in Nat, NEW served, NEW R \in SUBSET T, Dealt(q, R, n, served),
         NEW g \in AllGroups(q.group) \ served,
         \A h \in Offered(q) \ served : Taken(q, T, h) <= Taken(q, T, g)
  PROVE  Offer(q, R, g) \subseteq T
<1>0. \/ Offer(q, R, g) = R
      \/ \E t \in q.eligible \ R :
           /\ Offer(q, R, g) = R \cup {t} /\ q.group[t] = g
           /\ \A u \in q.eligible \ R : q.group[u] = g => t <= u
           /\ ~Full(q, R) /\ ~Spent(q, R, g)
           /\ g # None => Cardinality(Members(q.group, q.running \cup R, g)) < Cap(q.limit)
  <2>1. R \in SUBSET q.eligible
    OBVIOUS
  <2> QED
    BY <2>1, OfferAdds
<1> SUFFICES ASSUME NEW t \in q.eligible \ R, t \notin T, q.group[t] = g,
                    \A u \in q.eligible \ R : q.group[u] = g => t <= u,
                    ~Full(q, R), ~Spent(q, R, g),
                    g # None =>
                      Cardinality(Members(q.group, q.running \cup R, g)) < Cap(q.limit)
             PROVE  FALSE
  BY <1>0
<1>1. WithinLimits(q, T) /\ TaskOrder(q, T) /\ Fair(q, T)
  BY DEF Selection, TaskOrder, Fair, Taken
<1>2. \A u \in T : q.group[u] = g => u \in R
  <2> SUFFICES ASSUME NEW u \in T \ R, q.group[u] = g PROVE FALSE
    OBVIOUS
  <2>1. t < u
    BY DEF IsQueue
  <2> QED
    BY <1>1, <2>1 DEF TaskOrder
<1>3. Members(q.group, T, g) = Members(q.group, R, g)
  BY <1>2 DEF Members
<1>4. Taken(q, T, g) = n
  BY <1>3 DEF Dealt, Level, Due, Taken
<1>5. ~Spent(q, T, g)
  <2>1. Members(q.group, q.running \cup T, g) = Members(q.group, q.running \cup R, g)
    BY <1>2 DEF Members
  <2>2. Cardinality(Members(q.group, q.running \cup R, g)) \in Nat
    BY Counts, FS_CardinalityType
  <2>3. ~(Members(q.group, q.eligible, g) \subseteq T)
    BY DEF Members
  <2> QED
    BY <2>1, <2>2, <2>3, CapType DEF Spent
<1>6. T # R
  <2> SUFFICES ASSUME T = R PROVE FALSE
    OBVIOUS
  <2>1. Cardinality(q.running \cup R) >= q.limit
    BY <1>5 DEF Selection
  <2>2. /\ Cardinality(q.running) \in Nat /\ Cardinality(R) \in Nat
        /\ Cardinality(q.running \cup R) = Cardinality(q.running) + Cardinality(R)
    <3>1. R \in SUBSET q.eligible
      OBVIOUS
    <3> QED
      BY <3>1, Counts
  <2>3. q.limit \in Nat
    BY DEF IsQueue
  <2>4. Cardinality(q.running) + Cardinality(R) < q.limit
    BY <2>2, <2>3 DEF Full
  <2> QED
    BY <2>1, <2>2, <2>3, <2>4
<1>7. PICK a \in T \ R : TRUE
  BY <1>6
<1> DEFINE h == q.group[a]
<1>8. /\ ~Spent(q, R, h) /\ h \in Offered(q) /\ h \in AllGroups(q.group)
      /\ Taken(q, R, h) < Taken(q, T, h)
  BY <1>1, RoomLeft
<1>9. Taken(q, R, h) = Due(n, served, h)
  BY <1>8 DEF Dealt, Level
<1>10. Taken(q, T, h) \in Nat
  BY Counts
<1>11. Taken(q, T, h) <= n + 1
  BY <1>1, <1>4, <1>5, <1>8, <1>10 DEF Fair
<1>12. h \notin served /\ Taken(q, T, h) > n
  BY <1>8, <1>9, <1>10, <1>11 DEF Due
<1>13. Taken(q, T, h) <= n
  BY <1>4, <1>8, <1>12
<1> QED
  BY <1>10, <1>12, <1>13

\* The groups of which T has most come first in the order.
ServesFirst(q, order, T) ==
  \A i, j \in 1..Len(order) : i < j => Taken(q, T, order[i]) >= Taken(q, T, order[j])

\* A pass in that order adds tasks of T only.
LEMMA PassWithin ==
  ASSUME NEW q, IsQueue(q), NEW T \in SUBSET q.eligible, Selection(q, T),
         NEW order \in Orders(q), ServesFirst(q, order, T),
         NEW n \in Nat, NEW R \in SUBSET T, Dealt(q, R, n, {})
  PROVE  Pass(q, order, R) \subseteq T
<1> DEFINE k == Len(order)
<1>1. /\ k \in Nat
      /\ \A i \in 1..k : order[i] \in AllGroups(q.group)
      /\ \A i, j \in 1..k : order[i] = order[j] => i = j
      /\ \A g \in Offered(q) : \E i \in 1..k : order[i] = g
  <2>1. \A g \in Offered(q) : g \in AllGroups(q.group)
    BY DEF Offered, AllGroups, IsQueue
  <2> QED
    BY <2>1, OrderType
<1>2. PICK after \in [0..k -> SUBSET q.eligible] :
        /\ after[0] = R
        /\ \A m \in 1..k : after[m] = Offer(q, after[m - 1], order[m])
        /\ Pass(q, order, R) = after[k]
        /\ \A m \in 0..k : Dealt(q, after[m], n, ServedBy(order, m))
  BY PassDeals
<1> DEFINE S == {m \in Nat : m <= k => after[m] \subseteq T}
<1>3. 0 \in S
  BY <1>2
<1>4. ASSUME NEW m \in Nat, m \in S PROVE m + 1 \in S
  <2> SUFFICES ASSUME m + 1 <= k PROVE after[m + 1] \subseteq T
    OBVIOUS
  <2>1. m + 1 \in 1..k /\ (m + 1) - 1 = m /\ m \in 0..k
    BY <1>1
  <2>2. after[m] \subseteq T /\ Dealt(q, after[m], n, ServedBy(order, m))
    BY <1>2, <1>4, <2>1
  <2>3. after[m + 1] = Offer(q, after[m], order[m + 1])
    BY <1>2, <2>1
  <2>4. order[m + 1] \in AllGroups(q.group) \ ServedBy(order, m)
    <3> SUFFICES ASSUME NEW i \in 1..m, order[i] = order[m + 1] PROVE FALSE
      BY <1>1, <2>1 DEF ServedBy
    <3>1. i \in 1..k /\ i # m + 1
      BY <2>1
    <3> QED
      BY <1>1, <2>1, <3>1
  <2>5. ASSUME NEW h \in Offered(q) \ ServedBy(order, m)
        PROVE  Taken(q, T, h) <= Taken(q, T, order[m + 1])
    <3>1. PICK i \in 1..k : order[i] = h
      BY <1>1
    <3>2. i = m + 1 \/ m + 1 < i
      BY <1>1, <3>1 DEF ServedBy
    <3>3. Taken(q, T, h) \in Nat /\ Taken(q, T, order[m + 1]) \in Nat
      BY Counts
    <3> QED
      BY <2>1, <3>1, <3>2, <3>3 DEF ServesFirst
  <2> QED
    BY <2>2, <2>3, <2>4, <2>5, OfferWithin
<1> HIDE DEF S
<1>5. \A m \in Nat : m \in S
  BY <1>3, <1>4, NumberInduction
<1> QED
  BY <1>1, <1>2, <1>5 DEF S

\* No selection is part of another one.
LEMMA SelectionsApart ==
  ASSUME NEW q, IsQueue(q), NEW T \in SUBSET q.eligible, Selection(q, T),
         NEW R \in SUBSET T, Selection(q, R)
  PROVE  R = T
<1> SUFFICES ASSUME NEW a \in T \ R PROVE FALSE
  OBVIOUS
<1>1. ~Spent(q, R, q.group[a]) /\ q.group[a] \in AllGroups(q.group)
  BY RoomLeft DEF Selection
<1>2. Cardinality(q.running \cup R) >= q.limit
  BY <1>1 DEF Selection
<1>3. Cardinality(q.running \cup T) <= q.limit
  BY DEF Selection, WithinLimits
<1>4. /\ Cardinality(q.running) \in Nat /\ Cardinality(R) \in Nat /\ Cardinality(T) \in Nat
      /\ Cardinality(q.running \cup R) = Cardinality(q.running) + Cardinality(R)
      /\ Cardinality(q.running \cup T) = Cardinality(q.running) + Cardinality(T)
      /\ q.limit \in Nat /\ IsFiniteSet(T)
  BY Counts DEF IsQueue
<1>5. Cardinality(R) <= Cardinality(T) /\ (Cardinality(T) = Cardinality(R) => T = R)
  BY <1>4, FS_Subset
<1> QED
  BY <1>2, <1>3, <1>4, <1>5

\* Every selection is what the round-robin gives in some order of the groups.
THEOREM RoundRobinReaches ==
  ASSUME NEW q, IsQueue(q), NEW T \in SUBSET q.eligible, Selection(q, T)
  PROVE  \E order \in Orders(q) : RoundRobin(q, order) = T
<1> DEFINE k == Cardinality(q.eligible)
<1>1. k \in Nat
  BY FS_CardinalityType DEF IsQueue
<1>2. PICK order \in Orders(q) : ServesFirst(q, order, T)
  BY GreatestFirst DEF ServesFirst
<1>3. PICK after \in [0..k -> SUBSET q.eligible] :
        /\ after[0] = {}
        /\ \A n \in 1..k : after[n] = Pass(q, order, after[n - 1])
        /\ RoundRobin(q, order) = after[k]
        /\ \A n \in 0..k : Dealt(q, after[n], n, {})
  BY RoundRobinDeals
<1> DEFINE S == {n \in Nat : n <= k => after[n] \subseteq T}
<1>4. 0 \in S
  BY <1>3
<1>5. ASSUME NEW n \in Nat, n \in S PROVE n + 1 \in S
  <2>1. n + 1 <= k => n + 1 \in 1..k /\ (n + 1) - 1 = n /\ n \in 0..k
    BY <1>1
  <2>2. n + 1 <= k => after[n + 1] = Pass(q, order, after[n]) /\ after[n] \subseteq T
    BY <1>3, <1>5, <2>1
  <2> QED
    BY <1>2, <1>3, <2>1, <2>2, PassWithin
<1> HIDE DEF S
<1>6. \A n \in Nat : n \in S
  BY <1>4, <1>5, NumberInduction
<1>7. RoundRobin(q, order) \subseteq T
  BY <1>1, <1>3, <1>6 DEF S
<1>8. Selection(q, RoundRobin(q, order))
  BY RoundRobinSelects
<1> QED
  BY <1>7, <1>8, SelectionsApart

-----------------------------------------------------------------------------
(* The search for a cycle.                                                  *)

\* The tasks that the search has left.
Left(s) == s.visited \ s.onStack

\* A frame of the stack: a task and the dependency it is at.
Frame(graph) == [node : DOMAIN graph, index : Nat \ {0}]

\* The type of a search.
SearchType(graph, s) ==
  s \in [stack : Seq(Frame(graph)), visited : SUBSET DOMAIN graph,
         onStack : SUBSET DOMAIN graph, cycle : BOOLEAN]

\* Each task on the stack is there once, and each but the last is at a dependency
\* that is the next one.
Path(graph, s) ==
  /\ s.onStack \subseteq s.visited
  /\ \A t \in s.onStack : \E j \in 1..Len(s.stack) : s.stack[j].node = t
  /\ \A j \in 1..Len(s.stack) :
       /\ s.stack[j].node \in s.onStack
       /\ s.stack[j].index <= Len(graph[s.stack[j].node]) + 1
  /\ \A i, j \in 1..Len(s.stack) : s.stack[i].node = s.stack[j].node => i = j
  /\ \A j \in 1..Len(s.stack) : j + 1 \in 1..Len(s.stack) =>
       /\ s.stack[j].index > 1
       /\ s.stack[j + 1].node = graph[s.stack[j].node][s.stack[j].index - 1]

\* What the tasks on the stack were looked at for, but for the task above.
Passed(graph, s) ==
  \A j \in 1..Len(s.stack) : \A i \in 1..Len(graph[s.stack[j].node]) :
    i < s.stack[j].index =>
      \/ graph[s.stack[j].node][i] \in Left(s)
      \/ j + 1 \in 1..Len(s.stack) /\ i = s.stack[j].index - 1

\* No cycle among the tasks in S, nor out of them.
Settled(depends, S) ==
  /\ \A b \in S : depends[b] \subseteq S
  /\ \A B \in SUBSET S : B # {} => \E b \in B : depends[b] \cap B = {}

\* The invariant of a search; a cycle is only found where there is one.
Searched(graph, s) ==
  /\ SearchType(graph, s) /\ Path(graph, s)
  /\ s.cycle => ~Acyclic(Depends(graph))
  /\ ~s.cycle => Passed(graph, s)
  /\ Settled(Depends(graph), Left(s))

\* What the search has done of it.
Looked(graph, s) ==
  {p \in Places(graph) :
     \/ p[1] \in Left(s)
     \/ p[2] # 0 /\ \E j \in 1..Len(s.stack) :
          s.stack[j].node = p[1] /\ p[2] < s.stack[j].index}

\* What a graph of dependencies consists of.
LEMMA GraphType ==
  ASSUME NEW graph, IsGraph(graph)
  PROVE  /\ Len(graph) \in Nat /\ DOMAIN graph = 1..Len(graph)
         /\ \A t \in DOMAIN graph : Len(graph[t]) \in Nat /\ DOMAIN graph[t] = 1..Len(graph[t])
         /\ \A t \in DOMAIN graph : \A i \in 1..Len(graph[t]) :
              graph[t][i] \in DOMAIN graph /\ graph[t][i] \in Depends(graph)[t]
         /\ \A t \in DOMAIN graph : Depends(graph)[t] \subseteq DOMAIN graph
         /\ \A t \in DOMAIN graph : \A u \in Depends(graph)[t] :
              \E i \in 1..Len(graph[t]) : u = graph[t][i]
         /\ DOMAIN Depends(graph) = DOMAIN graph
<1>1. Len(graph) \in Nat /\ DOMAIN graph = 1..Len(graph)
  BY DEF IsGraph
<1>2. \A t \in DOMAIN graph : graph[t] \in Seq(1..Len(graph))
  BY DEF IsGraph
<1>3. ASSUME NEW t \in DOMAIN graph
      PROVE  /\ Len(graph[t]) \in Nat /\ DOMAIN graph[t] = 1..Len(graph[t])
             /\ \A i \in 1..Len(graph[t]) : graph[t][i] \in 1..Len(graph)
  BY <1>2
<1> QED
  BY <1>1, <1>3 DEF Depends

\* A task whose dependencies are settled settles too.
LEMMA SettledMore ==
  ASSUME NEW depends, NEW S, Settled(depends, S), NEW v, v \notin S, depends[v] \subseteq S
  PROVE  Settled(depends, S \cup {v})
<1>1. \A b \in S \cup {v} : depends[b] \subseteq S \cup {v}
  BY DEF Settled
<1>2. ASSUME NEW B \in SUBSET (S \cup {v}), B # {}
      PROVE  \E b \in B : depends[b] \cap B = {}
  <2>1. CASE B = {v}
    BY <2>1
  <2>2. CASE B # {v}
    <3>1. B \ {v} \in SUBSET S /\ B \ {v} # {}
      BY <1>2, <2>2
    <3>2. PICK b \in B \ {v} : depends[b] \cap (B \ {v}) = {}
      BY <3>1 DEF Settled
    <3>3. v \notin depends[b]
      BY <3>1 DEF Settled
    <3> QED
      BY <3>2, <3>3
  <2> QED
    BY <2>1, <2>2
<1> QED
  BY <1>1, <1>2 DEF Settled

\* A stack without its top.
LEMMA Shorter ==
  ASSUME NEW X, NEW stack \in Seq(X), stack # <<>>
  PROVE  /\ SubSeq(stack, 1, Len(stack) - 1) \in Seq(X)
         /\ Len(SubSeq(stack, 1, Len(stack) - 1)) = Len(stack) - 1
         /\ \A j \in 1..(Len(stack) - 1) : SubSeq(stack, 1, Len(stack) - 1)[j] = stack[j]
<1> DEFINE m == Len(stack) - 1
<1>1. Len(stack) \in Nat /\ Len(stack) >= 1 /\ \A j \in 1..m : stack[j] \in X
  OBVIOUS
<1>2. m \in Int /\ m >= 0
  BY <1>1
<1> HIDE DEF m
<1>3. /\ SubSeq(stack, 1, m) \in Seq(X)
      /\ Len(SubSeq(stack, 1, m)) = IF 1 <= m THEN m - 1 + 1 ELSE 0
      /\ \A j \in 1..(m - 1 + 1) : SubSeq(stack, 1, m)[j] = stack[1 + j - 1]
  BY <1>1, <1>2, SubSeqProperties
<1>4. Len(SubSeq(stack, 1, m)) = m /\ \A j \in 1..m : SubSeq(stack, 1, m)[j] = stack[j]
  BY <1>2, <1>3
<1> QED
  BY <1>3, <1>4 DEF m

\* The task on top is left.
LEMMA PoppedSearched ==
  ASSUME NEW graph, IsGraph(graph), NEW s, Searched(graph, s), ~Ended(s),
         s.stack[Len(s.stack)].index > Len(graph[s.stack[Len(s.stack)].node])
  PROVE  /\ Searched(graph, Popped(s)) /\ Popped(s).visited = s.visited
         /\ \E p \in Places(graph) \ Looked(graph, s) :
              Looked(graph, Popped(s)) = Looked(graph, s) \cup {p}
<1> DEFINE m == Len(s.stack)
           v == s.stack[m].node
           z == Popped(s)
<1>1. /\ s.stack \in Seq(Frame(graph)) /\ s.cycle = FALSE
      /\ s.visited \in SUBSET DOMAIN graph /\ s.onStack \in SUBSET DOMAIN graph
      /\ s = [stack |-> s.stack, visited |-> s.visited, onStack |-> s.onStack, cycle |-> s.cycle]
  BY DEF Searched, SearchType, Ended
<1>2. m \in Nat /\ m >= 1 /\ s.stack # <<>>
  BY <1>1 DEF Ended
<1>3. \A j \in 1..m : s.stack[j] \in Frame(graph)
  BY <1>1
<1>4. z = [stack |-> SubSeq(s.stack, 1, m - 1), visited |-> s.visited,
           onStack |-> s.onStack \ {v}, cycle |-> FALSE]
  <2> HIDE DEF v
  <2>1. z = [s EXCEPT !.stack = SubSeq(@, 1, m - 1), !.onStack = @ \ {v}]
    BY DEF Popped, v
  <2> HIDE DEF z, m
  <2> QED
    BY <1>1, <2>1
<1>5. /\ z.stack \in Seq(Frame(graph)) /\ Len(z.stack) = m - 1
      /\ \A j \in 1..(m - 1) : z.stack[j] = s.stack[j]
  BY <1>1, <1>2, <1>3, <1>4, Shorter
<1> HIDE DEF z
<1>6. SearchType(graph, z)
  BY <1>1, <1>4, <1>5 DEF SearchType
<1>7. v \in s.onStack /\ v \in s.visited /\ v \in DOMAIN graph
  BY <1>2, <1>1 DEF Searched, Path
<1>8. Left(z) = Left(s) \cup {v} /\ v \notin Left(s)
  BY <1>4, <1>7 DEF Left
<1>9. Path(graph, z)
  <2>1. \A t \in z.onStack : \E j \in 1..(m - 1) : z.stack[j].node = t
    <3> SUFFICES ASSUME NEW t \in s.onStack, t # v
                 PROVE  \E j \in 1..(m - 1) : z.stack[j].node = t
      BY <1>4
    <3>1. PICK j \in 1..m : s.stack[j].node = t
      BY DEF Searched, Path
    <3>2. j \in 1..(m - 1)
      BY <1>2, <3>1
    <3> QED
      BY <1>5, <3>1, <3>2
  <2>2. ASSUME NEW j \in 1..(m - 1)
        PROVE  /\ z.stack[j].node \in z.onStack
               /\ z.stack[j].index <= Len(graph[z.stack[j].node]) + 1
    <3>1. j \in 1..m /\ j # m /\ m \in 1..m
      BY <1>2
    <3>2. s.stack[j].node # v
      BY <3>1 DEF Searched, Path
    <3> QED
      BY <1>4, <1>5, <3>1, <3>2 DEF Searched, Path
  <2>3. \A i, j \in 1..(m - 1) : z.stack[i].node = z.stack[j].node => i = j
    <3>1. \A j \in 1..(m - 1) : j \in 1..m
      BY <1>2
    <3> QED
      BY <1>5, <3>1 DEF Searched, Path
  <2>4. ASSUME NEW j \in 1..(m - 1), j + 1 \in 1..(m - 1)
        PROVE  /\ z.stack[j].index > 1
               /\ z.stack[j + 1].node = graph[z.stack[j].node][z.stack[j].index - 1]
    <3>1. j \in 1..m /\ j + 1 \in 1..m
      BY <1>2, <2>4
    <3> QED
      BY <1>5, <2>4, <3>1 DEF Searched, Path
  <2>5. z.onStack \subseteq z.visited
    BY <1>4 DEF Searched, Path
  <2> QED
    BY <1>5, <2>1, <2>2, <2>3, <2>4, <2>5 DEF Path
<1>10. Depends(graph)[v] \subseteq Left(s)
  <2> SUFFICES ASSUME NEW u \in Depends(graph)[v] PROVE u \in Left(s)
    OBVIOUS
  <2>1. PICK i \in 1..Len(graph[v]) : u = graph[v][i]
    BY <1>7, GraphType
  <2>2. i < s.stack[m].index /\ m \in 1..m /\ m + 1 \notin 1..m
    <3>1. s.stack[m].index \in Nat /\ Len(graph[v]) \in Nat
      <4>1. Len(graph[v]) \in Nat
        BY <1>7, GraphType
      <4>2. s.stack[m].index \in Nat
        BY <1>2, <1>3 DEF Frame
      <4> QED
        BY <4>1, <4>2
    <3> HIDE DEF v
    <3>2. s.stack[m].index > Len(graph[v])
      BY DEF v
    <3> HIDE DEF m
    <3> QED
      BY <1>2, <3>1, <3>2
  <2> QED
    BY <1>1, <2>1, <2>2 DEF Searched, Passed
<1>11. Settled(Depends(graph), Left(z))
  BY <1>8, <1>10, SettledMore DEF Searched
<1>12. Passed(graph, z)
  <2> SUFFICES ASSUME NEW j \in 1..(m - 1), NEW i \in 1..Len(graph[s.stack[j].node]),
                      i < s.stack[j].index
               PROVE  \/ graph[s.stack[j].node][i] \in Left(z)
                      \/ j + 1 \in 1..(m - 1) /\ i = s.stack[j].index - 1
    BY <1>5 DEF Passed
  <2>1. j \in 1..m /\ j + 1 \in 1..m
    BY <1>2
  <2>2. \/ graph[s.stack[j].node][i] \in Left(s)
        \/ i = s.stack[j].index - 1
    BY <1>1, <2>1 DEF Searched, Passed
  <2>3. CASE j + 1 = m /\ i = s.stack[j].index - 1
    BY <1>8, <2>1, <2>3 DEF Searched, Path
  <2> QED
    BY <1>2, <1>8, <2>1, <2>2, <2>3
<1>13. Searched(graph, z)
  BY <1>4, <1>6, <1>9, <1>11, <1>12 DEF Searched
<1> DEFINE p == <<v, 0>>
<1>14. p \in Places(graph) /\ p \notin Looked(graph, s)
  BY <1>7, <1>8, GraphType DEF Places, Looked
<1>15. Looked(graph, z) = Looked(graph, s) \cup {p}
  <2> SUFFICES ASSUME NEW r \in Places(graph)
               PROVE  r \in Looked(graph, z) <=> r \in Looked(graph, s) \/ r = p
    BY <1>14 DEF Looked
  <2>1. /\ r[1] \in DOMAIN graph /\ r[2] \in 0..Len(graph[r[1]]) /\ r = <<r[1], r[2]>>
        /\ Len(graph[r[1]]) \in Nat
    BY GraphType DEF Places
  <2>2. CASE r[1] = v
    <3>1. r \in Looked(graph, z)
      BY <1>8, <2>2 DEF Looked
    <3>2. r[2] # 0 => r[2] < s.stack[m].index
      BY <1>2, <1>3, <2>1, <2>2 DEF Frame
    <3>3. r[2] # 0 => r \in Looked(graph, s)
      BY <1>2, <2>2, <3>2 DEF Looked
    <3> QED
      BY <2>1, <2>2, <3>1, <3>3
  <2>3. CASE r[1] # v
    <3>1. r[1] \in Left(z) <=> r[1] \in Left(s)
      BY <1>8, <2>3
    <3>2. (\E j \in 1..(m - 1) : z.stack[j].node = r[1] /\ r[2] < z.stack[j].index)
            <=> (\E j \in 1..m : s.stack[j].node = r[1] /\ r[2] < s.stack[j].index)
      <4>1. \A j \in 1..m : s.stack[j].node = r[1] => j \in 1..(m - 1)
        BY <1>2, <2>3
      <4>2. \A j \in 1..(m - 1) : j \in 1..m
        BY <1>2
      <4> QED
        BY <1>5, <4>1, <4>2
    <3> QED
      BY <1>5, <2>3, <3>1, <3>2 DEF Looked
  <2> QED
    BY <2>2, <2>3
<1>16. z.visited = s.visited
  BY <1>4
<1> HIDE DEF p
<1> QED
  BY <1>13, <1>14, <1>15, <1>16 DEF z

\* The search with the next dependency of the task on top looked at.
LEMMA LookedAt ==
  ASSUME NEW graph, IsGraph(graph), NEW s, Searched(graph, s), ~Ended(s),
         s.stack[Len(s.stack)].index <= Len(graph[s.stack[Len(s.stack)].node])
  PROVE  /\ SearchType(graph, Counted(s)) /\ Path(graph, Counted(s))
         /\ Counted(s) = [stack |-> Counted(s).stack, visited |-> s.visited,
                        onStack |-> s.onStack, cycle |-> FALSE]
         /\ Len(Counted(s).stack) = Len(s.stack)
         /\ \A j \in 1..Len(s.stack) :
              /\ Counted(s).stack[j].node = s.stack[j].node
              /\ Counted(s).stack[j].index
                   = IF j = Len(s.stack) THEN s.stack[j].index + 1 ELSE s.stack[j].index
<1> DEFINE m == Len(s.stack)
           v == s.stack[m].node
           k == s.stack[m].index
           frame == [node |-> v, index |-> k + 1]
           z == Counted(s)
<1>1. /\ s.stack \in Seq(Frame(graph)) /\ s.cycle = FALSE
      /\ s.visited \in SUBSET DOMAIN graph /\ s.onStack \in SUBSET DOMAIN graph
      /\ s = [stack |-> s.stack, visited |-> s.visited, onStack |-> s.onStack, cycle |-> s.cycle]
  BY DEF Searched, SearchType, Ended
<1>2. m \in Nat /\ m >= 1 /\ m \in 1..m
  BY <1>1 DEF Ended
<1>3. \A j \in 1..m : /\ s.stack[j] \in Frame(graph)
                      /\ s.stack[j].node \in DOMAIN graph /\ s.stack[j].index \in Nat \ {0}
  <2>1. \A j \in 1..m : s.stack[j] \in Frame(graph)
    BY <1>1
  <2> HIDE DEF m
  <2> QED
    BY <2>1 DEF Frame
<1>4. s.stack[m] = [node |-> v, index |-> k] /\ frame \in Frame(graph)
  BY <1>2, <1>3 DEF Frame
<1>5. z = [stack |-> [s.stack EXCEPT ![m] = frame], visited |-> s.visited,
           onStack |-> s.onStack, cycle |-> FALSE]
  <2>1. z = [s EXCEPT !.stack = [s.stack EXCEPT ![m] =
                                  [s.stack[m] EXCEPT !.index = s.stack[m].index + 1]]]
    BY DEF Counted
  <2>2. [s.stack[m] EXCEPT !.index = s.stack[m].index + 1] = frame
    <3> HIDE DEF m
    <3> QED
      BY <1>4
  <2>3. z = [s EXCEPT !.stack = [s.stack EXCEPT ![m] = frame]]
    <3> HIDE DEF z, frame, m
    <3> QED
      BY <2>1, <2>2
  <2> HIDE DEF z, frame, m
  <2> QED
    BY <1>1, <2>3
<1>6. /\ z.stack \in Seq(Frame(graph)) /\ Len(z.stack) = m
      /\ \A j \in 1..m : z.stack[j] = IF j = m THEN frame ELSE s.stack[j]
  <2>1. z.stack = [s.stack EXCEPT ![m] = frame]
    BY <1>5
  <2> HIDE DEF z, frame
  <2> QED
    BY <1>1, <1>2, <1>4, <2>1
<1>7. z.visited = s.visited /\ z.onStack = s.onStack /\ z.cycle = FALSE
      /\ z = [stack |-> z.stack, visited |-> s.visited, onStack |-> s.onStack, cycle |-> FALSE]
  <2> HIDE DEF z
  <2> QED
    BY <1>5
<1> HIDE DEF z
<1>8. \A j \in 1..m : /\ z.stack[j].node = s.stack[j].node
                      /\ z.stack[j].index = IF j = m THEN k + 1 ELSE s.stack[j].index
  BY <1>6
<1>9. SearchType(graph, z)
  BY <1>1, <1>6, <1>7 DEF SearchType
<1>10. Path(graph, z)
  <2>1. ASSUME NEW j \in 1..m PROVE z.stack[j].index <= Len(graph[z.stack[j].node]) + 1
    <3>1. CASE j = m
      <4>1. Len(graph[v]) \in Nat /\ k \in Nat
        BY <1>2, <1>3, GraphType
      <4> QED
        <5>1. z.stack[m].index = k + 1 /\ z.stack[m].node = v
          BY <1>2, <1>8
        <5>2. k <= Len(graph[v])
          OBVIOUS
        <5> HIDE DEF k, v, m
        <5> QED
          BY <3>1, <4>1, <5>1, <5>2
    <3>2. CASE j # m
      BY <1>8, <3>2 DEF Searched, Path
    <3> QED
      BY <3>1, <3>2
  <2>2. ASSUME NEW j \in 1..m, j + 1 \in 1..m
        PROVE  /\ z.stack[j].index > 1
               /\ z.stack[j + 1].node = graph[z.stack[j].node][z.stack[j].index - 1]
    <3>1. j # m
      BY <1>2, <2>2
    <3> QED
      BY <1>8, <2>2, <3>1 DEF Searched, Path
  <2>3. /\ z.onStack \subseteq z.visited
        /\ \A t \in z.onStack : \E j \in 1..m : z.stack[j].node = t
        /\ \A j \in 1..m : z.stack[j].node \in z.onStack
        /\ \A i, j \in 1..m : z.stack[i].node = z.stack[j].node => i = j
    <3>1. Path(graph, s)
      BY DEF Searched
    <3>2. \A j \in 1..m : z.stack[j].node = s.stack[j].node
      BY <1>8
    <3> HIDE DEF m
    <3>3. /\ s.onStack \subseteq s.visited
          /\ \A t \in s.onStack : \E j \in 1..m : s.stack[j].node = t
          /\ \A j \in 1..m : s.stack[j].node \in s.onStack
          /\ \A i, j \in 1..m : s.stack[i].node = s.stack[j].node => i = j
      BY <3>1 DEF Path, m
    <3> QED
      BY <1>7, <3>2, <3>3
  <2>4. Len(z.stack) = m
    BY <1>6
  <2> HIDE DEF m
  <2> QED
    BY <2>1, <2>2, <2>3, <2>4 DEF Path
<1> QED
  BY <1>6, <1>7, <1>8, <1>9, <1>10 DEF z

\* A dependency of the task on top is done, and nothing else.
LEMMA LookedMore ==
  ASSUME NEW graph, IsGraph(graph), NEW s, Searched(graph, s), ~Ended(s),
         s.stack[Len(s.stack)].index <= Len(graph[s.stack[Len(s.stack)].node]),
         NEW z, Left(z) = Left(s), Len(z.stack) \in {Len(s.stack), Len(s.stack) + 1},
         Len(z.stack) # Len(s.stack) => z.stack[Len(z.stack)].index = 1,
         \A j \in 1..Len(s.stack) :
           /\ z.stack[j].node = s.stack[j].node
           /\ z.stack[j].index
                = IF j = Len(s.stack) THEN s.stack[j].index + 1 ELSE s.stack[j].index
  PROVE  \E p \in Places(graph) \ Looked(graph, s) :
           Looked(graph, z) = Looked(graph, s) \cup {p}
<1> DEFINE m == Len(s.stack)
           v == s.stack[m].node
           k == s.stack[m].index
           p == <<v, k>>
<1>1. s.stack \in Seq(Frame(graph)) /\ s.stack # <<>>
  BY DEF Searched, SearchType, Ended
<1>2. m \in Nat /\ m >= 1 /\ m \in 1..m
  BY <1>1
<1>3. \A j \in 1..m : s.stack[j].node \in DOMAIN graph /\ s.stack[j].index \in Nat \ {0}
  <2>1. \A j \in 1..m : s.stack[j] \in Frame(graph)
    BY <1>1
  <2> HIDE DEF m
  <2> QED
    BY <2>1 DEF Frame
<1>4. v \in DOMAIN graph /\ Len(graph[v]) \in Nat /\ k \in 1..Len(graph[v])
  <2>1. v \in DOMAIN graph /\ Len(graph[v]) \in Nat /\ k \in Nat \ {0}
    BY <1>2, <1>3, GraphType
  <2>2. k <= Len(graph[v])
    OBVIOUS
  <2> HIDE DEF v, k
  <2> QED
    BY <2>1, <2>2
<1>5. v \notin Left(s) /\ \A j \in 1..m : s.stack[j].node = v => j = m
  BY <1>2 DEF Left, Searched, Path
<1>6. p \in Places(graph) \ Looked(graph, s)
  <2>1. p \in Places(graph) /\ p[1] = v /\ p[2] = k
    BY <1>4 DEF Places
  <2>2. ~(k < k)
    BY <1>4
  <2>3. \A j \in 1..m : s.stack[j].node = v => s.stack[j].index = k
    BY <1>5
  <2> HIDE DEF p, v, k
  <2> QED
    BY <1>5, <2>1, <2>2, <2>3 DEF Looked
<1> DEFINE Before(t, r) == \E j \in 1..Len(t.stack) : t.stack[j].node = r[1] /\ r[2] < t.stack[j].index
<1>7. ASSUME NEW r \in Places(graph), r[2] # 0
      PROVE  Before(z, r) <=> Before(s, r) \/ r = p
  <2>1. r[2] \in Nat \ {0} /\ r = <<r[1], r[2]>>
    BY <1>7, GraphType DEF Places
  <2>2. ASSUME NEW j \in 1..m, s.stack[j].node = r[1]
        PROVE  r[2] < z.stack[j].index <=> r[2] < s.stack[j].index \/ r = p
    <3>1. CASE j = m
      <4>1. r[1] = v /\ z.stack[j].index = k + 1 /\ s.stack[j].index = k
        BY <2>2, <3>1
      <4>2. r = p <=> r[2] = k
        BY <2>1, <4>1
      <4> HIDE DEF v, k, p, m
      <4> QED
        BY <1>4, <2>1, <4>1, <4>2
    <3>2. CASE j # m
      <4>1. r[1] # v /\ z.stack[j].index = s.stack[j].index
        BY <1>5, <2>2, <3>2
      <4> QED
        BY <4>1
    <3> QED
      BY <3>1, <3>2
  <2>3. ASSUME NEW j \in 1..Len(z.stack), j \notin 1..m PROVE ~(r[2] < z.stack[j].index)
    <3>1. j = m + 1 /\ Len(z.stack) = m + 1
      BY <1>2, <2>3
    <3>2. z.stack[j].index = 1
      BY <1>2, <3>1
    <3> QED
      BY <2>1, <3>2
  <2>4. \A j \in 1..m : j \in 1..Len(z.stack)
    BY <1>2
  <2>5. r = p => Before(z, r)
    <3>1. r = p => r[1] = v
      OBVIOUS
    <3> QED
      BY <1>2, <2>2, <2>4, <3>1
  <2>6. \A j \in 1..m : z.stack[j].node = s.stack[j].node
    OBVIOUS
  <2> HIDE DEF p, m, v, k
  <2> QED
    BY <2>2, <2>3, <2>4, <2>5, <2>6 DEF m
<1>8. ASSUME NEW r \in Places(graph)
      PROVE  r \in Looked(graph, z) <=> r \in Looked(graph, s) \/ r = p
  <2>1. r = p => r[2] # 0
    BY <1>4
  <2>2. r \in Looked(graph, z) <=> r[1] \in Left(s) \/ (r[2] # 0 /\ Before(z, r))
    BY DEF Looked
  <2>3. r \in Looked(graph, s) <=> r[1] \in Left(s) \/ (r[2] # 0 /\ Before(s, r))
    BY DEF Looked
  <2> HIDE DEF Before, p
  <2> QED
    BY <1>7, <2>1, <2>2, <2>3
<1>9. Looked(graph, z) = Looked(graph, s) \cup {p}
  <2>1. Looked(graph, z) \subseteq Places(graph) /\ Looked(graph, s) \subseteq Places(graph)
    BY DEF Looked
  <2> HIDE DEF p
  <2> QED
    BY <1>6, <1>8, <2>1
<1> HIDE DEF p
<1> QED
  BY <1>6, <1>9

\* The task on top depends on one below it: those from there on are in a cycle.
LEMMA CycleFound ==
  ASSUME NEW graph, IsGraph(graph), NEW s, Searched(graph, s), ~Ended(s),
         NEW dep, dep \in Depends(graph)[s.stack[Len(s.stack)].node], dep \in s.onStack
  PROVE  ~Acyclic(Depends(graph))
<1> DEFINE m == Len(s.stack)
<1>1. s.stack \in Seq(Frame(graph)) /\ s.stack # <<>>
  BY DEF Searched, SearchType, Ended
<1>2. m \in Nat /\ m >= 1 /\ m \in 1..m
  BY <1>1
<1>3. \A j \in 1..m : s.stack[j].node \in DOMAIN graph /\ s.stack[j].index \in Nat \ {0}
  <2>1. \A j \in 1..m : s.stack[j] \in Frame(graph)
    BY <1>1
  <2> HIDE DEF m
  <2> QED
    BY <2>1 DEF Frame
<1>4. PICK i \in 1..m : s.stack[i].node = dep
  BY DEF Searched, Path
<1> DEFINE C == {s.stack[j].node : j \in i..m}
<1>5. C \subseteq DOMAIN graph /\ dep \in C
  BY <1>2, <1>3, <1>4
<1>6. ASSUME NEW j \in i..m PROVE Depends(graph)[s.stack[j].node] \cap C # {}
  <2>1. CASE j = m
    BY <1>5, <2>1
  <2>2. CASE j # m
    <3>1. j \in 1..m /\ j + 1 \in 1..m /\ j + 1 \in i..m
      BY <1>2, <2>2
    <3>2. /\ s.stack[j].index > 1
          /\ s.stack[j + 1].node = graph[s.stack[j].node][s.stack[j].index - 1]
          /\ s.stack[j].index <= Len(graph[s.stack[j].node]) + 1
      BY <3>1 DEF Searched, Path
    <3>3. s.stack[j].index - 1 \in 1..Len(graph[s.stack[j].node])
      <4>1. s.stack[j].index \in Nat /\ Len(graph[s.stack[j].node]) \in Nat
        BY <1>3, <3>1, GraphType
      <4> QED
        BY <3>2, <4>1
    <3>4. s.stack[j + 1].node \in Depends(graph)[s.stack[j].node]
      BY <1>3, <3>1, <3>2, <3>3, GraphType
    <3> QED
      BY <3>1, <3>4
  <2> QED
    BY <2>1, <2>2
<1>7. \A t \in C : Depends(graph)[t] \cap C # {}
  BY <1>6
<1> HIDE DEF C
<1> QED
  BY <1>5, <1>7, GraphType DEF Acyclic

\* One turn: the search goes on with one thing more done, or ends.
LEMMA TurnSearched ==
  ASSUME NEW graph, IsGraph(graph), NEW s, Searched(graph, s), ~Ended(s)
  PROVE  /\ Searched(graph, Turn(graph, s)) /\ s.visited \subseteq Turn(graph, s).visited
         /\ \/ Turn(graph, s).cycle
            \/ \E p \in Places(graph) \ Looked(graph, s) :
                 Looked(graph, Turn(graph, s)) = Looked(graph, s) \cup {p}
<1> DEFINE m == Len(s.stack)
           v == s.stack[m].node
           k == s.stack[m].index
           dep == graph[v][k]
           y == Counted(s)
           z == Turn(graph, s)
<1>1. /\ s.stack \in Seq(Frame(graph)) /\ s.stack # <<>> /\ s.cycle = FALSE
      /\ s.visited \in SUBSET DOMAIN graph /\ s.onStack \in SUBSET DOMAIN graph
  BY DEF Searched, SearchType, Ended
<1>2. m \in Nat /\ m >= 1 /\ m \in 1..m
  BY <1>1
<1>3. v \in DOMAIN graph /\ k \in Nat \ {0} /\ Len(graph[v]) \in Nat
  <2>1. s.stack[m] \in Frame(graph)
    BY <1>1, <1>2
  <2>2. v \in DOMAIN graph /\ k \in Nat \ {0}
    <3> HIDE DEF m
    <3> QED
      BY <2>1 DEF Frame
  <2> HIDE DEF v, k
  <2> QED
    BY <2>2, GraphType
<1>4. CASE k > Len(graph[v])
  <2>1. z = Popped(s)
    BY <1>4 DEF Turn
  <2> QED
    BY <1>4, <2>1, PoppedSearched
<1>5. CASE k <= Len(graph[v])
  <2>1. z = IF dep \in s.onStack THEN [y EXCEPT !.cycle = TRUE]
            ELSE IF dep \in s.visited THEN y ELSE Pushed(y, dep)
    <3>1. ~(k > Len(graph[v]))
      <4> HIDE DEF k, v
      <4> QED
        BY <1>3, <1>5
    <3> QED
      BY <3>1 DEF Turn
  <2>2. /\ SearchType(graph, y) /\ Path(graph, y)
        /\ y = [stack |-> y.stack, visited |-> s.visited, onStack |-> s.onStack, cycle |-> FALSE]
        /\ Len(y.stack) = m
        /\ \A j \in 1..m :
             /\ y.stack[j].node = s.stack[j].node
             /\ y.stack[j].index = IF j = m THEN s.stack[j].index + 1 ELSE s.stack[j].index
    BY <1>5, LookedAt
  <2> HIDE DEF y, z
  <2>3. y.visited = s.visited /\ y.onStack = s.onStack /\ y.cycle = FALSE /\ Left(y) = Left(s)
    BY <2>2 DEF Left
  <2>4. k \in 1..Len(graph[v]) /\ dep \in DOMAIN graph /\ dep \in Depends(graph)[v]
    <3>1. k \in 1..Len(graph[v])
      <4> HIDE DEF k, v
      <4> QED
        BY <1>3, <1>5
    <3> HIDE DEF k, v
    <3> QED
      BY <1>3, <3>1, GraphType
  <2>5. Settled(Depends(graph), Left(s))
    BY DEF Searched
  <2>6. \A j \in 1..m : \A i \in 1..Len(graph[s.stack[j].node]) : i < y.stack[j].index =>
          \/ graph[s.stack[j].node][i] \in Left(s)
          \/ j + 1 \in 1..m /\ i = y.stack[j].index - 1
          \/ j = m /\ i = k
    <3> SUFFICES ASSUME NEW j \in 1..m, NEW i \in 1..Len(graph[s.stack[j].node]),
                        i < y.stack[j].index
                 PROVE  \/ graph[s.stack[j].node][i] \in Left(s)
                        \/ j + 1 \in 1..m /\ i = y.stack[j].index - 1
                        \/ j = m /\ i = k
      OBVIOUS
    <3>1. Passed(graph, s)
      BY <1>1 DEF Searched
    <3>2. CASE j # m
      <4>1. y.stack[j].index = s.stack[j].index
        BY <2>2, <3>2
      <4> QED
        BY <3>1, <4>1 DEF Passed
    <3>3. CASE j = m
      <4>1. y.stack[m].index = k + 1 /\ m + 1 \notin 1..m
        BY <1>2, <2>2
      <4>2. i = k \/ i < k
        <5> HIDE DEF k
        <5> QED
          BY <1>3, <3>3, <4>1
      <4> QED
        BY <3>1, <3>3, <4>1, <4>2 DEF Passed
    <3> QED
      BY <3>2, <3>3
  <2>7. CASE dep \in s.onStack
    <3>1. z = [stack |-> y.stack, visited |-> s.visited, onStack |-> s.onStack, cycle |-> TRUE]
      <4> HIDE DEF dep
      <4>1. z = [y EXCEPT !.cycle = TRUE]
        BY <2>1, <2>7
      <4>2. y = [stack |-> y.stack, visited |-> s.visited, onStack |-> s.onStack,
                 cycle |-> FALSE]
        BY <2>2
      <4>3. DOMAIN y = {"stack", "visited", "onStack", "cycle"}
        BY <4>2
      <4> QED
        BY <2>3, <4>1, <4>3
    <3>2. ~Acyclic(Depends(graph))
      <4> HIDE DEF dep
      <4> QED
        BY <2>4, <2>7, CycleFound
    <3>3. /\ z.stack = y.stack /\ z.visited = s.visited /\ z.onStack = s.onStack
          /\ z.cycle = TRUE
      BY <3>1
    <3>4. SearchType(graph, z)
      BY <1>1, <2>2, <3>1 DEF SearchType
    <3>5. Path(graph, z)
      BY <2>2, <2>3, <3>3 DEF Path
    <3>6. Left(z) = Left(s)
      BY <3>3 DEF Left
    <3> QED
      BY <2>5, <3>2, <3>3, <3>4, <3>5, <3>6 DEF Searched, z
  <2>8. CASE dep \notin s.onStack /\ dep \in s.visited
    <3>1. z = y
      BY <2>1, <2>8
    <3>2. dep \in Left(s)
      BY <2>8 DEF Left
    <3>3. Passed(graph, z)
      BY <2>2, <2>3, <2>6, <3>1, <3>2 DEF Passed
    <3>4. Searched(graph, z)
      BY <2>2, <2>3, <2>5, <3>1, <3>3 DEF Searched
    <3>5. \E p \in Places(graph) \ Looked(graph, s) :
             Looked(graph, z) = Looked(graph, s) \cup {p}
      BY <1>5, <2>2, <2>3, <3>1, LookedMore
    <3> QED
      BY <2>3, <3>1, <3>4, <3>5 DEF z
  <2>9. CASE dep \notin s.onStack /\ dep \notin s.visited
    <3> DEFINE new == [node |-> dep, index |-> 1]
    <3>1. z = [stack |-> Append(y.stack, new), visited |-> s.visited \cup {dep},
               onStack |-> s.onStack \cup {dep}, cycle |-> FALSE]
      <4> HIDE DEF dep
      <4>1. z = [y EXCEPT !.stack = Append(y.stack, new), !.visited = y.visited \cup {dep},
                          !.onStack = y.onStack \cup {dep}]
        BY <2>1, <2>9 DEF Pushed
      <4> HIDE DEF new
      <4> QED
        BY <2>2, <2>3, <4>1
    <3>2. /\ z.stack = Append(y.stack, new) /\ z.visited = s.visited \cup {dep}
          /\ z.onStack = s.onStack \cup {dep} /\ z.cycle = FALSE
      BY <3>1
    <3>3. new \in Frame(graph) /\ y.stack \in Seq(Frame(graph))
      <4>1. new \in Frame(graph)
        <5> HIDE DEF dep
        <5> QED
          BY <2>4 DEF Frame
      <4> QED
        BY <2>2, <4>1 DEF SearchType
    <3>4. /\ z.stack \in Seq(Frame(graph)) /\ Len(z.stack) = m + 1
          /\ \A j \in 1..m : z.stack[j] = y.stack[j]
          /\ z.stack[m + 1] = new
      <4> HIDE DEF new
      <4> QED
        BY <2>2, <3>2, <3>3, AppendProperties
    <3>5. z.stack[m + 1].node = dep /\ z.stack[m + 1].index = 1
      BY <3>4
    <3>6. SearchType(graph, z)
      <4> HIDE DEF dep, new
      <4> QED
        BY <1>1, <2>4, <3>1, <3>4 DEF SearchType
    <3>7. Left(z) = Left(s)
      <4> HIDE DEF dep
      <4> QED
        BY <2>9, <3>2 DEF Left
    <3> HIDE DEF dep, new
    <3>8. /\ 1..(m + 1) = 1..m \cup {m + 1} /\ m + 1 \notin 1..m
          /\ \A j \in 1..m : j + 1 \in 1..(m + 1)
      BY <1>2
    <3>9. Path(graph, z)
      <4>1. Path(graph, y)
        BY <2>2
      <4>2. \A t \in z.onStack : \E j \in 1..(m + 1) : z.stack[j].node = t
        BY <2>2, <2>3, <3>2, <3>4, <3>5, <3>8, <4>1 DEF Path
      <4>3. ASSUME NEW j \in 1..(m + 1)
            PROVE  /\ z.stack[j].node \in z.onStack
                   /\ z.stack[j].index <= Len(graph[z.stack[j].node]) + 1
        <5>1. CASE j = m + 1
          <6>1. Len(graph[dep]) \in Nat
            BY <2>4, GraphType
          <6>2. 1 <= Len(graph[dep]) + 1
            BY <6>1
          <6> QED
            BY <3>2, <3>5, <5>1, <6>2
        <5>2. CASE j \in 1..m
          BY <2>2, <2>3, <3>2, <3>4, <4>1, <5>2 DEF Path
        <5> QED
          BY <3>8, <5>1, <5>2
      <4>4. ASSUME NEW i \in 1..(m + 1), NEW j \in 1..(m + 1),
                   z.stack[i].node = z.stack[j].node
            PROVE  i = j
        <5>1. \A l \in 1..m : z.stack[l].node # dep
          BY <2>2, <2>3, <2>9, <3>4, <4>1 DEF Path
        <5>2. \A l, n \in 1..m : z.stack[l].node = z.stack[n].node => l = n
          BY <2>2, <3>4, <4>1 DEF Path
        <5> QED
          BY <3>5, <3>8, <4>4, <5>1, <5>2
      <4>5. ASSUME NEW j \in 1..(m + 1), j + 1 \in 1..(m + 1)
            PROVE  /\ z.stack[j].index > 1
                   /\ z.stack[j + 1].node = graph[z.stack[j].node][z.stack[j].index - 1]
        <5>1. CASE j = m
          <6>1. y.stack[m].index = k + 1 /\ y.stack[m].node = v
            BY <1>2, <2>2
          <6>2. z.stack[m].index = k + 1 /\ z.stack[m].node = v
            BY <1>2, <3>4, <6>1
          <6>3. k + 1 > 1 /\ (k + 1) - 1 = k
            <7> HIDE DEF k
            <7> QED
              BY <1>3
          <6>4. z.stack[m + 1].node = graph[v][k]
            BY <3>5 DEF dep
          <6> HIDE DEF k, v
          <6> QED
            BY <5>1, <6>2, <6>3, <6>4
        <5>2. CASE j # m
          <6>1. j \in 1..m /\ j + 1 \in 1..m
            BY <1>2, <4>5, <5>2
          <6> QED
            BY <2>2, <3>4, <4>1, <6>1 DEF Path
        <5> QED
          BY <5>1, <5>2
      <4>6. z.onStack \subseteq z.visited
        BY <3>2, <4>1, <2>3 DEF Path
      <4> QED
        BY <3>4, <4>2, <4>3, <4>4, <4>5, <4>6 DEF Path
    <3>10. Passed(graph, z)
      <4> SUFFICES ASSUME NEW j \in 1..(m + 1), NEW i \in 1..Len(graph[z.stack[j].node]),
                          i < z.stack[j].index
                   PROVE  \/ graph[z.stack[j].node][i] \in Left(s)
                          \/ j + 1 \in 1..(m + 1) /\ i = z.stack[j].index - 1
        BY <3>4, <3>7 DEF Passed
      <4>1. CASE j = m + 1
        BY <3>5, <4>1
      <4>2. CASE j \in 1..m
        <5>1. /\ z.stack[j].node = s.stack[j].node /\ z.stack[j].index = y.stack[j].index
              /\ j + 1 \in 1..(m + 1)
          BY <2>2, <3>4, <3>8, <4>2
        <5>2. j = m /\ i = k => i = z.stack[j].index - 1
          <6>1. y.stack[m].index = k + 1
            BY <1>2, <2>2
          <6>2. (k + 1) - 1 = k
            <7> HIDE DEF k
            <7> QED
              BY <1>3
          <6> HIDE DEF k
          <6> QED
            BY <5>1, <6>1, <6>2
        <5> QED
          BY <2>6, <4>2, <5>1, <5>2
      <4> QED
        BY <3>8, <4>1, <4>2
    <3>11. Searched(graph, z)
      BY <2>5, <3>2, <3>6, <3>7, <3>9, <3>10 DEF Searched
    <3>12. \E p \in Places(graph) \ Looked(graph, s) :
              Looked(graph, z) = Looked(graph, s) \cup {p}
      <4>1. \A j \in 1..m : z.stack[j].node = s.stack[j].node
               /\ z.stack[j].index = IF j = m THEN s.stack[j].index + 1 ELSE s.stack[j].index
        BY <2>2, <3>4
      <4>2. Len(z.stack) \in {m, m + 1} /\ (Len(z.stack) # m => z.stack[Len(z.stack)].index = 1)
        BY <3>4, <3>5
      <4> QED
        BY <1>5, <3>7, <4>1, <4>2, LookedMore
    <3> QED
      BY <3>2, <3>11, <3>12 DEF z
  <2> QED
    BY <2>7, <2>8, <2>9
<1>6. k > Len(graph[v]) \/ k <= Len(graph[v])
  <2> HIDE DEF k, v
  <2> QED
    BY <1>3
<1> QED
  BY <1>4, <1>5, <1>6

\* There is finitely much to do.
LEMMA PlacesFinite ==
  ASSUME NEW graph, IsGraph(graph)
  PROVE  IsFiniteSet(Places(graph))
<1> DEFINE m == Len(graph)
           S == {k \in Nat : k <= m => IsFiniteSet(UNION {{t} \X (0..Len(graph[t])) : t \in 1..k})}
<1>1. m \in Nat /\ DOMAIN graph = 1..m /\ \A t \in 1..m : Len(graph[t]) \in Nat
  BY GraphType
<1>2. 0 \in S
  <2>1. UNION {{t} \X (0..Len(graph[t])) : t \in 1..0} = {}
    OBVIOUS
  <2> QED
    BY <2>1, FS_EmptySet
<1>3. ASSUME NEW k \in Nat, k \in S PROVE k + 1 \in S
  <2> SUFFICES ASSUME k + 1 <= m
               PROVE  IsFiniteSet(UNION {{t} \X (0..Len(graph[t])) : t \in 1..(k + 1)})
    OBVIOUS
  <2> DEFINE before == UNION {{t} \X (0..Len(graph[t])) : t \in 1..k}
             new == {k + 1} \X (0..Len(graph[k + 1]))
  <2>1. IsFiniteSet(before)
    BY <1>1, <1>3
  <2>2. IsFiniteSet(new)
    <3>1. Len(graph[k + 1]) \in Nat
      BY <1>1
    <3>2. IsFiniteSet({k + 1})
      BY FS_Singleton
    <3>3. IsFiniteSet(0..Len(graph[k + 1]))
      <4>1. \A n \in Nat : IsFiniteSet(0..n)
        BY FS_Interval
      <4> QED
        BY <3>1, <4>1
    <3> QED
      BY <3>2, <3>3, FS_Product
  <2>3. UNION {{t} \X (0..Len(graph[t])) : t \in 1..(k + 1)} = before \cup new
    <3>1. 1..(k + 1) = 1..k \cup {k + 1}
      OBVIOUS
    <3> QED
      BY <3>1
  <2>4. IsFiniteSet(before \cup new)
    <3> HIDE DEF before, new
    <3> QED
      BY <2>1, <2>2, FS_Union
  <2> QED
    BY <2>3, <2>4
<1> HIDE DEF S
<1>4. \A k \in Nat : k \in S
  BY <1>2, <1>3, NumberInduction
<1>5. IsFiniteSet(UNION {{t} \X (0..Len(graph[t])) : t \in 1..m})
  <2>1. m \in S
    BY <1>1, <1>4
  <2> HIDE DEF m
  <2> QED
    BY <1>1, <2>1 DEF S
<1> QED
  BY <1>1, <1>5 DEF Places

\* The search starts with one task on the stack.
LEMMA SearchStarts ==
  ASSUME NEW graph, IsGraph(graph), NEW start \in DOMAIN graph,
         NEW s, s = Pushed([stack |-> <<>>, visited |-> {}, onStack |-> {}, cycle |-> FALSE], start)
  PROVE  Searched(graph, s) /\ start \in s.visited /\ Looked(graph, s) = {}
<1> DEFINE frame == [node |-> start, index |-> 1]
<1>1. s = [stack |-> <<frame>>, visited |-> {start}, onStack |-> {start}, cycle |-> FALSE]
  <2> DEFINE nothing == [stack |-> <<>>, visited |-> {}, onStack |-> {}, cycle |-> FALSE]
  <2>1. s = [nothing EXCEPT !.stack = Append(nothing.stack, frame),
                            !.visited = nothing.visited \cup {start},
                            !.onStack = nothing.onStack \cup {start}]
    BY DEF Pushed
  <2>2. Append(<<>>, frame) = <<frame>>
    OBVIOUS
  <2>3. nothing = [stack |-> nothing.stack, visited |-> nothing.visited,
                   onStack |-> nothing.onStack, cycle |-> nothing.cycle]
    OBVIOUS
  <2>4. /\ nothing.stack = <<>> /\ nothing.visited = {} /\ nothing.onStack = {}
        /\ nothing.cycle = FALSE
    OBVIOUS
  <2> HIDE DEF frame, nothing
  <2>5. s = [stack |-> Append(nothing.stack, frame), visited |-> nothing.visited \cup {start},
             onStack |-> nothing.onStack \cup {start}, cycle |-> nothing.cycle]
    BY <2>1, <2>3
  <2> QED
    BY <2>2, <2>4, <2>5
<1>2. frame \in Frame(graph)
  BY DEF Frame
<1>3. /\ s.stack = <<frame>> /\ Len(s.stack) = 1 /\ s.stack[1] = frame
      /\ s.visited = {start} /\ s.onStack = {start} /\ s.cycle = FALSE
  BY <1>1
<1>4. s.stack[1].node = start /\ s.stack[1].index = 1
  BY <1>3
<1>5. SearchType(graph, s)
  <2>1. <<frame>> \in Seq(Frame(graph))
    BY <1>2
  <2>2. {start} \in SUBSET DOMAIN graph /\ FALSE \in BOOLEAN
    OBVIOUS
  <2>3. s = [stack |-> s.stack, visited |-> s.visited, onStack |-> s.onStack, cycle |-> s.cycle]
    BY <1>1
  <2>4. /\ s.stack \in Seq(Frame(graph)) /\ s.visited \in SUBSET DOMAIN graph
        /\ s.onStack \in SUBSET DOMAIN graph /\ s.cycle \in BOOLEAN
    BY <1>3, <2>1, <2>2
  <2> QED
    BY <2>3, <2>4 DEF SearchType
<1> HIDE DEF frame
<1>6. Left(s) = {}
  BY <1>3 DEF Left
<1>7. Len(graph[start]) \in Nat /\ \A j \in 1..1 : j = 1 /\ j + 1 \notin 1..1
  BY GraphType
<1>8. Path(graph, s)
  <2>1. 1 <= Len(graph[start]) + 1
    BY <1>7
  <2>2. 1 \in 1..1
    OBVIOUS
  <2>3. /\ s.onStack \subseteq s.visited /\ s.stack[1].node \in s.onStack
        /\ \A t \in s.onStack : s.stack[1].node = t
        /\ s.stack[1].index <= Len(graph[s.stack[1].node]) + 1
    BY <1>3, <1>4, <2>1
  <2>4. /\ \A t \in s.onStack : \E j \in 1..1 : s.stack[j].node = t
        /\ \A j \in 1..1 : /\ s.stack[j].node \in s.onStack
                          /\ s.stack[j].index <= Len(graph[s.stack[j].node]) + 1
        /\ \A i, j \in 1..1 : s.stack[i].node = s.stack[j].node => i = j
    BY <1>7, <2>2, <2>3
  <2>5. \A j \in 1..1 : j + 1 \in 1..1 =>
          /\ s.stack[j].index > 1
          /\ s.stack[j + 1].node = graph[s.stack[j].node][s.stack[j].index - 1]
    BY <1>7
  <2>6. Len(s.stack) = 1
    BY <1>3
  <2> QED
    BY <2>3, <2>4, <2>5, <2>6 DEF Path
<1>9. Passed(graph, s)
  <2> SUFFICES ASSUME NEW j \in 1..1, NEW i \in 1..Len(graph[s.stack[j].node]),
                      i < s.stack[j].index
               PROVE  FALSE
    BY <1>3 DEF Passed
  <2> QED
    BY <1>4, <1>7
<1>10. Settled(Depends(graph), Left(s))
  BY <1>6 DEF Settled
<1>11. Looked(graph, s) = {}
  <2> SUFFICES ASSUME NEW p \in Places(graph), p[2] # 0, NEW j \in 1..1,
                      p[2] < s.stack[j].index
               PROVE  FALSE
    BY <1>3, <1>6 DEF Looked
  <2>1. p[2] \in Nat
    BY GraphType DEF Places
  <2> QED
    BY <1>4, <1>7, <2>1
<1> QED
  BY <1>3, <1>5, <1>8, <1>9, <1>10, <1>11 DEF Searched

\* A search ends, with a cycle or with everything it met settled.
LEMMA SearchEnds ==
  ASSUME NEW graph, IsGraph(graph), NEW start \in DOMAIN graph
  PROVE  /\ Searched(graph, Search(graph, start)) /\ Ended(Search(graph, start))
         /\ start \in Search(graph, start).visited
<1> DEFINE k == Cardinality(Places(graph))
           nothing == [stack |-> <<>>, visited |-> {}, onStack |-> {}, cycle |-> FALSE]
           first == Pushed(nothing, start)
           X == {s \in [stack : Seq(Frame(graph)), visited : SUBSET DOMAIN graph,
                         onStack : SUBSET DOMAIN graph, cycle : BOOLEAN] : Searched(graph, s)}
           On(s) == IF Ended(s) THEN s ELSE Turn(graph, s)
           step == [s \in X |-> [n \in 1..k |-> On(s)]]
           after[n \in 0..k] == IF n = 0 THEN first
                                ELSE IF Ended(after[n - 1]) THEN after[n - 1]
                                ELSE Turn(graph, after[n - 1])
<1>1. IsFiniteSet(Places(graph)) /\ k \in Nat
  BY PlacesFinite, FS_CardinalityType
<1>2. \A s : s \in X <=> Searched(graph, s)
  BY DEF Searched, SearchType
<1>3. \A s \in X : On(s) \in X
  <2> HIDE DEF X
  <2> QED
    BY <1>2, TurnSearched
<1>4. Searched(graph, first) /\ start \in first.visited /\ Looked(graph, first) = {}
  <2> HIDE DEF first
  <2> QED
    BY SearchStarts DEF first
<1> HIDE DEF first, X
<1>5. PICK f \in [0..k -> X] : f[0] = first /\ \A n \in 1..k : f[n] = step[f[n - 1]][n]
  <2>1. step \in [X -> [1..k -> X]]
    <3> HIDE DEF On
    <3> QED
      BY <1>3
  <2>2. IsStep(step, X, k) /\ first \in X
    BY <1>2, <1>4, <2>1 DEF IsStep
  <2> HIDE DEF step, k
  <2>3. HasIterate(step, first, X, k)
    BY <1>1, <2>2, Iteration
  <2> QED
    BY <2>3 DEF HasIterate
<1>6. f = [n \in 0..k |-> IF n = 0 THEN first
                         ELSE IF Ended(f[n - 1]) THEN f[n - 1] ELSE Turn(graph, f[n - 1])]
  <2>1. DOMAIN f = 0..k
    OBVIOUS
  <2>2. ASSUME NEW n \in 1..k PROVE f[n] = On(f[n - 1])
    <3>1. f[n - 1] \in X
      BY <1>1
    <3> HIDE DEF On
    <3> QED
      BY <1>5, <3>1
  <2>3. \A n \in 0..k : f[n] = IF n = 0 THEN first
                         ELSE IF Ended(f[n - 1]) THEN f[n - 1] ELSE Turn(graph, f[n - 1])
    BY <1>1, <1>5, <2>2
  <2> QED
    BY <2>1, <2>3
<1>7. after = [n \in 0..k |-> IF n = 0 THEN first
                             ELSE IF Ended(after[n - 1]) THEN after[n - 1]
                             ELSE Turn(graph, after[n - 1])]
  BY <1>6
<1>8. Search(graph, start) = after[k]
  BY DEF Search, first
<1> HIDE DEF after
<1>9. after[0] = first /\ \A n \in 1..k : after[n] = On(after[n - 1])
  <2> HIDE DEF k
  <2>1. after[0] = first
    BY <1>1, <1>7
  <2>2. ASSUME NEW n \in 1..k PROVE after[n] = On(after[n - 1])
    <3>1. n \in 0..k /\ n # 0
      BY <1>1
    <3> QED
      BY <1>7, <3>1
  <2> QED
    BY <2>1, <2>2
<1> DEFINE Fine(n) == /\ Searched(graph, after[n]) /\ start \in after[n].visited
                      /\ Ended(after[n]) \/ (/\ IsFiniteSet(Looked(graph, after[n]))
                                             /\ Cardinality(Looked(graph, after[n])) = n)
           S == {n \in Nat : n <= k => Fine(n)}
<1>10. 0 \in S
  BY <1>4, <1>9, FS_EmptySet
<1>11. ASSUME NEW n \in Nat, n \in S PROVE n + 1 \in S
  <2> SUFFICES ASSUME n + 1 <= k PROVE Fine(n + 1)
    OBVIOUS
  <2>1. n + 1 \in 1..k /\ (n + 1) - 1 = n /\ n <= k
    BY <1>1
  <2>2. Fine(n)
    BY <1>11, <2>1
  <2>3. after[n + 1] = On(after[n])
    BY <1>9, <2>1
  <2>4. CASE Ended(after[n])
    BY <2>2, <2>3, <2>4
  <2>5. CASE ~Ended(after[n])
    <3>1. after[n + 1] = Turn(graph, after[n])
      BY <2>3, <2>5
    <3>2. /\ Searched(graph, after[n + 1]) /\ after[n].visited \subseteq after[n + 1].visited
          /\ \/ after[n + 1].cycle
             \/ \E p \in Places(graph) \ Looked(graph, after[n]) :
                  Looked(graph, after[n + 1]) = Looked(graph, after[n]) \cup {p}
      BY <2>2, <2>5, <3>1, TurnSearched
    <3>3. CASE after[n + 1].cycle
      BY <2>2, <3>2, <3>3 DEF Ended
    <3>4. CASE \E p \in Places(graph) \ Looked(graph, after[n]) :
                 Looked(graph, after[n + 1]) = Looked(graph, after[n]) \cup {p}
      <4>1. PICK p \in Places(graph) \ Looked(graph, after[n]) :
              Looked(graph, after[n + 1]) = Looked(graph, after[n]) \cup {p}
        BY <3>4
      <4>2. /\ IsFiniteSet(Looked(graph, after[n + 1]))
            /\ Cardinality(Looked(graph, after[n + 1])) = n + 1
        BY <2>2, <2>5, <4>1, FS_AddElement
      <4> QED
        BY <2>2, <3>2, <4>2
    <3> QED
      BY <3>2, <3>3, <3>4
  <2> QED
    BY <2>4, <2>5
<1> HIDE DEF S, Fine
<1>12. \A n \in Nat : n \in S
  BY <1>10, <1>11, NumberInduction
<1>13. Fine(k)
  BY <1>1, <1>12 DEF S
<1>14. Ended(after[k])
  <2> SUFFICES ASSUME ~Ended(after[k]) PROVE FALSE
    OBVIOUS
  <2> DEFINE s == after[k]
             v == s.stack[Len(s.stack)].node
  <2>1. Searched(graph, s) /\ Cardinality(Looked(graph, s)) = k
    BY <1>13 DEF Fine
  <2>2. Looked(graph, s) = Places(graph)
    <3>1. Looked(graph, s) \subseteq Places(graph)
      BY DEF Looked
    <3> HIDE DEF s
    <3> QED
      BY <1>1, <2>1, <3>1, FS_Subset
  <2>3. s.stack \in Seq(Frame(graph)) /\ s.stack # <<>>
    BY <2>1 DEF Searched, SearchType, Ended
  <2> HIDE DEF s
  <2>4. Len(s.stack) \in 1..Len(s.stack) /\ s.stack[Len(s.stack)] \in Frame(graph)
    BY <2>3
  <2>5. v \in s.onStack
    BY <2>1, <2>4 DEF Searched, Path
  <2>6. v \in DOMAIN graph
    BY <2>4 DEF Frame
  <2> HIDE DEF v
  <2>7. <<v, 0>> \in Places(graph)
    BY <2>6, GraphType DEF Places
  <2>8. <<v, 0>> \notin Looked(graph, s)
    BY <2>5 DEF Looked, Left
  <2> QED
    BY <2>2, <2>7, <2>8
<1> QED
  BY <1>8, <1>13, <1>14 DEF Fine

\* validate_dag accepts a chain just when its dependencies have no cycle.
THEOREM AcceptedAcyclic ==
  ASSUME NEW graph, IsGraph(graph)
  PROVE  Accepted(graph) <=> Acyclic(Depends(graph))
<1> DEFINE depends == Depends(graph)
<1>1. ASSUME Accepted(graph), NEW B \in SUBSET DOMAIN depends, B # {}
      PROVE  \E b \in B : depends[b] \cap B = {}
  <2>1. PICK t \in B : TRUE
    BY <1>1
  <2>2. t \in DOMAIN graph
    BY GraphType
  <2> DEFINE s == Search(graph, t)
  <2>3. Searched(graph, s) /\ Ended(s) /\ t \in s.visited /\ ~s.cycle
    BY <1>1, <2>2, SearchEnds DEF Accepted
  <2> HIDE DEF s
  <2>4. s.stack = <<>>
    BY <2>3 DEF Ended
  <2>5. Len(s.stack) = 0 /\ 1..0 = {}
    BY <2>4
  <2>6. s.onStack = {}
    BY <2>3, <2>5 DEF Searched, Path
  <2>7. t \in Left(s) /\ Settled(depends, Left(s))
    BY <2>3, <2>6 DEF Left, Searched
  <2>8. PICK b \in B \cap Left(s) : depends[b] \cap (B \cap Left(s)) = {}
    BY <2>1, <2>7 DEF Settled
  <2>9. depends[b] \subseteq Left(s)
    BY <2>7, <2>8 DEF Settled
  <2> QED
    BY <2>8, <2>9
<1>2. Accepted(graph) => Acyclic(depends)
  <2> HIDE DEF depends
  <2> SUFFICES ASSUME Accepted(graph), NEW B \in (SUBSET DOMAIN depends) \ {{}}
               PROVE  \E b \in B : depends[b] \cap B = {}
    BY DEF Acyclic
  <2> QED
    BY <1>1
<1>3. Acyclic(depends) => Accepted(graph)
  BY SearchEnds DEF Accepted, Searched
<1> QED
  BY <1>2, <1>3

-----------------------------------------------------------------------------
(* What they are for the chain.                                             *)

\* Whatever the order of its groups, the round-robin of advance_dag starts what
\* a tick of this model may start, and each such choice is one of its results.
THEOREM RoundRobinFair == RoundRobinIsFair
<1> SUFFICES ASSUME NEW q \in Queues
             PROVE  {RoundRobin(q, order) : order \in Orders(q)}
                      = {R \in SUBSET q.eligible : Selection(q, R)}
  BY DEF RoundRobinIsFair
<1>1. IsQueue(q)
  BY ChainAssumption
<1> QED
  BY <1>1, RoundRobinSelects, RoundRobinReaches

\* Every search of validate_dag ends, and together they find a cycle just when
\* there is one.
THEOREM CyclesFound == AcceptedIsAcyclic
<1> SUFFICES ASSUME NEW graph \in Graphs
             PROVE  /\ \A t \in DOMAIN graph : Ended(Search(graph, t))
                    /\ Accepted(graph) <=> Acyclic(Depends(graph))
  BY DEF AcceptedIsAcyclic
<1>1. IsGraph(graph)
  BY ChainAssumption
<1> QED
  BY <1>1, SearchEnds, AcceptedAcyclic

\* The end of a backoff changes nothing of what waits, runs or is done.
LEMMA AwakeStatus ==
  ASSUME NEW root \in Chain, now \in Nat
  PROVE  /\ With(Awake(root), Waiting) = With(root, Waiting)
         /\ Running(Awake(root)) = Running(root)
         /\ With(Awake(root), Done) = With(root, Done)
<1>1. /\ root.task \in [Tasks -> Task]
      /\ Awake(root).task = [t \in Tasks |->
           IF root.task[t].status = "retry_scheduled" /\ now >= root.task[t].backoff
           THEN [root.task[t] EXCEPT !.status = "pending", !.backoff = 0]
           ELSE root.task[t]]
  BY DEF Awake, Chain
<1>2. ASSUME NEW t \in Tasks
      PROVE  \/ StatusOf(Awake(root), t) = StatusOf(root, t)
             \/ StatusOf(root, t) = "retry_scheduled" /\ StatusOf(Awake(root), t) = "pending"
  <2>1. root.task[t] \in Task
    BY <1>1
  <2>2. CASE root.task[t].status = "retry_scheduled" /\ now >= root.task[t].backoff
    <3>1. Awake(root).task[t] = [root.task[t] EXCEPT !.status = "pending", !.backoff = 0]
      BY <1>1, <2>2
    <3> QED
      BY <2>1, <2>2, <3>1 DEF Task, StatusOf
  <2>3. CASE ~(root.task[t].status = "retry_scheduled" /\ now >= root.task[t].backoff)
    <3>1. Awake(root).task[t] = root.task[t]
      BY <1>1, <2>3
    <3> QED
      BY <3>1 DEF StatusOf
  <2> QED
    BY <2>2, <2>3
<1>3. /\ \A t \in Tasks : StatusOf(Awake(root), t) \in Waiting <=> StatusOf(root, t) \in Waiting
      /\ \A t \in Tasks : StatusOf(Awake(root), t) \in {"running"} <=> StatusOf(root, t) \in {"running"}
      /\ \A t \in Tasks : StatusOf(Awake(root), t) \in Done <=> StatusOf(root, t) \in Done
  BY <1>2 DEF Waiting, Done
<1> QED
  BY <1>3 DEF With, Running

\* What advance_dag hands to its round-robin is a queue.
LEMMA QueueOfChain ==
  ASSUME NEW root \in Chain
  PROVE  IsQueue(Queue(root))
<1>1. Eligible(root) \in SUBSET Tasks /\ Running(root) \in SUBSET Tasks
  BY DEF Eligible, Running, With
<1>2. Eligible(root) \cap Running(root) = {}
  BY DEF Eligible, Running, With, Waiting
<1>3. Tasks \subseteq Nat
  BY DEF Tasks
<1> QED
  BY <1>1, <1>2, <1>3, TasksFinite, ChainAssumption DEF IsQueue, Queue

\* There always is something a tick may choose, if only nothing: a call of
\* chain_dag_tick that has read a chain can go on to write one.
THEOREM TickCanChoose ==
  Spec => [](\A c \in Callers : call[c] # None => Selections(call[c]) # {})
<1>1. TypeOK => \A c \in Callers : call[c] # None => Selections(call[c]) # {}
  <2> SUFFICES ASSUME TypeOK, NEW c \in Callers, call[c] # None
               PROVE  Selections(call[c]) # {}
    OBVIOUS
  <2> DEFINE root == call[c]
             q == Queue(Awake(root))
  <2>1. root \in Chain /\ now \in Nat
    BY DEF TypeOK
  <2> HIDE DEF root
  <2>2. IsQueue(q)
    BY <2>1, AwakeLater, QueueOfChain
  <2> HIDE DEF q
  <2>3. PICK order \in Orders(q) : TRUE
    BY <2>2, GreatestFirst
  <2>4. RoundRobin(q, order) \in {R \in SUBSET q.eligible : Selection(q, R)}
    BY <2>2, RoundRobinSelects
  <2>5. Held(root) => {} \in Selections(root)
    BY DEF Selections
  <2>6. ~Held(root) => RoundRobin(q, order) \in Selections(root)
    BY <2>4 DEF Selections, q
  <2> QED
    BY <2>5, <2>6 DEF root
<1> QED
  BY <1>1, ChainTypeCorrect, PTL

\* A group that runs nothing may start what it has.
LEMMA IdleStarts ==
  ASSUME NEW q, IsQueue(q), q.running = {}, q.eligible # {}, q.limit # 0,
         Selection(q, {})
  PROVE  FALSE
<1>1. q.limit \in Nat /\ q.limit >= 1 /\ Cap(q.limit) >= 1
  BY DEF IsQueue, Cap
<1>2. PICK t \in q.eligible : TRUE
  OBVIOUS
<1> DEFINE g == q.group[t]
<1>3. g \in AllGroups(q.group)
  BY DEF AllGroups, IsQueue
<1>4. Cardinality(q.running \cup {}) = 0 /\ Cardinality(Members(q.group, q.running \cup {}, g)) = 0
  <2>1. q.running \cup {} = {} /\ Members(q.group, q.running \cup {}, g) = {}
    BY DEF Members
  <2> QED
    BY <2>1, FS_EmptySet
<1>5. ~(Members(q.group, q.eligible, g) \subseteq {})
  BY DEF Members
<1> HIDE DEF g
<1>6. ~Spent(q, {}, g)
  BY <1>1, <1>4, <1>5 DEF Spent, Cap
<1> QED
  BY <1>1, <1>3, <1>4, <1>6 DEF Selection

\* The dependencies of a task are in its round or in an earlier one, and no task
\* has a condition.
Plain ==
  \A t \in Tasks : Condition[t] = None /\ \A d \in DependsOn[t] : Round[d] <= Round[t]

\* Some task of the first round that is not over can start.
LEMMA SomeEligible ==
  ASSUME NEW root \in Chain, Plain, With(root, Waiting) # {},
         \A t \in Tasks : StatusOf(root, t) \in Done \cup Waiting
  PROVE  Eligible(root) # {}
<1> DEFINE W == With(root, Waiting)
           rounds == {Round[t] : t \in W}
<1>1. W \subseteq Tasks /\ W # {} /\ \A t \in Tasks \ W : StatusOf(root, t) \in Done
  BY DEF With
<1>2. Round \in [Tasks -> Nat]
  BY ChainAssumption
<1>3. rounds \in SUBSET Nat /\ rounds # {}
  BY <1>1, <1>2
<1> HIDE DEF W
<1>4. PICK r \in rounds : \A s \in rounds : r <= s
  <2> HIDE DEF rounds
  <2> QED
    BY <1>3, LeastNumber
<1> DEFINE F == {t \in W : Round[t] = r}
<1>5. F # {} /\ F \subseteq Tasks
  BY <1>1, <1>4
<1>6. PICK t \in F : DependsOn[t] \cap F = {}
  <2>1. DOMAIN DependsOn = Tasks /\ Acyclic(DependsOn)
    BY ChainAssumption DEF ValidDag
  <2> HIDE DEF F
  <2>2. F \in (SUBSET DOMAIN DependsOn) \ {{}}
    BY <1>5, <2>1
  <2> QED
    BY <2>1, <2>2 DEF Acyclic
<1>7. t \in W /\ t \in Tasks /\ Round[t] = r
  BY <1>1, <1>6
<1>8. DependsOn[t] \subseteq Tasks
  BY <1>7, ChainAssumption
<1>9. \A u \in W : r <= Round[u]
  BY <1>4
<1>10. \A d \in DependsOn[t] : d \notin W
  <2> SUFFICES ASSUME NEW d \in DependsOn[t], d \in W PROVE FALSE
    OBVIOUS
  <2>1. Round[d] <= r /\ r <= Round[d]
    BY <1>7, <1>9 DEF Plain
  <2>2. Round[d] = r
    BY <1>2, <1>7, <1>8, <2>1
  <2> QED
    BY <1>6, <2>2
<1>11. DependenciesMet(root, t)
  BY <1>1, <1>8, <1>10 DEF DependenciesMet
<1>12. ConditionMet(root, t)
  BY <1>7 DEF ConditionMet, Plain
<1>13. BarrierOpen(root, t)
  <2> SUFFICES ASSUME NEW u \in Tasks, Round[u] < Round[t] PROVE StatusOf(root, u) \in Terminal
    BY DEF BarrierOpen
  <2>1. u \notin W
    BY <1>2, <1>7, <1>9
  <2> QED
    BY <1>1, <2>1 DEF Terminal
<1> QED
  BY <1>7, <1>11, <1>12, <1>13 DEF Eligible, W

\* The scheduler never stalls by itself: when nothing runs, has failed or is
\* blocked and some task still waits, every tick starts a task, in any chain
\* whose dependencies respect the rounds (advance_dag, validate_dag).
THEOREM NoStall ==
  ASSUME Plain, MaxConcurrent # 0
  PROVE  Spec => [](\A c \in Callers :
           /\ call[c] # None /\ ~call[c].paused
           /\ With(call[c], Waiting) # {}
           /\ \A t \in Tasks : StatusOf(call[c], t) \in Done \cup Waiting
           => {} \notin Selections(call[c]))
<1>1. TypeOK => \A c \in Callers :
        /\ call[c] # None /\ ~call[c].paused
        /\ With(call[c], Waiting) # {}
        /\ \A t \in Tasks : StatusOf(call[c], t) \in Done \cup Waiting
        => {} \notin Selections(call[c])
  <2> SUFFICES ASSUME TypeOK, NEW c \in Callers, call[c] # None, ~call[c].paused,
                      With(call[c], Waiting) # {},
                      \A t \in Tasks : StatusOf(call[c], t) \in Done \cup Waiting,
                      {} \in Selections(call[c])
               PROVE  FALSE
    OBVIOUS
  <2> DEFINE root == call[c]
             y == Awake(root)
             q == Queue(y)
  <2>1. root \in Chain /\ now \in Nat
    BY DEF TypeOK
  <2>2. ~Held(root)
    BY DEF Held
  <2>3. Selection(q, {})
    BY <2>2 DEF Selections
  <2> HIDE DEF root
  <2>4. y \in Chain /\ IsQueue(q)
    BY <2>1, AwakeLater, QueueOfChain
  <2>5. /\ With(y, Waiting) = With(root, Waiting) /\ Running(y) = Running(root)
        /\ With(y, Done) = With(root, Done)
    BY <2>1, AwakeStatus
  <2>6. With(root, Waiting) # {} /\ \A t \in Tasks : StatusOf(root, t) \in Done \cup Waiting
    BY DEF root
  <2> HIDE DEF y
  <2>7. \A t \in Tasks : StatusOf(y, t) \in Done \cup Waiting
    BY <2>5, <2>6 DEF With
  <2>8. Eligible(y) # {}
    BY <2>4, <2>5, <2>6, <2>7, SomeEligible
  <2>9. Running(y) = {}
    BY <2>7 DEF Running, With, Done, Waiting
  <2>10. q.eligible = Eligible(y) /\ q.running = Running(y) /\ q.limit = MaxConcurrent
    BY DEF Queue
  <2> HIDE DEF q
  <2> QED
    BY <2>3, <2>4, <2>8, <2>9, <2>10, IdleStarts
<1> QED
  BY <1>1, ChainTypeCorrect, PTL

=============================================================================
