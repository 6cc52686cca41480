--------------------------- MODULE BackgroundState ---------------------------
(***************************************************************************)
(* The durable background-job store: core/runtime-storage/background_state.*)
(*                                                                         *)
(* Several host processes call handle_background_state_operation on one    *)
(* state path.  Each call holds the path's advisory lock from its load to  *)
(* its last persist and every persist is an atomic replace, so one call is *)
(* one step here: load the file, reap, run the operation, persist.  What   *)
(* can go wrong inside a call is that the reap flush fails, that the       *)
(* operation is refused, or that its persist fails (or the process dies    *)
(* before it); the file then keeps what had been written before.           *)
(*                                                                         *)
(* A timestamp is the tick of a bounded clock; a job's fields that no      *)
(* branch of the store reads are left out.                                 *)
(***************************************************************************)
EXTENDS Naturals, FiniteSets

CONSTANTS
  Jobs,         \* job ids
  Sessions,     \* session ids
  Procs,        \* host processes
  None,         \* no job, no session, never
  Requests,     \* the statuses callers ask for in a mutation
  Limits,       \* the capacity limits a request may carry, after the clamp
  ReapTTL,      \* REAP_CACHE_TTL_SECS
  ActiveTTL,    \* STALE_ACTIVE_HEARTBEAT_TTL_SECS
  TerminalTTL,  \* STALE_TERMINAL_JOB_TTL_SECS
  MaxNow        \* bound of the clock

ASSUME ConstantsAssumption ==
  /\ IsFiniteSet(Jobs)
  /\ None \notin Jobs /\ None \notin Sessions /\ None \notin Nat
  /\ Limits \subseteq Nat \ {0}
  /\ ReapTTL \in Nat /\ ActiveTTL \in Nat /\ TerminalTTL \in Nat /\ MaxNow \in Nat

VARIABLES
  disk,         \* the state file: [jobs, owner, pending]
  lastReaped,   \* LAST_REAPED_AT of each process
  now           \* the wall clock

vars == <<disk, lastReaped, now>>

-----------------------------------------------------------------------------
(* Statuses and the job state machine.                                     *)

ActiveStatuses ==
  {"queued", "running", "interrupt_requested", "retry_scheduled", "retry_claimed"}

TerminalStatuses == {"completed", "failed", "interrupted", "retry_exhausted"}

KnownStatuses == ActiveStatuses \cup TerminalStatuses

ASSUME RequestsAssumption == Requests \subseteq KnownStatuses

\* "ghost" stands for any status string outside the state machine (a future
\* schema, a hand edit); "absent" marks a job id the store has no row for.
Statuses == KnownStatuses \cup {"ghost", "absent"}

\* validate_transition, as the statuses allowed after each prior status.
NextStatuses ==
  [prior \in Statuses |->
    CASE prior = "absent" -> KnownStatuses
      [] prior = "queued" ->
           {"queued", "running", "interrupt_requested", "interrupted", "failed"}
      [] prior = "running" ->
           {"running", "interrupt_requested", "completed", "failed",
            "interrupted", "retry_scheduled", "retry_exhausted"}
      [] prior = "interrupt_requested" -> {"interrupt_requested", "interrupted"}
      [] prior = "retry_scheduled" ->
           {"retry_scheduled", "retry_claimed", "interrupt_requested",
            "interrupted", "retry_exhausted"}
      [] prior = "retry_claimed" ->
           {"retry_claimed", "queued", "running", "interrupt_requested",
            "interrupted", "failed", "retry_scheduled", "retry_exhausted"}
      [] prior \in TerminalStatuses -> {prior}
      [] OTHER -> {}]

\* Fault: a failed or exhausted job may be queued again.
FaultRevivingTransition(prior, next) ==
  next \in NextStatuses[prior] \/ (prior \in {"failed", "completed"} /\ next = "running")

ValidTransition(prior, next) == next \in NextStatuses[prior]

-----------------------------------------------------------------------------
(* Views: the shape shared by the file and the store loaded from it.       *)

JobRow == [status: Statuses, session: Sessions \cup {None}, updatedAt: Nat]

Absent == [status |-> "absent", session |-> None, updatedAt |-> 0]

View == [jobs: [Jobs -> JobRow],
         owner: [Sessions -> Jobs \cup {None}],
         pending: [Sessions -> Jobs \cup {None}]]

Exists(d, j) == d.jobs[j].status # "absent"

IsActive(d, j) == j \in Jobs /\ d.jobs[j].status \in ActiveStatuses

IsTerminal(d, j) == d.jobs[j].status \in TerminalStatuses

IsGhost(d, j) == Exists(d, j) /\ ~IsActive(d, j) /\ ~IsTerminal(d, j)

ActiveIn(d, s) == {j \in Jobs : IsActive(d, j) /\ d.jobs[j].session = s}

\* An assignment of sessions to jobs, restricted to the jobs in Keep.
Retain(map, Keep) == [s \in Sessions |-> IF map[s] \in Keep THEN map[s] ELSE None]

-----------------------------------------------------------------------------
(* load: merge the file, then reap unless this process reaped recently.    *)

\* rebuild_active_sessions: the most recently updated active job of a session
\* wins (CHOOSE settles a tie, as the order of job ids does in the code).
RebuildOwners(d) ==
  [s \in Sessions |->
    IF ActiveIn(d, s) = {} THEN None
    ELSE CHOOSE j \in ActiveIn(d, s) :
           \A k \in ActiveIn(d, s) : d.jobs[k].updatedAt <= d.jobs[j].updatedAt]

PersistedOwners(d) ==
  IF \A s \in Sessions : d.owner[s] = None THEN RebuildOwners(d) ELSE d.owner

SessionKnown(d, s) == \E j \in Jobs : Exists(d, j) /\ d.jobs[j].session = s

MergePersisted(d) ==
  [jobs    |-> d.jobs,
   owner   |-> Retain(PersistedOwners(d), {j \in Jobs : IsActive(d, j)}),
   pending |-> [s \in Sessions |->
                 IF IsActive(d, d.pending[s]) \/ SessionKnown(d, s)
                 THEN d.pending[s] ELSE None]]

StaleActive(d, j) == IsActive(d, j) /\ now > d.jobs[j].updatedAt + ActiveTTL

StaleTerminal(d, j) == IsTerminal(d, j) /\ now > d.jobs[j].updatedAt + TerminalTTL

\* Fault: the stale-active pass forgets the heartbeat cutoff.
FaultReapAllActive(d) == {j \in Jobs : IsActive(d, j) \/ IsGhost(d, j)}

\* What the reap passes interrupt, and what they drop.
ToInterrupt(d) == {j \in Jobs : StaleActive(d, j) \/ IsGhost(d, j)}

ToDrop(d) == {j \in Jobs : StaleTerminal(d, j)}

Reap(d) ==
  [jobs    |-> [j \in Jobs |->
                 IF j \in ToInterrupt(d)
                 THEN [d.jobs[j] EXCEPT !.status = "interrupted", !.updatedAt = now]
                 ELSE IF j \in ToDrop(d) THEN Absent ELSE d.jobs[j]],
   owner   |-> Retain(d.owner, Jobs \ ToInterrupt(d)),
   pending |-> Retain(d.pending, Jobs \ ToInterrupt(d))]

Rows(d) == {j \in Jobs : Exists(d, j)}

TerminalRows(d) == {j \in Jobs : IsTerminal(d, j)}

\* The sets of terminal jobs compact_terminal_over_capacity may drop: the
\* oldest ones, as many as exceed the limit or all there are.
Compactions(d, limit) ==
  {D \in SUBSET TerminalRows(d) :
     /\ \/ Cardinality(Rows(d)) <= limit /\ D = {}
        \/ Cardinality(Rows(d)) > limit /\
           \/ Cardinality(D) = Cardinality(Rows(d)) - limit
           \/ D = TerminalRows(d) /\ Cardinality(D) < Cardinality(Rows(d)) - limit
     /\ \A j \in D, k \in TerminalRows(d) \ D :
          d.jobs[j].updatedAt <= d.jobs[k].updatedAt}

Drop(d, D) == [d EXCEPT !.jobs = [j \in Jobs |-> IF j \in D THEN Absent ELSE d.jobs[j]]]

Throttled(p) == lastReaped[p] # None /\ now < lastReaped[p] + ReapTTL

\* The views load may hand to an operation of p.
Loaded(p, limit) ==
  LET merged == MergePersisted(disk) IN
  IF Throttled(p) THEN {merged}
  ELSE {Drop(Reap(merged), D) : D \in Compactions(Reap(merged), limit)}

\* reaped_dirty: the reap passes or the compaction changed the merged jobs.
Dirty(v) == v.jobs # disk.jobs

-----------------------------------------------------------------------------
(* Operations on a loaded view.                                            *)

\* apply_mutation: session None in a mutation keeps the job's own session.
ResolvedSession(v, j, ms) == IF ms # None THEN ms ELSE v.jobs[j].session

\* Fault: reserve_session overwrites another owner.
FaultReserveTaken(v, j, s, status) == TRUE

CanReserve(v, j, s, status) ==
  s # None /\ status \in ActiveStatuses => v.owner[s] \in {None, j}

CanMutate(v, j, status, ms) ==
  /\ ValidTransition(v.jobs[j].status, status)
  /\ CanReserve(v, j, ResolvedSession(v, j, ms), status)

\* Fault: finalize_session and release_previous_session drop the owner of the
\* session without checking that it is this job.
FaultOwnersAfter(v, j, s, status) ==
  [t \in Sessions |->
    CASE t = s /\ status \in ActiveStatuses -> j
      [] t = s /\ status \notin ActiveStatuses -> None
      [] t # s /\ t = v.jobs[j].session -> None
      [] OTHER -> v.owner[t]]

\* reserve_session, release_previous_session and finalize_session.
OwnersAfter(v, j, s, status) ==
  [t \in Sessions |->
    CASE t = s /\ status \in ActiveStatuses -> j
      [] t = s /\ status \notin ActiveStatuses /\ v.owner[t] = j -> None
      [] t # s /\ t = v.jobs[j].session /\ v.owner[t] = j -> None
      [] OTHER -> v.owner[t]]

Mutated(v, j, status, ms) ==
  LET s == ResolvedSession(v, j, ms) IN
  [jobs    |-> [v.jobs EXCEPT ![j] =
                 [status |-> status, session |-> s, updatedAt |-> now]],
   owner   |-> OwnersAfter(v, j, s, status),
   pending |-> v.pending]

\* arbitrate_session_takeover.  A reservation is recorded only while another
\* job owns the session; otherwise reserve answers without changing anything.
CanReserveTakeover(v, s, j) ==
  /\ v.pending[s] = None
  /\ v.owner[s] \notin {None, j}

ReservedTakeover(v, s, j) == [v EXCEPT !.pending[s] = j]

CanClaim(v, s, j) == v.pending[s] = j /\ v.owner[s] \in {None, j}

\* Fault: the placeholder's status is not one of the state machine's.
FaultPlaceholder(s) == [status |-> "claimed", session |-> s, updatedAt |-> now]

ClaimedPlaceholder(s) == [status |-> "retry_claimed", session |-> s, updatedAt |-> now]

Claimed(v, s, j) ==
  [jobs    |-> [v.jobs EXCEPT ![j] = IF Exists(v, j) THEN @ ELSE ClaimedPlaceholder(s)],
   owner   |-> [v.owner EXCEPT ![s] = j],
   pending |-> [v.pending EXCEPT ![s] = None]]

CanRelease(v, s, j) == v.pending[s] = j \/ (v.owner[s] = j /\ ~Exists(v, j))

Released(v, s, j) ==
  [jobs    |-> v.jobs,
   owner   |-> [v.owner EXCEPT ![s] = IF @ = j /\ ~Exists(v, j) THEN None ELSE @],
   pending |-> [v.pending EXCEPT ![s] = IF @ = j THEN None ELSE @]]

-----------------------------------------------------------------------------
(* handle_background_state_operation.                                      *)

MarkReaped(p) ==
  lastReaped' = IF Throttled(p) THEN lastReaped ELSE [lastReaped EXCEPT ![p] = now]

\* A mutating call that is refused, changes nothing, or whose persist fails:
\* only the reap flush may have reached the file.
FlushOnly(v) == disk' \in {disk} \cup (IF Dirty(v) THEN {v} ELSE {})

ApplyMutation(p, limit, j, status, ms) ==
  /\ MarkReaped(p)
  /\ \E v \in Loaded(p, limit) :
       \/ FlushOnly(v)
       \/ CanMutate(v, j, status, ms) /\ disk' = Mutated(v, j, status, ms)
  /\ UNCHANGED now

ReserveTakeover(p, limit, s, j) ==
  /\ MarkReaped(p)
  /\ \E v \in Loaded(p, limit) :
       \/ FlushOnly(v)
       \/ CanReserveTakeover(v, s, j) /\ disk' = ReservedTakeover(v, s, j)
  /\ UNCHANGED now

ClaimTakeover(p, limit, s, j) ==
  /\ MarkReaped(p)
  /\ \E v \in Loaded(p, limit) :
       \/ FlushOnly(v)
       \/ CanClaim(v, s, j) /\ disk' = Claimed(v, s, j)
  /\ UNCHANGED now

ReleaseTakeover(p, limit, s, j) ==
  /\ MarkReaped(p)
  /\ \E v \in Loaded(p, limit) :
       \/ FlushOnly(v)
       \/ CanRelease(v, s, j) /\ disk' = Released(v, s, j)
  /\ UNCHANGED now

\* snapshot, get, get_active_job, health, parallel_group_*: the view is
\* answered and forgotten, but the process remembers that it reaped.
Query(p) ==
  /\ MarkReaped(p)
  /\ UNCHANGED <<disk, now>>

\* A process exits and its successor starts with an empty LAST_REAPED_AT.
Restart(p) ==
  /\ lastReaped' = [lastReaped EXCEPT ![p] = None]
  /\ UNCHANGED <<disk, now>>

Tick ==
  /\ now < MaxNow
  /\ now' = now + 1
  /\ UNCHANGED <<disk, lastReaped>>

\* The file before the first call: none, or one whose rows another version
\* wrote, without session rows and with any status strings, but with no two
\* active jobs in a session.
NoFile ==
  [jobs    |-> [j \in Jobs |-> Absent],
   owner   |-> [s \in Sessions |-> None],
   pending |-> [s \in Sessions |-> None]]

SeededRows == {Absent} \cup
  [status: Statuses \ {"absent"}, session: Sessions \cup {None}, updatedAt: {0}]

SeededFiles ==
  {[NoFile EXCEPT !.jobs = rows] : rows \in
     {r \in [Jobs -> SeededRows] : \A j, k \in Jobs :
        /\ j # k
        /\ r[j].status \in ActiveStatuses
        /\ r[k].status \in ActiveStatuses
        /\ r[j].session = r[k].session
        => r[j].session = None}}

InitWith(files) ==
  /\ disk \in files
  /\ lastReaped = [p \in Procs |-> None]
  /\ now = 0

Init == InitWith({NoFile})

SeededInit == InitWith(SeededFiles)

Operation(p) ==
  \E limit \in Limits, j \in Jobs :
    \/ \E status \in Requests, ms \in Sessions \cup {None} :
         ApplyMutation(p, limit, j, status, ms)
    \/ \E s \in Sessions :
         \/ ReserveTakeover(p, limit, s, j)
         \/ ClaimTakeover(p, limit, s, j)
         \/ ReleaseTakeover(p, limit, s, j)

Next ==
  \/ \E p \in Procs : Operation(p) \/ Query(p) \/ Restart(p)
  \/ Tick

Spec == Init /\ [][Next]_vars

SeededSpec == SeededInit /\ [][Next]_vars

-----------------------------------------------------------------------------
(* Properties.                                                             *)

\* The variables hold views, clock values and reap times.
TypeOK ==
  /\ disk \in View
  /\ lastReaped \in [Procs -> Nat \cup {None}]
  /\ now \in Nat

\* The session map every call loads knows each active job that works in a
\* session: whatever the reaper, the compaction, a lost persist or the rebuild
\* of a file without session rows did, an active job owns its session.
OwnsItsSession(d) ==
  \A j \in Jobs : IsActive(d, j) /\ d.jobs[j].session # None
                    => d.owner[d.jobs[j].session] = j

ActiveOwnsSession == OwnsItsSession(MergePersisted(disk))

\* At most one active job works in a session, across processes, takeovers,
\* reaps and failed writes.
OneActiveJobPerSession ==
  \A s \in Sessions : Cardinality(ActiveIn(disk, s)) <= 1

\* A session leaves a job that is alive (active, heartbeat in time) only for
\* nobody: no call hands it to another job while the owner lives.
NoStolenSession ==
  [][\A s \in Sessions, j \in Jobs :
       /\ j \in ActiveIn(disk, s)
       /\ ~StaleActive(disk, j)
       => \A k \in Jobs \ {j} : k \notin ActiveIn(disk', s)]_vars

\* A finished job is never revived while its row is kept: its status changes
\* only after the row has aged out or was compacted away for capacity.
TerminalIsFinal ==
  [][\A j \in Jobs :
       /\ IsTerminal(disk, j)
       /\ ~StaleTerminal(disk, j)
       /\ \A limit \in Limits : Cardinality(Rows(disk)) <= limit
       => disk'.jobs[j].status = disk.jobs[j].status]_vars

\* A row whose status is outside the state machine can only be interrupted by
\* the reaper and then age out or be compacted away; no mutation revives it.
GhostOnlyInterrupted ==
  [][\A j \in Jobs :
       /\ IsGhost(disk, j)
       /\ \A limit \in Limits : Cardinality(Rows(disk)) <= limit
       => disk'.jobs[j].status \in {"ghost", "interrupted"}]_vars

\* Neither reaper nor compaction loses a live job's row, whatever the
\* capacity: only rows that are terminal or stale ever go.
LiveRowsKept ==
  [][\A j \in Jobs : IsActive(disk, j) /\ ~StaleActive(disk, j)
                        => Exists(disk', j)]_vars

=============================================================================
