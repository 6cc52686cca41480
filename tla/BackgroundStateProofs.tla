------------------------ MODULE BackgroundStateProofs ------------------------
(***************************************************************************)
(* Proofs about BackgroundState for every set of jobs, sessions and        *)
(* processes, every limit and every clock.                                 *)
(*                                                                         *)
(* The inductive invariant says that the file is Sound: either it carries  *)
(* no session row at all (and its active jobs do not share sessions), or   *)
(* its session map names every active job that works in a session.  A      *)
(* loaded view is then always Owned, and every operation of an owned view  *)
(* leaves an owned view.                                                   *)
(***************************************************************************)
EXTENDS BackgroundLease, FiniteSetTheorems, TLAPS

Owned(d) == d \in View /\ OwnsItsSession(d)

Unshared(d) ==
  \A j, k \in Jobs :
    /\ IsActive(d, j) /\ IsActive(d, k)
    /\ d.jobs[j].session # None /\ d.jobs[j].session = d.jobs[k].session
    => j = k

NoOwners(d) == \A s \in Sessions : d.owner[s] = None

Sound(d) == d \in View /\ Unshared(d) /\ (NoOwners(d) \/ OwnsItsSession(d))

IInv ==
  /\ Sound(disk)
  /\ lastReaped \in [Procs -> Nat \cup {None}]
  /\ now \in Nat

-----------------------------------------------------------------------------

\* Jobs that own their sessions cannot share one.
LEMMA OwnedIsSound ==
  ASSUME NEW d, Owned(d)
  PROVE  Sound(d)
BY ConstantsAssumption DEF Owned, Sound, Unshared, OwnsItsSession

\* An absent row is a row, and it is not active.
LEMMA AbsentRow ==
  Absent \in JobRow /\ Absent.status \notin ActiveStatuses
BY DEF Absent, JobRow, Statuses, KnownStatuses, ActiveStatuses

\* The rebuilt session map names the active jobs of a file whose active jobs
\* do not share sessions.
LEMMA RebuildOwns ==
  ASSUME NEW d, d \in View, Unshared(d)
  PROVE  /\ RebuildOwners(d) \in [Sessions -> Jobs \cup {None}]
         /\ \A j \in Jobs : IsActive(d, j) /\ d.jobs[j].session # None
              => RebuildOwners(d)[d.jobs[j].session] = j
<1> DEFINE Latest(s, j) == /\ j \in ActiveIn(d, s)
                           /\ \A k \in ActiveIn(d, s) : d.jobs[k].updatedAt <= d.jobs[j].updatedAt
<1>1. ASSUME NEW j \in Jobs, IsActive(d, j), d.jobs[j].session # None
      PROVE  /\ d.jobs[j].session \in Sessions
             /\ ActiveIn(d, d.jobs[j].session) = {j}
  <2>1. d.jobs[j].session \in Sessions
    BY <1>1 DEF View, JobRow
  <2>2. ActiveIn(d, d.jobs[j].session) = {j}
    BY <1>1, <2>1, ConstantsAssumption DEF ActiveIn, Unshared
  <2> QED BY <2>1, <2>2
<1>2. ASSUME NEW s \in Sessions, ActiveIn(d, s) # {}
      PROVE  \E j \in Jobs : ActiveIn(d, s) = {j} /\ Latest(s, j)
  <2>1. PICK j \in ActiveIn(d, s) : TRUE
    BY <1>2
  <2>2. j \in Jobs /\ IsActive(d, j) /\ d.jobs[j].session = s /\ s # None
    BY <2>1, ConstantsAssumption DEF ActiveIn
  <2>3. ActiveIn(d, s) = {j}
    BY <1>1, <2>2
  <2>4. d.jobs[j].updatedAt \in Nat
    BY <2>2 DEF View, JobRow
  <2> QED BY <2>2, <2>3, <2>4
<1>3. ASSUME NEW s \in Sessions, NEW j \in Jobs, ActiveIn(d, s) = {j}, Latest(s, j)
      PROVE  RebuildOwners(d)[s] = j
  BY <1>3 DEF RebuildOwners
<1>4. RebuildOwners(d) \in [Sessions -> Jobs \cup {None}]
  <2>1. ASSUME NEW s \in Sessions
        PROVE  RebuildOwners(d)[s] \in Jobs \cup {None}
    <3>1. CASE ActiveIn(d, s) = {}
      BY <3>1 DEF RebuildOwners
    <3>2. CASE ActiveIn(d, s) # {}
      BY <3>2, <1>2, <1>3
    <3> QED BY <3>1, <3>2
  <2> QED BY <2>1 DEF RebuildOwners
<1>5. ASSUME NEW j \in Jobs, IsActive(d, j), d.jobs[j].session # None
      PROVE  RebuildOwners(d)[d.jobs[j].session] = j
  BY <1>1, <1>2, <1>3, <1>5
<1> QED BY <1>4, <1>5

\* load's merge of a sound file is owned.
LEMMA MergeOwned ==
  ASSUME NEW d, Sound(d)
  PROVE  Owned(MergePersisted(d))
<1> DEFINE m == MergePersisted(d)
<1>1. /\ m.jobs = d.jobs
      /\ m.owner = Retain(PersistedOwners(d), {j \in Jobs : IsActive(d, j)})
      /\ m.pending \in [Sessions -> Jobs \cup {None}]
  BY DEF MergePersisted, Sound, View
<1>2. /\ PersistedOwners(d) \in [Sessions -> Jobs \cup {None}]
      /\ \A j \in Jobs : IsActive(d, j) /\ d.jobs[j].session # None
           => PersistedOwners(d)[d.jobs[j].session] = j
  <2>1. CASE NoOwners(d)
    BY <2>1, RebuildOwns DEF PersistedOwners, NoOwners, Sound
  <2>2. CASE ~NoOwners(d)
    BY <2>2 DEF PersistedOwners, NoOwners, Sound, OwnsItsSession, View
  <2> QED BY <2>1, <2>2
<1>3. m.owner \in [Sessions -> Jobs \cup {None}]
  BY <1>1 DEF Retain
<1>4. m \in View
  <2>1. m = [jobs |-> m.jobs, owner |-> m.owner, pending |-> m.pending]
    BY DEF MergePersisted
  <2> QED BY <1>1, <1>3, <2>1 DEF View, Sound
<1>5. OwnsItsSession(m)
  <2> SUFFICES ASSUME NEW j \in Jobs, IsActive(m, j), m.jobs[j].session # None
               PROVE  m.owner[m.jobs[j].session] = j
    BY DEF OwnsItsSession
  <2>1. IsActive(d, j) /\ d.jobs[j].session \in Sessions /\ d.jobs[j].session # None
    BY <1>1, <1>4 DEF IsActive, View, JobRow
  <2> QED BY <1>1, <1>2, <2>1 DEF Retain
<1> QED BY <1>4, <1>5 DEF Owned

\* Reaping an owned view: interrupted jobs lose their sessions, dropped jobs
\* were not active, and the rest is untouched.
LEMMA ReapOwned ==
  ASSUME NEW d, Owned(d), now \in Nat
  PROVE  Owned(Reap(d))
<1> DEFINE r == Reap(d)
<1>1. \A j \in Jobs : /\ r.jobs[j] \in JobRow
                      /\ IsActive(r, j) => /\ r.jobs[j] = d.jobs[j]
                                           /\ IsActive(d, j)
                                           /\ j \notin ToInterrupt(d)
  <2> SUFFICES ASSUME NEW j \in Jobs
               PROVE  /\ r.jobs[j] \in JobRow
                      /\ IsActive(r, j) => /\ r.jobs[j] = d.jobs[j]
                                           /\ IsActive(d, j)
                                           /\ j \notin ToInterrupt(d)
    OBVIOUS
  <2>0. d.jobs[j] \in JobRow
    BY DEF Owned, View
  <2>1. CASE j \in ToInterrupt(d)
    <3>1. r.jobs[j] = [d.jobs[j] EXCEPT !.status = "interrupted", !.updatedAt = now]
      BY <2>1 DEF Reap
    <3>2. r.jobs[j] \in JobRow /\ r.jobs[j].status = "interrupted"
      BY <2>0, <3>1 DEF JobRow, Statuses, KnownStatuses, TerminalStatuses
    <3> QED BY <3>2 DEF IsActive, ActiveStatuses
  <2>2. CASE j \notin ToInterrupt(d) /\ j \in ToDrop(d)
    <3>1. r.jobs[j] = Absent
      BY <2>2 DEF Reap
    <3> QED BY <3>1, AbsentRow DEF IsActive
  <2>3. CASE j \notin ToInterrupt(d) /\ j \notin ToDrop(d)
    <3>1. r.jobs[j] = d.jobs[j]
      BY <2>3 DEF Reap
    <3> QED BY <2>0, <2>3, <3>1 DEF IsActive
  <2> QED BY <2>1, <2>2, <2>3
<1>2. r \in View
  <2>1. /\ r.owner \in [Sessions -> Jobs \cup {None}]
        /\ r.pending \in [Sessions -> Jobs \cup {None}]
    BY DEF Reap, Retain
  <2>2. r.jobs \in [Jobs -> JobRow]
    BY <1>1 DEF Reap
  <2>3. r = [jobs |-> r.jobs, owner |-> r.owner, pending |-> r.pending]
    BY DEF Reap
  <2> QED BY <2>1, <2>2, <2>3 DEF View
<1>3. OwnsItsSession(r)
  <2> SUFFICES ASSUME NEW j \in Jobs, IsActive(r, j), r.jobs[j].session # None
               PROVE  r.owner[r.jobs[j].session] = j
    BY DEF OwnsItsSession
  <2>1. /\ d.jobs[j].session \in Sessions
        /\ d.owner[d.jobs[j].session] = j
        /\ r.jobs[j] = d.jobs[j]
        /\ j \notin ToInterrupt(d)
    BY <1>1 DEF Owned, OwnsItsSession, View, JobRow
  <2> QED BY <2>1 DEF Reap, Retain
<1> QED BY <1>2, <1>3 DEF Owned

\* Dropping rows keeps a view owned.
LEMMA DropOwned ==
  ASSUME NEW d, Owned(d), NEW D
  PROVE  Owned(Drop(d, D))
<1> DEFINE r == Drop(d, D)
<1>1. /\ r.jobs = [j \in Jobs |-> IF j \in D THEN Absent ELSE d.jobs[j]]
      /\ r.owner = d.owner
      /\ r.pending = d.pending
      /\ r = [jobs |-> r.jobs, owner |-> r.owner, pending |-> r.pending]
  BY DEF Drop, Owned, View
<1>2. r \in View
  BY <1>1, AbsentRow DEF Owned, View
<1>3. OwnsItsSession(r)
  BY <1>1, AbsentRow DEF OwnsItsSession, Owned, IsActive
<1> QED BY <1>2, <1>3 DEF Owned

\* Every view an operation works on is owned.
LEMMA LoadedOwned ==
  ASSUME NEW p \in Procs, NEW limit, IInv, NEW v \in Loaded(p, limit)
  PROVE  Owned(v)
<1>1. Owned(MergePersisted(disk)) /\ Owned(Reap(MergePersisted(disk)))
  BY MergeOwned, ReapOwned DEF IInv
<1>2. \/ v = MergePersisted(disk)
      \/ \E D : v = Drop(Reap(MergePersisted(disk)), D)
  BY DEF Loaded
<1> QED BY <1>1, <1>2, DropOwned

-----------------------------------------------------------------------------

\* A mutation that reserve_session admits keeps the view owned.
LEMMA MutatedOwned ==
  ASSUME NEW v, Owned(v), now \in Nat,
         NEW j \in Jobs, NEW status \in KnownStatuses, NEW ms \in Sessions \cup {None},
         CanMutate(v, j, status, ms)
  PROVE  Owned(Mutated(v, j, status, ms))
<1> DEFINE s == ResolvedSession(v, j, ms)
           r == Mutated(v, j, status, ms)
<1>1. s \in Sessions \cup {None} /\ v.jobs[j] \in JobRow
  BY DEF ResolvedSession, Owned, View, JobRow
<1>2. /\ r.jobs = [v.jobs EXCEPT ![j] = [status |-> status, session |-> s, updatedAt |-> now]]
      /\ r.owner = OwnersAfter(v, j, s, status)
      /\ r.pending = v.pending
      /\ r = [jobs |-> r.jobs, owner |-> r.owner, pending |-> r.pending]
  BY DEF Mutated
<1>3. r \in View
  <2>1. [status |-> status, session |-> s, updatedAt |-> now] \in JobRow
    BY <1>1 DEF JobRow, Statuses
  <2>2. r.jobs \in [Jobs -> JobRow]
    BY <1>2, <2>1 DEF Owned, View
  <2>3. r.owner \in [Sessions -> Jobs \cup {None}]
    BY <1>2 DEF OwnersAfter, Owned, View
  <2> QED BY <1>2, <2>2, <2>3 DEF Owned, View
<1>4. OwnsItsSession(r)
  <2> SUFFICES ASSUME NEW k \in Jobs, IsActive(r, k), r.jobs[k].session # None
               PROVE  r.owner[r.jobs[k].session] = k
    BY DEF OwnsItsSession
  <2>1. CASE k = j
    <3>1. r.jobs[k].session = s /\ status \in ActiveStatuses
      BY <1>2, <2>1 DEF IsActive, Owned, View
    <3> QED BY <1>1, <1>2, <2>1, <3>1 DEF OwnersAfter
  <2>2. CASE k # j
    <3>1. r.jobs[k] = v.jobs[k] /\ IsActive(v, k)
      BY <1>2, <2>2 DEF IsActive, Owned, View
    <3>2. /\ v.jobs[k].session \in Sessions
          /\ v.owner[v.jobs[k].session] = k
      BY <3>1 DEF Owned, OwnsItsSession, View, JobRow
    <3>3. v.jobs[k].session = s => status \notin ActiveStatuses
      BY <2>2, <3>2, ConstantsAssumption DEF CanMutate, CanReserve
    <3> QED BY <1>2, <2>2, <3>1, <3>2, <3>3 DEF OwnersAfter
  <2> QED BY <2>1, <2>2
<1> QED BY <1>3, <1>4 DEF Owned

\* The three takeover operations keep the view owned: a claim only takes a
\* session that is vacant or the job's own.
LEMMA ReservedOwned ==
  ASSUME NEW v, Owned(v), NEW s \in Sessions, NEW j \in Jobs
  PROVE  Owned(ReservedTakeover(v, s, j))
BY DEF Owned, OwnsItsSession, View, ReservedTakeover, IsActive

\* A claim that the session map allows leaves the map owned.
LEMMA ClaimedOwned ==
  ASSUME NEW v, Owned(v), now \in Nat, NEW s \in Sessions, NEW j \in Jobs,
         CanClaim(v, s, j)
  PROVE  Owned(Claimed(v, s, j))
<1> DEFINE r == Claimed(v, s, j)
<1>1. /\ r.jobs = [v.jobs EXCEPT ![j] = IF Exists(v, j) THEN @ ELSE ClaimedPlaceholder(s)]
      /\ r.owner = [v.owner EXCEPT ![s] = j]
      /\ r.pending = [v.pending EXCEPT ![s] = None]
      /\ r = [jobs |-> r.jobs, owner |-> r.owner, pending |-> r.pending]
  BY DEF Claimed
<1>2. r \in View
  <2>1. ClaimedPlaceholder(s) \in JobRow
    BY DEF ClaimedPlaceholder, JobRow, Statuses, KnownStatuses, ActiveStatuses
  <2>2. r.jobs \in [Jobs -> JobRow]
    BY <1>1, <2>1 DEF Owned, View
  <2> QED BY <1>1, <2>2 DEF Owned, View
<1>3. OwnsItsSession(r)
  <2> SUFFICES ASSUME NEW k \in Jobs, IsActive(r, k), r.jobs[k].session # None
               PROVE  r.owner[r.jobs[k].session] = k
    BY DEF OwnsItsSession
  <2>1. CASE k = j /\ ~Exists(v, j)
    <3>1. r.jobs[k].session = s
      BY <1>1, <2>1 DEF ClaimedPlaceholder, Owned, View
    <3> QED BY <1>1, <2>1, <3>1 DEF Owned, View
  <2>2. CASE k # j \/ Exists(v, j)
    <3>1. r.jobs[k] = v.jobs[k] /\ IsActive(v, k)
      BY <1>1, <2>2 DEF IsActive, Owned, View
    <3>2. v.jobs[k].session \in Sessions /\ v.owner[v.jobs[k].session] = k
      BY <3>1 DEF Owned, OwnsItsSession, View, JobRow
    <3>3. v.jobs[k].session = s => k = j
      BY <3>2, ConstantsAssumption DEF CanClaim
    <3> QED BY <1>1, <3>1, <3>2, <3>3 DEF Owned, View
  <2> QED BY <2>1, <2>2
<1> QED BY <1>2, <1>3 DEF Owned

\* A release leaves the map owned.
LEMMA ReleasedOwned ==
  ASSUME NEW v, Owned(v), NEW s \in Sessions, NEW j \in Jobs
  PROVE  Owned(Released(v, s, j))
<1> DEFINE r == Released(v, s, j)
<1>1. /\ r.jobs = v.jobs
      /\ r.owner = [v.owner EXCEPT ![s] = IF @ = j /\ ~Exists(v, j) THEN None ELSE @]
      /\ r.pending = [v.pending EXCEPT ![s] = IF @ = j THEN None ELSE @]
      /\ r = [jobs |-> r.jobs, owner |-> r.owner, pending |-> r.pending]
  BY DEF Released
<1>2. r \in View
  BY <1>1 DEF Owned, View
<1>3. OwnsItsSession(r)
  <2> SUFFICES ASSUME NEW k \in Jobs, IsActive(r, k), r.jobs[k].session # None
               PROVE  r.owner[r.jobs[k].session] = k
    BY DEF OwnsItsSession
  <2>1. IsActive(v, k) /\ v.jobs[k].session \in Sessions /\ v.owner[v.jobs[k].session] = k
    BY <1>1 DEF Owned, OwnsItsSession, View, JobRow, IsActive
  <2>2. Exists(v, k)
    BY <2>1 DEF Exists, IsActive, ActiveStatuses
  <2> QED BY <1>1, <2>1, <2>2 DEF Owned, View
<1> QED BY <1>2, <1>3 DEF Owned

-----------------------------------------------------------------------------

\* A mutating call leaves a sound file, whichever of its writes landed.
LEMMA OperationSound ==
  ASSUME NEW p \in Procs, IInv, Operation(p)
  PROVE  Sound(disk')
<1>1. PICK limit \in Limits, j \in Jobs :
        \/ \E status \in Requests, ms \in Sessions \cup {None} :
             ApplyMutation(p, limit, j, status, ms)
        \/ \E s \in Sessions :
             \/ ReserveTakeover(p, limit, s, j)
             \/ ClaimTakeover(p, limit, s, j)
             \/ ReleaseTakeover(p, limit, s, j)
  BY DEF Operation
<1>2. now \in Nat /\ Sound(disk)
  BY DEF IInv
<1>3. \A v \in Loaded(p, limit) : Owned(v)
  BY LoadedOwned
<1>4. ASSUME NEW v, Owned(v), FlushOnly(v)
      PROVE  Sound(disk')
  BY <1>2, <1>4, OwnedIsSound DEF FlushOnly
<1>5. ASSUME NEW status \in Requests, NEW ms \in Sessions \cup {None},
             ApplyMutation(p, limit, j, status, ms)
      PROVE  Sound(disk')
  <2>1. status \in KnownStatuses
    BY RequestsAssumption
  <2>2. PICK v \in Loaded(p, limit) :
          \/ FlushOnly(v)
          \/ CanMutate(v, j, status, ms) /\ disk' = Mutated(v, j, status, ms)
    BY <1>5 DEF ApplyMutation
  <2> QED BY <1>2, <1>3, <1>4, <2>1, <2>2, MutatedOwned, OwnedIsSound
<1>6. ASSUME NEW s \in Sessions, ReserveTakeover(p, limit, s, j)
      PROVE  Sound(disk')
  <2>1. PICK v \in Loaded(p, limit) :
          \/ FlushOnly(v)
          \/ CanReserveTakeover(v, s, j) /\ disk' = ReservedTakeover(v, s, j)
    BY <1>6 DEF ReserveTakeover
  <2> QED BY <1>3, <1>4, <2>1, ReservedOwned, OwnedIsSound
<1>7. ASSUME NEW s \in Sessions, ClaimTakeover(p, limit, s, j)
      PROVE  Sound(disk')
  <2>1. PICK v \in Loaded(p, limit) :
          \/ FlushOnly(v)
          \/ CanClaim(v, s, j) /\ disk' = Claimed(v, s, j)
    BY <1>7 DEF ClaimTakeover
  <2> QED BY <1>2, <1>3, <1>4, <2>1, ClaimedOwned, OwnedIsSound
<1>8. ASSUME NEW s \in Sessions, ReleaseTakeover(p, limit, s, j)
      PROVE  Sound(disk')
  <2>1. PICK v \in Loaded(p, limit) :
          \/ FlushOnly(v)
          \/ CanRelease(v, s, j) /\ disk' = Released(v, s, j)
    BY <1>8 DEF ReleaseTakeover
  <2> QED BY <1>3, <1>4, <2>1, ReleasedOwned, OwnedIsSound
<1> QED BY <1>1, <1>5, <1>6, <1>7, <1>8

\* What a call does besides the file: the reap time stays well typed.
LEMMA ReapTimeTyped ==
  ASSUME NEW p \in Procs, IInv, MarkReaped(p) \/ lastReaped' = [lastReaped EXCEPT ![p] = None]
  PROVE  lastReaped' \in [Procs -> Nat \cup {None}]
BY DEF IInv, MarkReaped

\* Every seeded file is sound.
LEMMA InitSound == SeededInit => IInv
<1> SUFFICES ASSUME SeededInit PROVE IInv
  OBVIOUS
<1>1. PICK rows \in [Jobs -> SeededRows] :
        /\ disk = [NoFile EXCEPT !.jobs = rows]
        /\ \A j, k \in Jobs : /\ j # k
                              /\ rows[j].status \in ActiveStatuses
                              /\ rows[k].status \in ActiveStatuses
                              /\ rows[j].session = rows[k].session
                              => rows[j].session = None
  BY DEF SeededInit, InitWith, SeededFiles
<1>2. disk = [jobs |-> rows, owner |-> NoFile.owner, pending |-> NoFile.pending]
  BY <1>1 DEF NoFile
<1>3. SeededRows \subseteq JobRow
  BY AbsentRow DEF SeededRows, JobRow
<1>4. disk \in View
  BY <1>2, <1>3 DEF View, NoFile
<1>5. Unshared(disk) /\ NoOwners(disk)
  BY <1>1, <1>2 DEF Unshared, NoOwners, NoFile, IsActive
<1> QED BY <1>4, <1>5 DEF Sound, IInv, SeededInit, InitWith

\* One step: Operation is the only action that writes the file.
LEMMA NextSound == IInv /\ [Next]_vars => IInv'
<1> SUFFICES ASSUME IInv, [Next]_vars PROVE IInv'
  OBVIOUS
<1>1. ASSUME NEW p \in Procs, Operation(p)
      PROVE  IInv'
  <2>1. MarkReaped(p) /\ UNCHANGED now
    BY <1>1 DEF Operation, ApplyMutation, ReserveTakeover, ClaimTakeover, ReleaseTakeover
  <2> QED BY <1>1, <2>1, OperationSound, ReapTimeTyped DEF IInv
<1>2. ASSUME NEW p \in Procs, Query(p)
      PROVE  IInv'
  BY <1>2, ReapTimeTyped DEF IInv, Query, Sound, Unshared, NoOwners, OwnsItsSession, IsActive
<1>3. ASSUME NEW p \in Procs, Restart(p)
      PROVE  IInv'
  BY <1>3, ReapTimeTyped DEF IInv, Restart, Sound, Unshared, NoOwners, OwnsItsSession, IsActive
<1>4. CASE Tick
  BY <1>4 DEF IInv, Tick, Sound, Unshared, NoOwners, OwnsItsSession, IsActive
<1>5. CASE UNCHANGED vars
  BY <1>5 DEF IInv, vars, Sound, Unshared, NoOwners, OwnsItsSession, IsActive
<1> QED BY <1>1, <1>2, <1>3, <1>4, <1>5 DEF Next

\* A fresh store is one of the seeded files.
LEMMA FreshIsSeeded == Init => SeededInit
<1>1. NoFile \in SeededFiles
  <2>1. NoFile.jobs \in [Jobs -> SeededRows]
    BY DEF NoFile, SeededRows
  <2>2. NoFile = [NoFile EXCEPT !.jobs = NoFile.jobs]
    BY DEF NoFile
  <2> QED BY <2>1, <2>2, AbsentRow DEF SeededFiles, NoFile
<1> QED BY <1>1 DEF Init, SeededInit, InitWith

-----------------------------------------------------------------------------

\* The inductive invariant holds from any seeded file, hence from none.
THEOREM SeededInvariant == SeededSpec => []IInv
BY InitSound, NextSound, PTL DEF SeededSpec

\* From an empty store the file stays sound through every call of every process (store.rs).
THEOREM Invariant == Spec => []IInv
BY InitSound, FreshIsSeeded, NextSound, PTL DEF Spec

\* Type correctness of the store.
THEOREM TypeCorrect == Spec => []TypeOK
<1>1. IInv => TypeOK
  BY DEF IInv, Sound, TypeOK
<1> QED BY <1>1, Invariant, PTL

\* Every call loads a view in which each active job owns its session, from a
\* fresh store or from a file another version wrote.
THEOREM LoadsOwned == SeededSpec => []ActiveOwnsSession
<1>1. IInv => ActiveOwnsSession
  BY MergeOwned DEF IInv, Owned, ActiveOwnsSession
<1> QED BY <1>1, SeededInvariant, PTL

\* No two active jobs ever share a session: not across processes, takeovers,
\* reaps, restarts, failed persists or a rebuilt session map.
THEOREM SessionsExclusive == SeededSpec => []OneActiveJobPerSession
<1>1. IInv => OneActiveJobPerSession
  <2> SUFFICES ASSUME IInv, NEW s \in Sessions
               PROVE  Cardinality(ActiveIn(disk, s)) <= 1
    BY DEF OneActiveJobPerSession
  <2>1. \A j, k \in ActiveIn(disk, s) : j = k
    BY ConstantsAssumption DEF IInv, Sound, Unshared, ActiveIn
  <2>2. CASE ActiveIn(disk, s) = {}
    BY <2>2, FS_EmptySet
  <2>3. CASE ActiveIn(disk, s) # {}
    <3>1. PICK j : ActiveIn(disk, s) = {j}
      BY <2>1, <2>3
    <3> QED BY <3>1, FS_Singleton
  <2> QED BY <2>2, <2>3
<1> QED BY <1>1, SeededInvariant, PTL

-----------------------------------------------------------------------------
(* What one call does to the rows.                                         *)

\* The rows an operation works on: an active one is as the file has it, a live
\* one of the file is there, and with room for all rows a finished one that is
\* young enough is there, and one of unknown status is there or interrupted.
LEMMA LoadedRows ==
  ASSUME NEW p \in Procs, NEW limit \in Limits, IInv, NEW v \in Loaded(p, limit),
         NEW j \in Jobs
  PROVE  /\ IsActive(v, j) => v.jobs[j] = disk.jobs[j]
         /\ IsActive(disk, j) /\ ~StaleActive(disk, j) => v.jobs[j] = disk.jobs[j]
         /\ Cardinality(Rows(disk)) <= limit =>
              /\ IsTerminal(disk, j) /\ ~StaleTerminal(disk, j) => v.jobs[j] = disk.jobs[j]
              /\ IsGhost(disk, j) => v.jobs[j].status \in {"ghost", "interrupted"}
<1> DEFINE m == MergePersisted(disk)
           r == Reap(m)
<1>1. m.jobs = disk.jobs
  BY DEF MergePersisted
<1>2. /\ disk.jobs[j] \in JobRow
      /\ \A k \in Jobs : disk.jobs[k] \in JobRow
  BY DEF IInv, Sound, View
<1>3. /\ ToInterrupt(m) = ToInterrupt(disk) /\ ToDrop(m) = ToDrop(disk)
      /\ Rows(m) = Rows(disk)
  BY <1>1 DEF ToInterrupt, ToDrop, StaleActive, StaleTerminal, IsGhost, IsTerminal, IsActive,
              Rows, Exists
<1>4. r.jobs = [k \in Jobs |->
                 IF k \in ToInterrupt(disk)
                 THEN [disk.jobs[k] EXCEPT !.status = "interrupted", !.updatedAt = now]
                 ELSE IF k \in ToDrop(disk) THEN Absent ELSE disk.jobs[k]]
  BY <1>1, <1>3 DEF Reap
<1>5. CASE v = m
  <2>1. IsGhost(disk, j) => disk.jobs[j].status = "ghost"
    BY <1>2 DEF IsGhost, Exists, IsActive, IsTerminal, JobRow, Statuses, KnownStatuses
  <2> QED BY <1>1, <1>5, <2>1
<1>6. CASE \E D \in Compactions(r, limit) : v = Drop(r, D)
  <2>1. PICK D \in Compactions(r, limit) : v = Drop(r, D)
    BY <1>6
  <2>2. v.jobs = [k \in Jobs |-> IF k \in D THEN Absent ELSE r.jobs[k]]
    BY <2>1 DEF Drop, Reap
  <2>3. D \subseteq TerminalRows(r)
    BY DEF Compactions
  <2>4. ASSUME IsActive(v, j)
        PROVE  v.jobs[j] = disk.jobs[j]
    <3>1. j \notin D /\ v.jobs[j] = r.jobs[j]
      BY <2>2, <2>4, AbsentRow DEF IsActive
    <3>2. CASE j \in ToInterrupt(disk)
      <4>1. v.jobs[j].status = "interrupted"
        BY <1>2, <1>4, <3>1, <3>2 DEF JobRow
      <4> QED BY <2>4, <4>1 DEF IsActive, ActiveStatuses
    <3>3. CASE j \notin ToInterrupt(disk) /\ j \in ToDrop(disk)
      <4>1. v.jobs[j] = Absent
        BY <1>4, <3>1, <3>3
      <4> QED BY <2>4, <4>1, AbsentRow DEF IsActive
    <3>4. CASE j \notin ToInterrupt(disk) /\ j \notin ToDrop(disk)
      BY <1>4, <3>1, <3>4
    <3> QED BY <3>2, <3>3, <3>4
  <2>5. ASSUME IsActive(disk, j), ~StaleActive(disk, j)
        PROVE  v.jobs[j] = disk.jobs[j]
    <3>1. /\ j \notin ToInterrupt(disk)
          /\ j \notin ToDrop(disk)
      BY <2>5 DEF ToInterrupt, ToDrop, StaleTerminal, IsGhost, IsTerminal, IsActive,
                  ActiveStatuses, TerminalStatuses
    <3>2. r.jobs[j] = disk.jobs[j]
      BY <1>4, <3>1
    <3>3. j \notin D
      BY <2>3, <2>5, <3>2 DEF TerminalRows, IsTerminal, IsActive, ActiveStatuses, TerminalStatuses
    <3> QED BY <2>2, <3>2, <3>3
  <2>6. ASSUME Cardinality(Rows(disk)) <= limit
        PROVE  D = {}
    <3>1. \A k \in Jobs : Exists(r, k) => Exists(disk, k)
      <4> SUFFICES ASSUME NEW k \in Jobs, Exists(r, k), ~Exists(disk, k) PROVE FALSE
        OBVIOUS
      <4>1. k \notin ToInterrupt(disk)
        BY DEF ToInterrupt, StaleActive, IsGhost, IsActive, Exists, ActiveStatuses
      <4>2. r.jobs[k] \in {Absent, disk.jobs[k]}
        BY <1>4, <4>1
      <4> QED BY <4>2 DEF Exists, Absent
    <3>2. Rows(r) \subseteq Rows(disk) /\ IsFiniteSet(Rows(disk))
      BY <3>1, ConstantsAssumption, FS_Subset DEF Rows
    <3>3. /\ Cardinality(Rows(r)) <= Cardinality(Rows(disk))
          /\ Cardinality(Rows(r)) \in Nat /\ Cardinality(Rows(disk)) \in Nat
      BY <3>2, FS_Subset, FS_CardinalityType
    <3>4. limit \in Nat
      BY ConstantsAssumption
    <3>5. ~(Cardinality(Rows(r)) > limit)
      BY <2>6, <3>3, <3>4
    <3> QED BY <3>5 DEF Compactions
  <2>7. ASSUME Cardinality(Rows(disk)) <= limit, IsTerminal(disk, j), ~StaleTerminal(disk, j)
        PROVE  v.jobs[j] = disk.jobs[j]
    <3>1. /\ j \notin ToInterrupt(disk)
          /\ j \notin ToDrop(disk)
      BY <2>7 DEF ToInterrupt, ToDrop, StaleActive, IsGhost, IsTerminal, IsActive,
                  ActiveStatuses, TerminalStatuses
    <3> QED BY <1>4, <2>2, <2>6, <2>7, <3>1
  <2>8. ASSUME Cardinality(Rows(disk)) <= limit, IsGhost(disk, j)
        PROVE  v.jobs[j].status = "interrupted"
    <3>1. j \in ToInterrupt(disk)
      BY <2>8 DEF ToInterrupt
    <3>2. v.jobs[j] = r.jobs[j]
      BY <2>2, <2>6, <2>8
    <3>3. r.jobs[j] = [disk.jobs[j] EXCEPT !.status = "interrupted", !.updatedAt = now]
      BY <1>4, <3>1
    <3>4. "status" \in DOMAIN disk.jobs[j]
      BY <1>2 DEF JobRow
    <3> QED BY <3>2, <3>3, <3>4
  <2> QED BY <2>4, <2>5, <2>7, <2>8
<1> QED BY <1>5, <1>6 DEF Loaded

\* What an operation of an owned view makes of one job's row: it may stay, take
\* a status the state machine allows, or be the placeholder of a claim.
Acted(v, d, j) ==
  \/ d.jobs[j] = v.jobs[j]
  \/ /\ d.jobs[j].status \in KnownStatuses
     /\ d.jobs[j].updatedAt = now
     /\ ~Exists(v, j) \/ ValidTransition(v.jobs[j].status, d.jobs[j].status)

\* A call works on a loaded view for one job, whose row alone it changes.
CallShape(v, d, j) ==
  /\ Owned(v) /\ Owned(d)
  /\ \A k \in Jobs \ {j} : d.jobs[k] = v.jobs[k]
  /\ Acted(v, d, j)

\* Every call leaves the file alone or has that shape, whichever of its writes
\* landed.
LEMMA OperationShape ==
  ASSUME NEW p \in Procs, IInv, Operation(p)
  PROVE  \E j \in Jobs : \/ disk' = disk
                         \/ \E limit \in Limits : \E v \in Loaded(p, limit) :
                              CallShape(v, disk', j)
<1>1. PICK limit \in Limits, j \in Jobs :
        \/ \E status \in Requests, ms \in Sessions \cup {None} :
             ApplyMutation(p, limit, j, status, ms)
        \/ \E s \in Sessions :
             \/ ReserveTakeover(p, limit, s, j)
             \/ ClaimTakeover(p, limit, s, j)
             \/ ReleaseTakeover(p, limit, s, j)
  BY DEF Operation
<1>2. now \in Nat
  BY DEF IInv
<1>3. \A v \in Loaded(p, limit) : Owned(v)
  BY LoadedOwned
<1> SUFFICES \E v \in Loaded(p, limit) : disk' = disk \/ CallShape(v, disk', j)
  OBVIOUS
<1>4. ASSUME NEW v \in Loaded(p, limit), FlushOnly(v)
      PROVE  disk' = disk \/ CallShape(v, disk', j)
  BY <1>3, <1>4 DEF FlushOnly, CallShape, Acted
<1>5. ASSUME NEW status \in Requests, NEW ms \in Sessions \cup {None},
             ApplyMutation(p, limit, j, status, ms)
      PROVE  \E v \in Loaded(p, limit) : disk' = disk \/ CallShape(v, disk', j)
  <2>1. status \in KnownStatuses
    BY RequestsAssumption
  <2>2. PICK v \in Loaded(p, limit) :
          \/ FlushOnly(v)
          \/ CanMutate(v, j, status, ms) /\ disk' = Mutated(v, j, status, ms)
    BY <1>5 DEF ApplyMutation
  <2>3. ASSUME CanMutate(v, j, status, ms), disk' = Mutated(v, j, status, ms)
        PROVE  CallShape(v, disk', j)
    <3>1. Owned(v) /\ Owned(disk')
      BY <1>2, <1>3, <2>1, <2>3, MutatedOwned
    <3>2. disk'.jobs = [v.jobs EXCEPT ![j] =
            [status |-> status, session |-> ResolvedSession(v, j, ms), updatedAt |-> now]]
      BY <2>3 DEF Mutated
    <3>3. v.jobs \in [Jobs -> JobRow]
      BY <3>1 DEF Owned, View
    <3> QED BY <2>1, <2>3, <3>1, <3>2, <3>3 DEF CallShape, Acted, CanMutate
  <2> QED BY <1>4, <2>2, <2>3
<1>6. ASSUME NEW s \in Sessions, ReserveTakeover(p, limit, s, j)
      PROVE  \E v \in Loaded(p, limit) : disk' = disk \/ CallShape(v, disk', j)
  <2>1. PICK v \in Loaded(p, limit) :
          \/ FlushOnly(v)
          \/ CanReserveTakeover(v, s, j) /\ disk' = ReservedTakeover(v, s, j)
    BY <1>6 DEF ReserveTakeover
  <2>2. disk' = ReservedTakeover(v, s, j) => disk'.jobs = v.jobs
    BY <1>3 DEF ReservedTakeover, Owned, View
  <2> QED BY <1>3, <1>4, <2>1, <2>2, ReservedOwned DEF CallShape, Acted
<1>7. ASSUME NEW s \in Sessions, ClaimTakeover(p, limit, s, j)
      PROVE  \E v \in Loaded(p, limit) : disk' = disk \/ CallShape(v, disk', j)
  <2>1. PICK v \in Loaded(p, limit) :
          \/ FlushOnly(v)
          \/ CanClaim(v, s, j) /\ disk' = Claimed(v, s, j)
    BY <1>7 DEF ClaimTakeover
  <2>2. ASSUME CanClaim(v, s, j), disk' = Claimed(v, s, j)
        PROVE  CallShape(v, disk', j)
    <3>1. Owned(v) /\ Owned(disk')
      BY <1>2, <1>3, <2>2, ClaimedOwned
    <3>2. disk'.jobs = [v.jobs EXCEPT ![j] = IF Exists(v, j) THEN @ ELSE ClaimedPlaceholder(s)]
      BY <2>2 DEF Claimed
    <3>3. v.jobs \in [Jobs -> JobRow]
      BY <3>1 DEF Owned, View
    <3>4. Acted(v, disk', j)
      BY <3>2, <3>3 DEF Acted, ClaimedPlaceholder, KnownStatuses, ActiveStatuses
    <3> QED BY <3>1, <3>2, <3>3, <3>4 DEF CallShape
  <2> QED BY <1>4, <2>1, <2>2
<1>8. ASSUME NEW s \in Sessions, ReleaseTakeover(p, limit, s, j)
      PROVE  \E v \in Loaded(p, limit) : disk' = disk \/ CallShape(v, disk', j)
  <2>1. PICK v \in Loaded(p, limit) :
          \/ FlushOnly(v)
          \/ CanRelease(v, s, j) /\ disk' = Released(v, s, j)
    BY <1>8 DEF ReleaseTakeover
  <2>2. disk' = Released(v, s, j) => disk'.jobs = v.jobs
    BY DEF Released
  <2> QED BY <1>3, <1>4, <2>1, <2>2, ReleasedOwned DEF CallShape, Acted
<1> QED BY <1>1, <1>5, <1>6, <1>7, <1>8

\* Only calls write the file.
LEMMA StepShape ==
  ASSUME IInv, [Next]_vars
  PROVE  \/ disk' = disk
         \/ \E p \in Procs, limit \in Limits, j \in Jobs : \E v \in Loaded(p, limit) :
              CallShape(v, disk', j)
<1>1. CASE \E p \in Procs : Operation(p)
  BY <1>1, OperationShape
<1> QED BY <1>1 DEF Next, vars, Query, Restart, Tick

\* In an owned view or file an active job is alone in its session.
LEMMA OwnedAlone ==
  ASSUME NEW d, Owned(d), NEW s \in Sessions,
         NEW j \in ActiveIn(d, s), NEW k \in ActiveIn(d, s)
  PROVE  j = k
BY ConstantsAssumption DEF Owned, OwnsItsSession, ActiveIn

-----------------------------------------------------------------------------

\* No call of any process hands the session of a live job to another job.
THEOREM SessionsNotStolen == SeededSpec => NoStolenSession
<1> DEFINE Kept == \A s \in Sessions, j \in Jobs :
                     /\ j \in ActiveIn(disk, s)
                     /\ ~StaleActive(disk, j)
                     => \A k \in Jobs \ {j} : k \notin ActiveIn(disk', s)
<1>1. ASSUME IInv, [Next]_vars PROVE Kept
  <2> SUFFICES ASSUME NEW s \in Sessions, NEW j \in Jobs,
                      j \in ActiveIn(disk, s), ~StaleActive(disk, j),
                      NEW k \in Jobs \ {j}, k \in ActiveIn(disk', s)
               PROVE  FALSE
    OBVIOUS
  <2>1. CASE disk' = disk
    BY <1>1, <2>1, ConstantsAssumption DEF IInv, Sound, Unshared, ActiveIn
  <2>2. CASE \E p \in Procs, limit \in Limits, i \in Jobs : \E v \in Loaded(p, limit) :
               CallShape(v, disk', i)
    <3>1. PICK p \in Procs, limit \in Limits, i \in Jobs : \E v \in Loaded(p, limit) :
                 CallShape(v, disk', i)
      BY <2>2
    <3>2. PICK v \in Loaded(p, limit) : CallShape(v, disk', i)
      BY <3>1
    <3>3. v.jobs[j] = disk.jobs[j]
      BY <1>1, LoadedRows DEF ActiveIn
    <3>4. j \in ActiveIn(v, s)
      BY <3>3 DEF ActiveIn, IsActive
    <3>5. CASE i = j
      <4>1. k \in ActiveIn(v, s)
        BY <3>2, <3>5 DEF CallShape, ActiveIn, IsActive
      <4> QED BY <3>2, <3>4, <4>1, OwnedAlone DEF CallShape
    <3>6. CASE i # j
      <4>1. j \in ActiveIn(disk', s)
        BY <3>2, <3>4, <3>6 DEF CallShape, ActiveIn, IsActive
      <4> QED BY <3>2, <4>1, OwnedAlone DEF CallShape
    <3> QED BY <3>5, <3>6
  <2> QED BY <1>1, <2>1, <2>2, StepShape
<1>2. IInv /\ [Next]_vars => [Kept]_vars
  BY <1>1
<1> QED BY <1>2, SeededInvariant, PTL DEF SeededSpec, NoStolenSession

\* A finished job stays finished: with room for all rows its status changes only
\* after the row has aged out.
THEOREM FinishedStays == SeededSpec => TerminalIsFinal
<1> DEFINE Kept == \A j \in Jobs :
                     /\ IsTerminal(disk, j)
                     /\ ~StaleTerminal(disk, j)
                     /\ \A limit \in Limits : Cardinality(Rows(disk)) <= limit
                     => disk'.jobs[j].status = disk.jobs[j].status
<1>1. ASSUME IInv, [Next]_vars PROVE Kept
  <2> SUFFICES ASSUME NEW j \in Jobs, IsTerminal(disk, j), ~StaleTerminal(disk, j),
                      \A limit \in Limits : Cardinality(Rows(disk)) <= limit
               PROVE  disk'.jobs[j].status = disk.jobs[j].status
    OBVIOUS
  <2>1. ASSUME NEW p \in Procs, NEW limit \in Limits, NEW i \in Jobs,
               NEW v \in Loaded(p, limit), CallShape(v, disk', i)
        PROVE  disk'.jobs[j].status = disk.jobs[j].status
    <3>1. v.jobs[j] = disk.jobs[j]
      BY <1>1, LoadedRows
    <3>2. CASE disk'.jobs[j] = v.jobs[j]
      BY <3>1, <3>2
    <3>3. CASE ValidTransition(v.jobs[j].status, disk'.jobs[j].status)
      BY <3>1, <3>3 DEF ValidTransition, NextStatuses, IsTerminal, TerminalStatuses,
                        Statuses, KnownStatuses
    <3>4. Exists(v, j)
      BY <3>1 DEF Exists, IsTerminal, TerminalStatuses
    <3> QED BY <2>1, <3>2, <3>3, <3>4 DEF CallShape, Acted
  <2> QED BY <1>1, <2>1, StepShape
<1>2. IInv /\ [Next]_vars => [Kept]_vars
  BY <1>1
<1> QED BY <1>2, SeededInvariant, PTL DEF SeededSpec, TerminalIsFinal

\* A row of unknown status is not revived: with room for all rows it can only be
\* interrupted.
THEOREM GhostsNotRevived == SeededSpec => GhostOnlyInterrupted
<1> DEFINE Kept == \A j \in Jobs :
                     /\ IsGhost(disk, j)
                     /\ \A limit \in Limits : Cardinality(Rows(disk)) <= limit
                     => disk'.jobs[j].status \in {"ghost", "interrupted"}
<1>1. ASSUME IInv, [Next]_vars PROVE Kept
  <2> SUFFICES ASSUME NEW j \in Jobs, IsGhost(disk, j),
                      \A limit \in Limits : Cardinality(Rows(disk)) <= limit
               PROVE  disk'.jobs[j].status \in {"ghost", "interrupted"}
    OBVIOUS
  <2>1. disk.jobs[j].status = "ghost"
    BY <1>1 DEF IInv, Sound, View, JobRow, IsGhost, Exists, IsActive, IsTerminal, Statuses,
                KnownStatuses
  <2>2. ASSUME NEW p \in Procs, NEW limit \in Limits, NEW i \in Jobs,
               NEW v \in Loaded(p, limit), CallShape(v, disk', i)
        PROVE  disk'.jobs[j].status \in {"ghost", "interrupted"}
    <3>1. v.jobs[j].status \in {"ghost", "interrupted"}
      BY <1>1, LoadedRows
    <3>2. CASE disk'.jobs[j] = v.jobs[j]
      BY <3>1, <3>2
    <3>3. CASE ValidTransition(v.jobs[j].status, disk'.jobs[j].status)
      BY <3>1, <3>3 DEF ValidTransition, NextStatuses, TerminalStatuses, Statuses, KnownStatuses,
                        ActiveStatuses
    <3>4. Exists(v, j)
      BY <3>1 DEF Exists
    <3> QED BY <2>2, <3>2, <3>3, <3>4 DEF CallShape, Acted
  <2> QED BY <1>1, <2>1, <2>2, StepShape
<1>2. IInv /\ [Next]_vars => [Kept]_vars
  BY <1>1
<1> QED BY <1>2, SeededInvariant, PTL DEF SeededSpec, GhostOnlyInterrupted

\* No reap or compaction loses the row of a live job, whatever the limits.
THEOREM LiveRowsStay == SeededSpec => LiveRowsKept
<1> DEFINE Kept == \A j \in Jobs : IsActive(disk, j) /\ ~StaleActive(disk, j)
                                     => Exists(disk', j)
<1>1. ASSUME IInv, [Next]_vars PROVE Kept
  <2> SUFFICES ASSUME NEW j \in Jobs, IsActive(disk, j), ~StaleActive(disk, j)
               PROVE  Exists(disk', j)
    OBVIOUS
  <2>1. Exists(disk, j)
    BY DEF Exists, IsActive, ActiveStatuses
  <2>2. ASSUME NEW p \in Procs, NEW limit \in Limits, NEW i \in Jobs,
               NEW v \in Loaded(p, limit), CallShape(v, disk', i)
        PROVE  Exists(disk', j)
    <3>1. v.jobs[j] = disk.jobs[j]
      BY <1>1, LoadedRows
    <3> QED BY <2>1, <2>2, <3>1 DEF CallShape, Acted, Exists, KnownStatuses, ActiveStatuses,
                                    TerminalStatuses
  <2>3. disk' = disk => Exists(disk', j)
    BY <2>1 DEF Exists
  <2> QED BY <1>1, <2>2, <2>3, StepShape
<1>2. IInv /\ [Next]_vars => [Kept]_vars
  BY <1>1
<1> QED BY <1>2, SeededInvariant, PTL DEF SeededSpec, LiveRowsKept

-----------------------------------------------------------------------------
(* The refinement of SessionLease.                                         *)

Lapsed == {j \in Jobs : StaleActive(disk, j)}

\* In a sound file the holder of a session is the active job that works in it.
LEMMA HolderIs ==
  ASSUME Sound(disk), NEW s \in Sessions
  PROVE  /\ Holder[s] \in Jobs \cup {None}
         /\ \A j \in Jobs : Holder[s] = j <=> j \in ActiveIn(disk, s)
<1>1. CASE ActiveIn(disk, s) = {}
  BY <1>1, ConstantsAssumption DEF Holder
<1>2. CASE ActiveIn(disk, s) # {}
  <2>1. PICK j \in Jobs : j \in ActiveIn(disk, s)
    BY <1>2 DEF ActiveIn
  <2>2. \A k \in ActiveIn(disk, s) : k = j
    BY <2>1, ConstantsAssumption DEF Sound, Unshared, ActiveIn
  <2>3. Holder[s] = CHOOSE k \in Jobs : k \in ActiveIn(disk, s)
    BY <1>2 DEF Holder
  <2>4. Holder[s] \in Jobs /\ Holder[s] \in ActiveIn(disk, s)
    BY <2>1, <2>3
  <2> QED BY <2>1, <2>2, <2>4
<1> QED BY <1>1, <1>2

\* The same of the next file.
LEMMA HolderBecomes ==
  ASSUME Sound(disk'), NEW s \in Sessions
  PROVE  /\ Holder'[s] \in Jobs \cup {None}
         /\ \A j \in Jobs : Holder'[s] = j <=> j \in ActiveIn(disk', s)
<1>1. Holder' = [t \in Sessions |->
        IF ActiveIn(disk', t) = {} THEN None ELSE CHOOSE j \in Jobs : j \in ActiveIn(disk', t)]
  BY DEF Holder
<1>2. CASE ActiveIn(disk', s) = {}
  BY <1>1, <1>2, ConstantsAssumption
<1>3. CASE ActiveIn(disk', s) # {}
  <2>1. PICK j \in Jobs : j \in ActiveIn(disk', s)
    BY <1>3 DEF ActiveIn
  <2>2. \A k \in ActiveIn(disk', s) : k = j
    BY <2>1, ConstantsAssumption DEF Sound, Unshared, ActiveIn
  <2>3. Holder'[s] = CHOOSE k \in Jobs : k \in ActiveIn(disk', s)
    BY <1>1, <1>3
  <2>4. Holder'[s] \in Jobs /\ Holder'[s] \in ActiveIn(disk', s)
    BY <2>1, <2>3
  <2> QED BY <2>1, <2>2, <2>4
<1> QED BY <1>2, <1>3

\* A call of the store is one job's act on the leases.
LEMMA CallIsAct ==
  ASSUME IInv, Sound(disk'), now' = now, NEW p \in Procs, NEW limit \in Limits,
         NEW j \in Jobs, NEW v \in Loaded(p, limit), CallShape(v, disk', j)
  PROVE  Lease!Act(j)
<1>0. Sound(disk) /\ now \in Nat /\ ActiveTTL \in Nat
  BY ConstantsAssumption DEF IInv
<1>1. \A k \in Jobs \ {j}, s \in Sessions : k \in ActiveIn(disk', s) => k \in ActiveIn(disk, s)
  <2> SUFFICES ASSUME NEW k \in Jobs \ {j}, NEW s \in Sessions, k \in ActiveIn(disk', s)
               PROVE  k \in ActiveIn(disk, s)
    OBVIOUS
  <2>1. k \in ActiveIn(v, s)
    BY DEF CallShape, ActiveIn, IsActive
  <2>2. v.jobs[k] = disk.jobs[k]
    BY <2>1, LoadedRows DEF ActiveIn
  <2> QED BY <2>1, <2>2 DEF ActiveIn, IsActive
<1>2. \A k \in Jobs \ {j}, s \in Sessions :
        k \in ActiveIn(disk, s) /\ ~StaleActive(disk, k) => k \in ActiveIn(disk', s)
  <2> SUFFICES ASSUME NEW k \in Jobs \ {j}, NEW s \in Sessions,
                      k \in ActiveIn(disk, s), ~StaleActive(disk, k)
               PROVE  k \in ActiveIn(disk', s)
    OBVIOUS
  <2>1. v.jobs[k] = disk.jobs[k]
    BY LoadedRows DEF ActiveIn
  <2> QED BY <2>1 DEF CallShape, ActiveIn, IsActive
<1>3. ASSUME NEW s \in Sessions
      PROVE  /\ Holder'[s] \in {Holder[s], j, None}
             /\ Holder[s] \notin {None, j} /\ Holder'[s] # Holder[s] => Holder[s] \in Lapsed
  <2>1. CASE Holder'[s] \in Jobs \ {j}
    BY <1>0, <1>1, <2>1, HolderIs, HolderBecomes
  <2>2. ASSUME Holder[s] \notin {None, j}, Holder[s] \notin Lapsed
        PROVE  Holder'[s] = Holder[s]
    BY <1>0, <1>2, <2>2, HolderIs, HolderBecomes DEF Lapsed
  <2> QED BY <2>1, <2>2, HolderBecomes
<1>4. ASSUME NEW s \in Sessions, NEW t \in Sessions, Holder'[s] = j, Holder'[t] = j
      PROVE  s = t
  BY <1>4, HolderBecomes DEF ActiveIn
<1>5. Lapsed' \subseteq Lapsed
  <2> SUFFICES ASSUME NEW k \in Jobs, IsActive(disk', k), now > disk'.jobs[k].updatedAt + ActiveTTL
               PROVE  StaleActive(disk, k)
    BY DEF Lapsed, StaleActive
  <2>1. disk'.jobs[k].updatedAt # now
    BY <1>0
  <2>2. disk'.jobs[k] = v.jobs[k]
    BY <2>1 DEF CallShape, Acted
  <2>3. v.jobs[k] = disk.jobs[k]
    BY <2>2, LoadedRows DEF IsActive
  <2> QED BY <2>2, <2>3 DEF StaleActive, IsActive
<1> QED BY <1>3, <1>4, <1>5 DEF Lease!Act, Lapsed

\* As the clock goes on leases lapse and nobody loses one.
LEMMA TickLapses ==
  ASSUME IInv, Tick
  PROVE  Lease!Lapse
<1>1. Holder' = Holder
  BY DEF Tick, Holder, ActiveIn, IsActive
<1>2. Lapsed \subseteq Lapsed'
  <2> SUFFICES ASSUME NEW j \in Jobs, StaleActive(disk, j)
               PROVE  IsActive(disk', j) /\ now' > disk'.jobs[j].updatedAt + ActiveTTL
    BY DEF Lapsed, StaleActive
  <2>1. disk' = disk /\ now' = now + 1 /\ now \in Nat /\ ActiveTTL \in Nat
        /\ disk.jobs[j].updatedAt \in Nat
    BY ConstantsAssumption DEF Tick, IInv, Sound, View, JobRow
  <2> QED BY <2>1 DEF StaleActive, IsActive
<1> QED BY <1>1, <1>2 DEF Lease!Lapse, Lapsed

\* The store implements the lease: every step of every process is a step of
\* SessionLease or leaves the leases as they are.
THEOREM StoreImplementsLease == SeededSpec => LeaseSpec
<1>1. IInv => Lease!Init
  BY HolderIs DEF IInv, Lease!Init, Holder
<1>2. ASSUME IInv, IInv', [Next]_vars
      PROVE  [Lease!Next]_<<Holder, Lapsed>>
  <2>1. CASE \E p \in Procs : Operation(p)
    <3>1. UNCHANGED now
      BY <2>1 DEF Operation, ApplyMutation, ReserveTakeover, ClaimTakeover, ReleaseTakeover
    <3>2. CASE disk' = disk
      BY <3>1, <3>2 DEF Holder, Lapsed, ActiveIn, IsActive, StaleActive
    <3>3. CASE disk' # disk
      BY <1>2, <3>1, <3>3, StepShape, CallIsAct DEF IInv, Lease!Next
    <3> QED BY <3>2, <3>3
  <2>2. CASE Tick
    BY <1>2, <2>2, TickLapses DEF Lease!Next
  <2>3. CASE UNCHANGED <<disk, now>>
    BY <2>3 DEF Holder, Lapsed, ActiveIn, IsActive, StaleActive
  <2> QED BY <1>2, <2>1, <2>2, <2>3 DEF Next, vars, Query, Restart
<1>3. IInv /\ IInv' /\ [Next]_vars => [Lease!Next]_<<Holder, Lapsed>>
  BY <1>2
<1>4. (Lease!Init /\ [][Lease!Next]_<<Holder, Lapsed>>) => LeaseSpec
  BY DEF LeaseSpec, Lease!Spec, Lease!vars, Lapsed
<1> QED BY <1>1, <1>3, <1>4, SeededInvariant, PTL DEF SeededSpec

=============================================================================
