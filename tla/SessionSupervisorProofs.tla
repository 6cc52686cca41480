----------------------- MODULE SessionSupervisorProofs -----------------------
(***************************************************************************)
(* Proofs about the worker supervisor, for any number of workers, calls    *)
(* and processes: its variables stay well typed; and where one run of the  *)
(* program at a time uses the store, no record of a running child is       *)
(* written off or lost.                                                    *)
(***************************************************************************)
EXTENDS SessionSupervisor, TLAPS

-----------------------------------------------------------------------------
(* Types.                                                                  *)

Statuses == ActiveStatuses \cup TerminalStatuses \cup {"absent"}

LEMMA AbsentTyped == Absent \in Record
BY DEF Absent, Record, NoPid, Due

\* Records with the fields the operations write.
LEMMA RecordTyped ==
  ASSUME NEW s \in Statuses, NEW p \in {NoPid} \cup Pids, NEW d \in Due, NEW t \in Nat
  PROVE  [status |-> s, pid |-> p, nextResume |-> d, updatedAt |-> t] \in Record
BY DEF Record, Statuses

\* Records whose status an operation changes.
LEMMA StatusTyped ==
  ASSUME NEW r \in Record, NEW s \in Statuses, NEW t \in Nat
  PROVE  /\ [r EXCEPT !.status = s] \in Record
         /\ [r EXCEPT !.status = s, !.updatedAt = t] \in Record
         /\ \A d \in Due :
              [r EXCEPT !.status = s, !.nextResume = d, !.updatedAt = t] \in Record
BY DEF Record, Statuses

LEMMA PutTyped ==
  ASSUME TypeOK, NEW w \in Workers, NEW r \in Record
  PROVE  [store EXCEPT ![w] = r] \in [Workers -> Record]
BY DEF TypeOK

LEMMA CompactedTyped ==
  ASSUME NEW s \in [Workers -> Record], NEW at
  PROVE  Compacted(s, at) \in [Workers -> Record]
BY AbsentTyped DEF Compacted

LEMMA SaveTyped ==
  ASSUME TypeOK, NEW s \in [Workers -> Record], Save(s)
  PROVE  store' \in [Workers -> Record]
BY DEF TypeOK, Save

LEMMA SaveFailsTyped ==
  ASSUME TypeOK, SaveFails
  PROVE  store' \in [Workers -> Record]
BY DEF TypeOK, SaveFails

\* A new process has a number of its own.
LEMMA SpawnTyped ==
  ASSUME TypeOK, NEW h \in Hosts, NEW w \in Workers, NEW Killed, Spawn(h, w, Killed)
  PROVE  /\ up' \subseteq Pids /\ children' \in [Hosts -> SUBSET Pids]
         /\ spawned' \in 0..MaxPids /\ launchedFor' \in [Pids -> Workers \cup {None}]
         /\ spawned + 1 \in Pids
<1>1. spawned + 1 \in Pids /\ spawned + 1 \in 0..MaxPids
  BY SupervisorAssumption DEF TypeOK, Spawn, Pids
<1>2. up' \subseteq Pids
  BY <1>1 DEF TypeOK, Spawn
<1>3. children' \in [Hosts -> SUBSET Pids]
  BY <1>1 DEF TypeOK, Spawn
<1>4. launchedFor' \in [Pids -> Workers \cup {None}]
  BY <1>1 DEF TypeOK, Spawn
<1> QED BY <1>1, <1>2, <1>3, <1>4 DEF Spawn

LEMMA KillTyped ==
  ASSUME TypeOK, NEW Killed, Kill(Killed)
  PROVE  /\ up' \subseteq Pids /\ children' \in [Hosts -> SUBSET Pids]
         /\ spawned' \in 0..MaxPids /\ launchedFor' \in [Pids -> Workers \cup {None}]
BY DEF TypeOK, Kill

\* The processes, and what the operations leave alone.
OsTyped ==
  /\ up \subseteq Pids /\ children \in [Hosts -> SUBSET Pids]
  /\ spawned \in 0..MaxPids /\ launchedFor \in [Pids -> Workers \cup {None}]

StoreTyped == store \in [Workers -> Record]

RestTyped ==
  /\ call \in [Callers -> Calls]
  /\ now \in Nat /\ restarts \in Nat
  /\ orphaned \subseteq {NoPid} \cup Pids

LEMMA Types == TypeOK <=> OsTyped /\ StoreTyped /\ RestTyped
BY DEF TypeOK, OsTyped, StoreTyped, RestTyped

LEMMA ListedTyped ==
  ASSUME TypeOK, NEW h \in Hosts
  PROVE  [w \in Workers |-> Reconciled(h, Reaped(h, store[w]))] \in [Workers -> Record]
<1> SUFFICES ASSUME NEW w \in Workers
             PROVE  Reconciled(h, Reaped(h, store[w])) \in Record
  OBVIOUS
<1>1. store[w] \in Record /\ now \in Nat
  BY DEF TypeOK
<1> DEFINE r == Reaped(h, store[w])
<1>2. r \in Record
  BY <1>1, StatusTyped DEF Reaped, Statuses, TerminalStatuses
<1>3. r.status \in Statuses
  BY <1>2 DEF Record, Statuses
<1> HIDE DEF r
<1>4. /\ (IF r.status = "queued" THEN "running" ELSE r.status) \in Statuses
      /\ (CASE r.status \in {"running", "queued", "resume_scheduled"} -> "completed"
            [] r.status = "blocked_rate_limit" -> "interrupted"
            [] OTHER -> r.status) \in Statuses
  BY <1>3 DEF Statuses, ActiveStatuses, TerminalStatuses
<1>5. Reconciled(h, r) \in Record
  BY <1>1, <1>2, <1>4, StatusTyped DEF Reconciled
<1> QED BY <1>5 DEF r

LEMMA TerminatedTyped ==
  ASSUME TypeOK, NEW w \in Workers
  PROVE  Terminated(w) \in [Workers -> Record]
<1>1. store[w] \in Record /\ now \in Nat
  BY DEF TypeOK
<1>2. [store[w] EXCEPT !.status = "interrupted", !.updatedAt = now] \in Record
  BY <1>1, StatusTyped DEF Statuses, TerminalStatuses
<1>3. [store EXCEPT ![w] = [store[w] EXCEPT !.status = "interrupted", !.updatedAt = now]]
        \in [Workers -> Record]
  BY <1>2, PutTyped
<1> QED BY <1>3, CompactedTyped DEF Terminated

\* The copy that a call of resume_due holds.
LEMMA CallFields ==
  ASSUME TypeOK, NEW c \in Callers
  PROVE  /\ call[c].at \in Nat /\ call[c].due \subseteq Workers
         /\ call[c].due # {} => call[c].host \in Hosts
BY DEF TypeOK, Calls, NoCall

LEMMA HandledTyped ==
  ASSUME TypeOK, NEW c \in Callers, NEW w,
         (Handled(c, w) /\ w \in call[c].due) \/ Abandoned(c)
  PROVE  call' \in [Callers -> Calls]
<1>1. NoCall \in Calls
  BY DEF Calls
<1>2. CASE Handled(c, w) /\ w \in call[c].due
  <2>1. call[c] \in [host: Hosts, dry: BOOLEAN, at: Nat, due: SUBSET Workers]
    BY <1>2 DEF TypeOK, Calls, NoCall
  <2>2. [call[c] EXCEPT !.due = @ \ {w}] \in Calls
    BY <2>1 DEF Calls
  <2> QED BY <1>2, <2>2 DEF Handled, TypeOK
<1> QED BY <1>1, <1>2 DEF Abandoned, TypeOK

-----------------------------------------------------------------------------
(* Type correctness.                                                       *)

LEMMA InitTyped == Init => TypeOK
<1> SUFFICES ASSUME Init PROVE TypeOK
  OBVIOUS
<1>1. NoCall \in Calls
  BY DEF Calls
<1> QED BY <1>1, AbsentTyped, SupervisorAssumption DEF Init, TypeOK, NoPid

LEMMA LaunchTyped ==
  ASSUME TypeOK, NEW h \in Hosts, NEW w \in Workers, Launch(h, w) PROVE TypeOK'
<1> DEFINE r == [status |-> "running", pid |-> spawned + 1, nextResume |-> None,
                 updatedAt |-> now]
<1>1. OsTyped' /\ spawned + 1 \in Pids
  BY SpawnTyped DEF Launch, OsTyped
<1>2. r \in Record
  BY <1>1, RecordTyped DEF TypeOK, Statuses, ActiveStatuses, Due
<1>3. [store EXCEPT ![w] = r] \in [Workers -> Record]
  BY <1>2, PutTyped
<1>4. StoreTyped'
  BY <1>3, SaveTyped, SaveFailsTyped DEF Launch, StoreTyped
<1>5. store[w].pid \in {NoPid} \cup Pids
  BY DEF TypeOK, Record
<1>6. RestTyped'
  BY <1>1, <1>5 DEF Launch, RestTyped, TypeOK
<1> QED BY <1>1, <1>4, <1>6, Types, PTL

LEMMA LaunchDryTyped ==
  ASSUME TypeOK, NEW w \in Workers, LaunchDry(w) PROVE TypeOK'
<1> DEFINE r == [status |-> "queued", pid |-> NoPid, nextResume |-> None,
                 updatedAt |-> now]
<1>1. r \in Record
  BY RecordTyped DEF TypeOK, Statuses, ActiveStatuses, Due
<1>2. [store EXCEPT ![w] = r] \in [Workers -> Record]
  BY <1>1, PutTyped
<1>3. StoreTyped'
  BY <1>2, SaveTyped DEF LaunchDry, StoreTyped
<1>4. store[w].pid \in {NoPid} \cup Pids
  BY DEF TypeOK, Record
<1>5. OsTyped' /\ RestTyped'
  BY <1>4 DEF LaunchDry, os, OsTyped, RestTyped, TypeOK
<1> QED BY <1>3, <1>5, Types, PTL

LEMMA ListTyped ==
  ASSUME TypeOK, NEW h \in Hosts, List(h) PROVE TypeOK'
<1>1. StoreTyped'
  BY ListedTyped, CompactedTyped, SaveTyped DEF List, StoreTyped
<1>2. OsTyped' /\ RestTyped'
  BY DEF List, os, OsTyped, RestTyped, TypeOK
<1> QED BY <1>1, <1>2, Types, PTL

LEMMA TerminateTyped ==
  ASSUME TypeOK, NEW h \in Hosts, NEW w \in Workers, Terminate(h, w) PROVE TypeOK'
<1>1. StoreTyped'
  BY TerminatedTyped, SaveTyped, SaveFailsTyped DEF Terminate, StoreTyped
<1>2. OsTyped'
  BY KillTyped DEF Terminate, OsTyped
<1>3. RestTyped'
  BY DEF Terminate, RestTyped, TypeOK
<1> QED BY <1>1, <1>2, <1>3, Types, PTL

LEMMA TerminateDryTyped ==
  ASSUME TypeOK, NEW w \in Workers, TerminateDry(w) PROVE TypeOK'
<1>1. StoreTyped'
  BY TerminatedTyped, SaveTyped DEF TerminateDry, StoreTyped
<1>2. store[w].pid \in {NoPid} \cup Pids
  BY DEF TypeOK, Record
<1>3. OsTyped' /\ RestTyped'
  BY <1>2 DEF TerminateDry, os, OsTyped, RestTyped, TypeOK
<1> QED BY <1>1, <1>3, Types, PTL

LEMMA MarkBlockedTyped ==
  ASSUME TypeOK, NEW w \in Workers, MarkBlocked(w) PROVE TypeOK'
<1>1. PICK backoff \in Backoffs :
        Save(Compacted([store EXCEPT ![w] =
          [store[w] EXCEPT !.status = "blocked_rate_limit", !.nextResume = now + backoff,
                           !.updatedAt = now]], now))
  BY DEF MarkBlocked
<1>2. store[w] \in Record /\ now \in Nat /\ now + backoff \in Due
  BY SupervisorAssumption DEF TypeOK, Due
<1> DEFINE r == [store[w] EXCEPT !.status = "blocked_rate_limit",
                                 !.nextResume = now + backoff, !.updatedAt = now]
<1>3. r \in Record
  BY <1>2, StatusTyped DEF Statuses, ActiveStatuses
<1>4. [store EXCEPT ![w] = r] \in [Workers -> Record]
  BY <1>3, PutTyped
<1>5. StoreTyped'
  BY <1>1, <1>4, CompactedTyped, SaveTyped DEF StoreTyped
<1>6. OsTyped' /\ RestTyped'
  BY DEF MarkBlocked, os, OsTyped, RestTyped, TypeOK
<1> QED BY <1>5, <1>6, Types, PTL

LEMMA ResumeTyped ==
  ASSUME TypeOK, NEW c \in Callers, Resume(c) PROVE TypeOK'
<1>1. call[c].at \in Nat /\ (call[c].due # {} => call[c].host \in Hosts)
  BY CallFields
<1>2. ASSUME NEW h \in Hosts, NEW dry \in {FALSE, DryRuns}, FindDue(c, h, dry)
      PROVE  TypeOK'
  <2> DEFINE due == {w \in Workers : Ready(store[w], now)}
             begun == [host |-> h, dry |-> dry, at |-> now, due |-> due]
  <2>1. due \in SUBSET Workers /\ now \in Nat /\ dry \in BOOLEAN
    BY SupervisorAssumption DEF TypeOK
  <2> HIDE DEF due
  <2>2. begun \in Calls
    BY <2>1 DEF Calls
  <2>3. call' = [call EXCEPT ![c] = begun]
    BY <1>2 DEF FindDue, due
  <2> HIDE DEF begun
  <2>4. call' \in [Callers -> Calls]
    BY <2>2, <2>3 DEF TypeOK
  <2>5. OsTyped' /\ StoreTyped' /\ RestTyped'
    BY <1>2, <2>4 DEF FindDue, os, OsTyped, StoreTyped, RestTyped, TypeOK
  <2> QED BY <2>5, Types, PTL
<1>3. ASSUME NEW w \in Workers, SkipWorker(c, w) PROVE TypeOK'
  <2>1. OsTyped' /\ StoreTyped' /\ RestTyped'
    BY <1>3, HandledTyped DEF SkipWorker, os, OsTyped, StoreTyped, RestTyped, TypeOK
  <2> QED BY <2>1, Types, PTL
<1>4. ASSUME NEW w \in Workers, ResumeWorker(c, w) PROVE TypeOK'
  <2> DEFINE r == [status |-> "running", pid |-> spawned + 1, nextResume |-> None,
                   updatedAt |-> call[c].at]
  <2>1. OsTyped' /\ spawned + 1 \in Pids
    BY <1>1, <1>4, SpawnTyped DEF ResumeWorker, OsTyped
  <2>2. call[c].at \in Nat
    BY <1>1
  <2>3. r \in Record
    BY <2>1, <2>2, RecordTyped DEF Statuses, ActiveStatuses, Due
  <2>4. [store EXCEPT ![w] = r] \in [Workers -> Record]
    BY <2>3, PutTyped
  <2>5. StoreTyped'
    BY <1>4, <2>4, SaveTyped, SaveFailsTyped DEF ResumeWorker, StoreTyped
  <2>6. RestTyped'
    BY <1>4, <2>1, HandledTyped DEF ResumeWorker, RestTyped, TypeOK
  <2> QED BY <2>1, <2>5, <2>6, Types, PTL
<1>5. ASSUME NEW w \in Workers, PlanResume(c, w) PROVE TypeOK'
  <2> DEFINE r == [store[w] EXCEPT !.status = "resume_scheduled", !.updatedAt = call[c].at]
  <2>1. store[w] \in Record /\ call[c].at \in Nat
    BY <1>1 DEF TypeOK
  <2>2. r \in Record
    BY <2>1, StatusTyped DEF Statuses, ActiveStatuses
  <2>3. [store EXCEPT ![w] = r] \in [Workers -> Record]
    BY <2>2, PutTyped
  <2>4. StoreTyped'
    BY <1>5, <2>3, SaveTyped DEF PlanResume, StoreTyped
  <2>5. OsTyped' /\ RestTyped'
    BY <1>5, HandledTyped DEF PlanResume, os, OsTyped, RestTyped, TypeOK
  <2> QED BY <2>4, <2>5, Types, PTL
<1>6. ASSUME NEW w \in Workers, ResumeFails(c, w) PROVE TypeOK'
  <2> DEFINE r == [store[w] EXCEPT !.status = "failed", !.updatedAt = call[c].at]
  <2>1. store[w] \in Record /\ call[c].at \in Nat
    BY <1>1 DEF TypeOK
  <2>2. r \in Record
    BY <2>1, StatusTyped DEF Statuses, TerminalStatuses
  <2>3. [store EXCEPT ![w] = r] \in [Workers -> Record]
    BY <2>2, PutTyped
  <2>4. StoreTyped'
    BY <1>6, <2>3, SaveTyped, SaveFailsTyped DEF ResumeFails, StoreTyped
  <2>5. OsTyped'
    BY <1>6, KillTyped DEF ResumeFails, OsTyped
  <2>6. RestTyped'
    BY <1>6, HandledTyped DEF ResumeFails, RestTyped, TypeOK
  <2> QED BY <2>4, <2>5, <2>6, Types, PTL
<1>7. ASSUME FinishResume(c) \/ LockTimesOut(c) PROVE TypeOK'
  <2>1. Compacted(store, call[c].at) \in [Workers -> Record]
    BY CompactedTyped DEF TypeOK
  <2>2. StoreTyped'
    BY <1>7, <2>1, SaveTyped, SaveFailsTyped DEF FinishResume, LockTimesOut, StoreTyped, TypeOK
  <2>3. call' \in [Callers -> Calls]
    BY <1>7, HandledTyped DEF FinishResume, LockTimesOut
  <2>4. OsTyped' /\ RestTyped'
    BY <1>7, <2>3 DEF FinishResume, LockTimesOut, os, OsTyped, RestTyped, TypeOK
  <2> QED BY <2>2, <2>4, Types, PTL
<1> QED
  BY <1>2, <1>3, <1>4, <1>5, <1>6, <1>7 DEF Resume

\* The records, the processes and the calls stay well typed (lib.rs, worker.rs).
THEOREM SupervisorTypeCorrect == Spec => []TypeOK
<1>1. TypeOK /\ [Next]_vars => TypeOK'
  <2> SUFFICES ASSUME TypeOK, [Next]_vars PROVE TypeOK'
    OBVIOUS
  <2>1. CASE UNCHANGED vars
    BY <2>1 DEF vars, TypeOK
  <2>2. ASSUME NEW h \in Hosts, Restart(h) PROVE TypeOK'
    <3>1. [c \in Callers |-> IF call[c].host = h THEN NoCall ELSE call[c]] \in [Callers -> Calls]
      BY DEF TypeOK, Calls
    <3>2. [children EXCEPT ![h] = {}] \in [Hosts -> SUBSET Pids]
      BY DEF TypeOK
    <3> QED BY <2>2, <3>1, <3>2 DEF Restart, TypeOK
  <2>3. ASSUME NEW p \in Pids, ProcessExits(p) PROVE TypeOK'
    BY <2>3 DEF ProcessExits, Kill, TypeOK
  <2>4. CASE Tick
    BY <2>4 DEF Tick, os, TypeOK
  <2>5. ASSUME NEW h \in Hosts, List(h) PROVE TypeOK'
    BY <2>5, ListTyped
  <2>6. ASSUME NEW h \in Hosts, NEW w \in Workers, Launch(h, w) PROVE TypeOK'
    BY <2>6, LaunchTyped
  <2>7. ASSUME NEW h \in Hosts, NEW w \in Workers, Terminate(h, w) PROVE TypeOK'
    BY <2>7, TerminateTyped
  <2>8. ASSUME NEW w \in Workers, LaunchDry(w) PROVE TypeOK'
    BY <2>8, LaunchDryTyped
  <2>9. ASSUME NEW w \in Workers, TerminateDry(w) PROVE TypeOK'
    BY <2>9, TerminateDryTyped
  <2>10. ASSUME NEW w \in Workers, MarkBlocked(w) PROVE TypeOK'
    BY <2>10, MarkBlockedTyped
  <2>11. ASSUME NEW c \in Callers, Resume(c) PROVE TypeOK'
    BY <2>11, ResumeTyped
  <2> QED
    BY <2>1, <2>2, <2>3, <2>4, <2>5, <2>6, <2>7, <2>8, <2>9, <2>10, <2>11, Zenon DEF Next
<1> QED BY InitTyped, <1>1, PTL DEF Spec

-----------------------------------------------------------------------------
(* One host: no record of a running child is written off or lost.          *)

\* One run of the program at a time uses the store.
OneHost == \A g, h \in Hosts : g = h

\* Process numbers are used once.
Fresh ==
  /\ up \subseteq 1..spawned
  /\ \A p \in up : launchedFor[p] \in Workers
  /\ \A w \in Workers : store[w].pid <= spawned

\* The inductive invariant.
Recorded == TypeOK /\ Fresh /\ NoLiveChildEnded /\ EveryChildRecorded

\* A step that launches nothing.
OsShrinks ==
  /\ up' \subseteq up
  /\ \A h \in Hosts : children'[h] \subseteq children[h]
  /\ spawned' = spawned /\ launchedFor' = launchedFor

AliveNext(h, p) == p \in up' /\ p \in children'[h]

\* The records of s are those of the store, ended only where no child is left
\* running that has not been let go of.
Updated(s) ==
  \A w \in Workers :
    /\ s[w].pid = store[w].pid
    /\ \/ Terminal(s[w]) => Terminal(store[w])
       \/ s[w].pid \in orphaned'
       \/ \A h \in Hosts : ~AliveNext(h, s[w].pid)

\* An update that launches nothing and forgets no child that runs.
LEMMA UpdateKeeps ==
  ASSUME Recorded, TypeOK', OsShrinks, orphaned \subseteq orphaned',
         NEW s, Updated(s), NEW at, store' = s \/ store' = Compacted(s, at)
  PROVE  Recorded'
<1> USE DEF Recorded
<1>1. ASSUME NEW w \in Workers
      PROVE  \/ store'[w] = s[w]
             \/ store'[w] = Absent /\ Terminal(s[w])
  BY <1>1 DEF Compacted, Expired
<1>2. Fresh'
  <2>1. ASSUME NEW w \in Workers PROVE store'[w].pid <= spawned'
    BY <1>1 DEF Fresh, Updated, OsShrinks, Absent, NoPid, TypeOK
  <2> QED BY <2>1 DEF Fresh, OsShrinks
<1>3. ASSUME NEW w \in Workers, NEW h \in Hosts,
             Terminal(s[w]), AliveNext(h, s[w].pid)
      PROVE  s[w].pid \in orphaned'
  <2>1. AliveNext(h, s[w].pid) => Alive(h, s[w].pid)
    BY DEF AliveNext, Alive, OsShrinks
  <2> QED BY <1>3, <2>1 DEF Updated, NoLiveChildEnded
<1>4. NoLiveChildEnded'
  <2> SUFFICES ASSUME NEW w \in Workers, NEW h \in Hosts,
                      Terminal(store'[w]), AliveNext(h, store'[w].pid)
               PROVE  store'[w].pid \in orphaned'
    BY DEF NoLiveChildEnded, Alive, AliveNext, Terminal
  <2>1. store'[w] # Absent
    BY DEF Terminal, Absent, TerminalStatuses
  <2> QED BY <1>1, <1>3, <2>1
<1>5. EveryChildRecorded'
  <2> SUFFICES ASSUME NEW h \in Hosts, NEW p \in Pids \ orphaned', AliveNext(h, p)
               PROVE  store'[launchedFor'[p]].pid = p
    BY DEF EveryChildRecorded, Alive, AliveNext
  <2> DEFINE w == launchedFor[p]
  <2>1. store[w].pid = p
    BY DEF EveryChildRecorded, Alive, AliveNext, OsShrinks
  <2>2. w \in Workers
    BY DEF Fresh, AliveNext, OsShrinks
  <2> QED
    BY <1>1, <1>3, <2>1, <2>2 DEF Updated, OsShrinks
<1> QED BY <1>2, <1>4, <1>5

\* A step that launches a process for w: its record is saved and the old one's
\* process is not left behind, or the new process is let go of.
LEMMA SpawnKeeps ==
  ASSUME Recorded, TypeOK', orphaned \subseteq orphaned',
         NEW h \in Hosts, NEW w \in Workers, NEW Killed, Spawn(h, w, Killed),
         \/ /\ \E r : /\ store' = [store EXCEPT ![w] = r]
                      /\ r.pid = spawned + 1 /\ ~Terminal(r)
            /\ \/ store[w].pid \in orphaned' \cup Killed
               \/ \A g \in Hosts : ~Alive(g, store[w].pid)
         \/ store' = store /\ spawned + 1 \in orphaned'
  PROVE  Recorded'
<1> USE DEF Recorded
<1> DEFINE new == spawned + 1
<1>1. spawned \in Nat /\ new \in Pids /\ new \notin up
  BY SpawnTyped, SupervisorAssumption DEF Fresh, TypeOK
<1>2. /\ spawned' = new /\ launchedFor' = [launchedFor EXCEPT ![new] = w]
      /\ up' = (up \ Killed) \cup {new}
      /\ \A g \in Hosts : children'[g] \subseteq children[g] \cup {new}
  BY DEF Spawn, TypeOK
<1>3. \A v \in Workers : store'[v] = store[v] \/ (v = w /\ store'[v].pid = new /\ ~Terminal(store'[v]))
  BY DEF TypeOK
<1>4. Fresh'
  <2>1. ASSUME NEW v \in Workers PROVE store'[v].pid <= new
    <3>1. store[v].pid \in Nat /\ store[v].pid <= spawned
      BY DEF Fresh, TypeOK, Record, Pids, NoPid
    <3> QED BY <1>1, <1>3, <3>1
  <2>2. ASSUME NEW p \in up' PROVE p \in 1..new
    <3>1. CASE p \in up
      <4>1. p \in 1..spawned
        BY <3>1 DEF Fresh
      <4> QED BY <1>1, <4>1
    <3> QED BY <1>1, <1>2, <3>1
  <2>3. ASSUME NEW p \in up' PROVE launchedFor'[p] \in Workers
    BY <1>1, <1>2, <2>3 DEF Fresh, TypeOK
  <2> QED BY <1>2, <2>1, <2>2, <2>3 DEF Fresh
<1>5. ASSUME NEW g \in Hosts, NEW p, AliveNext(g, p), p # new
      PROVE  Alive(g, p) /\ p \notin Killed
  BY <1>2, <1>5 DEF AliveNext, Alive
<1>6. NoLiveChildEnded'
  <2> SUFFICES ASSUME NEW v \in Workers, NEW g \in Hosts,
                      Terminal(store'[v]), AliveNext(g, store'[v].pid)
               PROVE  store'[v].pid \in orphaned'
    BY DEF NoLiveChildEnded, Alive, AliveNext, Terminal
  <2>1. store'[v] = store[v]
    BY <1>3
  <2>2. store[v].pid \in Nat /\ store[v].pid <= spawned
    BY DEF Fresh, TypeOK, Record, Pids, NoPid
  <2>3. store[v].pid # new
    BY <1>1, <2>2
  <2> QED BY <1>5, <2>1, <2>3 DEF NoLiveChildEnded
<1>7. EveryChildRecorded'
  <2> SUFFICES ASSUME NEW g \in Hosts, NEW p \in Pids \ orphaned', AliveNext(g, p)
               PROVE  store'[launchedFor'[p]].pid = p
    BY DEF EveryChildRecorded, Alive, AliveNext
  <2>1. CASE p = new
    <3>1. launchedFor'[p] = w
      BY <1>1, <1>2, <2>1 DEF TypeOK
    <3>2. store'[w].pid = new
      BY <2>1 DEF TypeOK
    <3> QED BY <2>1, <3>1, <3>2
  <2>2. CASE p # new
    <3>1. launchedFor'[p] = launchedFor[p] /\ launchedFor[p] \in Workers
      BY <1>1, <1>2, <1>5, <2>2 DEF TypeOK, Fresh, Alive
    <3>2. Alive(g, p) /\ p \notin Killed /\ p \notin orphaned
      BY <1>5, <2>2
    <3>3. store[launchedFor[p]].pid = p
      BY <3>2 DEF EveryChildRecorded
    <3>4. launchedFor[p] # w \/ store' = store
      BY <3>2, <3>3
    <3>5. store'[launchedFor[p]] = store[launchedFor[p]]
      BY <3>1, <3>4 DEF TypeOK
    <3> QED BY <3>1, <3>3, <3>5
  <2> QED BY <2>1, <2>2
<1> QED BY <1>4, <1>6, <1>7

\* No process runs at first.
LEMMA RecordedInit == Init => Recorded
BY InitTyped DEF Init, Recorded, Fresh, NoLiveChildEnded, EveryChildRecorded, Alive,
   Absent, NoPid, Terminal, TerminalStatuses

LEMMA LaunchKeeps ==
  ASSUME Recorded, TypeOK', NEW h \in Hosts, NEW w \in Workers, Launch(h, w)
  PROVE  Recorded'
<1> DEFINE r == [status |-> "running", pid |-> spawned + 1, nextResume |-> None,
                 updatedAt |-> now]
<1>1. r.pid = spawned + 1 /\ ~Terminal(r)
  BY DEF Terminal, TerminalStatuses
<1>2. \/ store' = [store EXCEPT ![w] = r] /\ store[w].pid \in orphaned'
      \/ store' = store /\ spawned + 1 \in orphaned'
  BY DEF Launch, Save, SaveFails
<1>3. Spawn(h, w, {}) /\ orphaned \subseteq orphaned'
  BY DEF Launch
<1> HIDE DEF r
<1> QED BY <1>1, <1>2, <1>3, SpawnKeeps

LEMMA LaunchDryKeeps ==
  ASSUME Recorded, TypeOK', NEW w \in Workers, LaunchDry(w)
  PROVE  Recorded'
<1> USE DEF Recorded
<1> DEFINE r == [status |-> "queued", pid |-> NoPid, nextResume |-> None,
                 updatedAt |-> now]
<1>1. r.pid = NoPid /\ ~Terminal(r)
  BY DEF Terminal, TerminalStatuses
<1>2. store' = [store EXCEPT ![w] = r] /\ orphaned' = orphaned \cup {store[w].pid}
  BY DEF LaunchDry, Save
<1>3. UNCHANGED <<up, children, spawned, launchedFor>>
  BY DEF LaunchDry, os
<1> HIDE DEF r
<1>4. \A v \in Workers : store'[v] = store[v] \/ (v = w /\ store'[v] = r)
  BY <1>2 DEF TypeOK
<1>5. Fresh'
  <2>1. NoPid <= spawned
    BY DEF TypeOK, NoPid
  <2> QED BY <1>1, <1>3, <1>4, <2>1 DEF Fresh
<1>6. NoLiveChildEnded'
  BY <1>1, <1>2, <1>3, <1>4 DEF NoLiveChildEnded, Alive, Terminal
<1>7. EveryChildRecorded'
  <2> SUFFICES ASSUME NEW g \in Hosts, NEW p \in Pids \ orphaned', AliveNext(g, p)
               PROVE  store'[launchedFor'[p]].pid = p
    BY DEF EveryChildRecorded, Alive, AliveNext
  <2>1. p \in up /\ p \in children[g] /\ p \notin orphaned /\ p # store[w].pid
    BY <1>2, <1>3 DEF AliveNext
  <2>2. store[launchedFor[p]].pid = p /\ launchedFor[p] \in Workers
    BY <2>1 DEF EveryChildRecorded, Alive, Fresh
  <2> QED BY <1>3, <1>4, <2>1, <2>2
<1> QED BY <1>5, <1>6, <1>7

\* Reaping and reconciling end only records whose process is not alive.
LEMMA ListedEnds ==
  ASSUME TypeOK, NEW h \in Hosts, NEW w \in Workers
  PROVE  LET r == Reconciled(h, Reaped(h, store[w]))
         IN  /\ r.pid = store[w].pid
             /\ Terminal(r) => Terminal(store[w]) \/ ~Alive(h, store[w].pid)
<1> DEFINE r == store[w]
           q == Reaped(h, r)
<1>1. r \in Record /\ now \in Nat
  BY DEF TypeOK
<1> HIDE DEF r
<1>2. /\ q \in Record /\ q.pid = r.pid
      /\ q.status = r.status \/ ~Alive(h, r.pid)
  BY <1>1, StatusTyped DEF Reaped, Statuses, TerminalStatuses, Record
<1> HIDE DEF q
<1>3. /\ Reconciled(h, q).pid = q.pid
      /\ \/ Reconciled(h, q).status \in {q.status, "running"}
         \/ ~Alive(h, q.pid)
  BY <1>2 DEF Reconciled, Record
<1>4. Terminal(Reconciled(h, q)) => Terminal(r) \/ ~Alive(h, r.pid)
  BY <1>2, <1>3 DEF Terminal, TerminalStatuses
<1> QED BY <1>2, <1>3, <1>4 DEF q, r

LEMMA ListKeeps ==
  ASSUME OneHost, Recorded, TypeOK', NEW h \in Hosts, List(h)
  PROVE  Recorded'
<1> DEFINE s == [w \in Workers |-> Reconciled(h, Reaped(h, store[w]))]
<1>1. store' = Compacted(s, now) /\ orphaned' = orphaned
  BY DEF List, Save
<1>2. UNCHANGED <<up, children, spawned, launchedFor>>
  BY DEF List, os
<1>3. OsShrinks
  BY <1>2 DEF OsShrinks
<1>4. Updated(s)
  <2> SUFFICES ASSUME NEW w \in Workers
               PROVE  /\ s[w].pid = store[w].pid
                      /\ \/ Terminal(s[w]) => Terminal(store[w])
                         \/ \A g \in Hosts : ~AliveNext(g, s[w].pid)
    BY DEF Updated
  <2>1. /\ s[w].pid = store[w].pid
        /\ Terminal(s[w]) => Terminal(store[w]) \/ ~Alive(h, store[w].pid)
    BY ListedEnds DEF Recorded
  <2> HIDE DEF s
  <2> QED BY <1>2, <2>1 DEF OneHost, Alive, AliveNext
<1> HIDE DEF s
<1> QED BY <1>1, <1>3, <1>4, UpdateKeeps

\* A record is replaced by one of the same process.
LEMMA PutUpdated ==
  ASSUME TypeOK, NEW w \in Workers, NEW r, r.pid = store[w].pid,
         \/ ~Terminal(r)
         \/ r.pid \in orphaned'
         \/ \A g \in Hosts : ~AliveNext(g, r.pid)
  PROVE  Updated([store EXCEPT ![w] = r])
BY DEF TypeOK, Updated

\* A step that only kills processes.
LEMMA KillShrinks ==
  ASSUME NEW Killed, Kill(Killed)
  PROVE  OsShrinks /\ \A g \in Hosts, p \in Killed : ~AliveNext(g, p)
BY DEF Kill, OsShrinks, AliveNext

\* The store as it is counts as updated.
LEMMA StoreUpdated == TypeOK => Updated(store)
BY DEF Updated

LEMMA TerminateKeeps ==
  ASSUME OneHost, Recorded, TypeOK', NEW h \in Hosts, NEW w \in Workers, Terminate(h, w)
  PROVE  Recorded'
<1> DEFINE Killed == IF Alive(h, store[w].pid) THEN {store[w].pid} ELSE {}
           r == [store[w] EXCEPT !.status = "interrupted", !.updatedAt = now]
           s == [store EXCEPT ![w] = r]
<1>1. Kill(Killed) /\ orphaned' = orphaned
  BY DEF Terminate
<1>2. store' = Compacted(s, now) \/ store' = store
  BY DEF Terminate, Terminated, Save, SaveFails
<1>3. OsShrinks /\ \A g \in Hosts, p \in Killed : ~AliveNext(g, p)
  BY <1>1, KillShrinks
<1>4. \A g \in Hosts : ~AliveNext(g, store[w].pid)
  BY <1>1, <1>3 DEF OneHost, Alive, AliveNext, Kill
<1>5. r.pid = store[w].pid
  BY DEF Recorded, TypeOK, Record
<1> HIDE DEF r
<1>6. Updated(s) /\ Updated(store)
  BY <1>4, <1>5, PutUpdated, StoreUpdated DEF Recorded
<1> HIDE DEF s
<1> QED BY <1>1, <1>2, <1>3, <1>6, UpdateKeeps

LEMMA TerminateDryKeeps ==
  ASSUME Recorded, TypeOK', NEW w \in Workers, TerminateDry(w)
  PROVE  Recorded'
<1> DEFINE r == [store[w] EXCEPT !.status = "interrupted", !.updatedAt = now]
           s == [store EXCEPT ![w] = r]
<1>1. /\ store' = Compacted(s, now) /\ orphaned' = orphaned \cup {store[w].pid}
      /\ UNCHANGED <<up, children, spawned, launchedFor>>
  BY DEF TerminateDry, Terminated, Save, os
<1>2. OsShrinks
  BY <1>1 DEF OsShrinks
<1>3. r.pid = store[w].pid
  BY DEF Recorded, TypeOK, Record
<1> HIDE DEF r
<1>4. Updated(s)
  BY <1>1, <1>3, PutUpdated DEF Recorded
<1> HIDE DEF s
<1> QED BY <1>1, <1>2, <1>4, UpdateKeeps

LEMMA MarkBlockedKeeps ==
  ASSUME Recorded, TypeOK', NEW w \in Workers, MarkBlocked(w)
  PROVE  Recorded'
<1>1. PICK backoff \in Backoffs :
        Save(Compacted([store EXCEPT ![w] =
          [store[w] EXCEPT !.status = "blocked_rate_limit", !.nextResume = now + backoff,
                           !.updatedAt = now]], now))
  BY DEF MarkBlocked
<1> DEFINE r == [store[w] EXCEPT !.status = "blocked_rate_limit",
                                 !.nextResume = now + backoff, !.updatedAt = now]
           s == [store EXCEPT ![w] = r]
<1>2. /\ store' = Compacted(s, now) /\ orphaned' = orphaned
      /\ UNCHANGED <<up, children, spawned, launchedFor>>
  BY <1>1 DEF MarkBlocked, Save, os
<1>3. OsShrinks
  BY <1>2 DEF OsShrinks
<1>4. r.pid = store[w].pid /\ ~Terminal(r)
  BY DEF Recorded, TypeOK, Record, Terminal, TerminalStatuses
<1> HIDE DEF r
<1>5. Updated(s)
  BY <1>4, PutUpdated DEF Recorded
<1> HIDE DEF s
<1> QED BY <1>2, <1>3, <1>5, UpdateKeeps

LEMMA ResumeWorkerKeeps ==
  ASSUME OneHost, Recorded, TypeOK', NEW c \in Callers, NEW w \in Workers, ResumeWorker(c, w)
  PROVE  Recorded'
<1> DEFINE h == call[c].host
           Killed == Replaced(h, store[w])
           r == [status |-> "running", pid |-> spawned + 1, nextResume |-> None,
                 updatedAt |-> call[c].at]
<1>1. h \in Hosts
  BY CallFields DEF ResumeWorker, Recorded
<1>2. Spawn(h, w, Killed) /\ orphaned \subseteq orphaned'
  BY DEF ResumeWorker
<1>3. \/ store[w].pid \in Killed
      \/ \A g \in Hosts : ~Alive(g, store[w].pid)
  BY <1>1 DEF OneHost, Replaced
<1>4. r.pid = spawned + 1 /\ ~Terminal(r)
  BY DEF Terminal, TerminalStatuses
<1>5. \/ store' = [store EXCEPT ![w] = r]
      \/ store' = store /\ spawned + 1 \in orphaned'
  BY DEF ResumeWorker, Save, SaveFails
<1> HIDE DEF r, Killed, h
<1> QED BY <1>1, <1>2, <1>3, <1>4, <1>5, SpawnKeeps

LEMMA ResumeKeeps ==
  ASSUME OneHost, Recorded, TypeOK', NEW c \in Callers, Resume(c)
  PROVE  Recorded'
<1>1. ASSUME UNCHANGED <<store, os, orphaned>> PROVE Recorded'
  <2>1. OsShrinks /\ store' = store /\ orphaned' = orphaned
    BY <1>1 DEF os, OsShrinks
  <2> QED BY <2>1, UpdateKeeps, StoreUpdated DEF Recorded
<1>2. ASSUME NEW h \in Hosts, NEW dry \in {FALSE, DryRuns}, FindDue(c, h, dry)
      PROVE  Recorded'
  BY <1>1, <1>2 DEF FindDue
<1>3. ASSUME NEW w \in Workers, SkipWorker(c, w) PROVE Recorded'
  BY <1>1, <1>3 DEF SkipWorker
<1>4. ASSUME NEW w \in Workers, ResumeWorker(c, w) PROVE Recorded'
  BY <1>4, ResumeWorkerKeeps
<1>5. ASSUME NEW w \in Workers, PlanResume(c, w) PROVE Recorded'
  <2> DEFINE r == [store[w] EXCEPT !.status = "resume_scheduled", !.updatedAt = call[c].at]
             s == [store EXCEPT ![w] = r]
  <2>1. store' = s /\ orphaned' = orphaned /\ OsShrinks
    BY <1>5 DEF PlanResume, Save, os, OsShrinks
  <2>2. r.pid = store[w].pid /\ ~Terminal(r)
    BY DEF Recorded, TypeOK, Record, Terminal, TerminalStatuses
  <2> HIDE DEF r
  <2>3. Updated(s)
    BY <2>2, PutUpdated DEF Recorded
  <2> HIDE DEF s
  <2> QED BY <2>1, <2>3, UpdateKeeps
<1>6. ASSUME NEW w \in Workers, ResumeFails(c, w) PROVE Recorded'
  <2> DEFINE h == call[c].host
             Killed == Replaced(h, store[w])
             r == [store[w] EXCEPT !.status = "failed", !.updatedAt = call[c].at]
             s == [store EXCEPT ![w] = r]
  <2>1. h \in Hosts
    BY <1>6, CallFields DEF ResumeFails, Recorded
  <2>2. Kill(Killed) /\ orphaned' = orphaned
    BY <1>6 DEF ResumeFails, StillDue, Ready, Resumable
  <2>3. store' = s \/ store' = store
    BY <1>6 DEF ResumeFails, Save, SaveFails
  <2>4. OsShrinks /\ \A g \in Hosts, p \in Killed : ~AliveNext(g, p)
    BY <2>2, KillShrinks
  <2>5. \A g \in Hosts : ~AliveNext(g, store[w].pid)
    BY <2>1, <2>2, <2>4 DEF OneHost, Alive, AliveNext, Kill, Replaced
  <2>6. r.pid = store[w].pid
    BY DEF Recorded, TypeOK, Record
  <2> HIDE DEF r, h
  <2>7. Updated(s) /\ Updated(store)
    BY <2>5, <2>6, PutUpdated, StoreUpdated DEF Recorded
  <2> HIDE DEF s
  <2> QED BY <2>2, <2>3, <2>4, <2>7, UpdateKeeps
<1>7. ASSUME FinishResume(c) PROVE Recorded'
  <2>1. OsShrinks /\ orphaned' = orphaned
        /\ (store' = Compacted(store, call[c].at) \/ store' = store)
    BY <1>7 DEF FinishResume, Save, SaveFails, os, OsShrinks
  <2> QED BY <2>1, UpdateKeeps, StoreUpdated DEF Recorded
<1>8. ASSUME LockTimesOut(c) PROVE Recorded'
  BY <1>1, <1>8 DEF LockTimesOut
<1> QED
  BY <1>2, <1>3, <1>4, <1>5, <1>6, <1>7, <1>8, Zenon DEF Resume

\* Restarts, exits of processes and time.
LEMMA EnvironmentKeeps ==
  ASSUME Recorded, TypeOK',
         \/ \E h \in Hosts : Restart(h)
         \/ \E p \in Pids : ProcessExits(p)
         \/ Tick \/ UNCHANGED vars
  PROVE  Recorded'
<1>1. OsShrinks /\ store' = store /\ orphaned' = orphaned
  BY DEF Restart, ProcessExits, Kill, Tick, os, vars, OsShrinks, Recorded, TypeOK
<1> QED BY <1>1, UpdateKeeps, StoreUpdated DEF Recorded

\* Whatever calls, dry runs, failed saves, restarts and exits happen, one host
\* at a time knows the process of every worker it runs and ends no record of
\* a running one.
THEOREM ChildrenRecorded ==
  ASSUME OneHost PROVE Spec => [](NoLiveChildEnded /\ EveryChildRecorded)
<1>1. Recorded /\ TypeOK' /\ [Next]_vars => Recorded'
  <2> SUFFICES ASSUME Recorded, TypeOK', [Next]_vars PROVE Recorded'
    OBVIOUS
  <2>1. ASSUME NEW h \in Hosts, List(h) PROVE Recorded'
    BY <2>1, ListKeeps
  <2>2. ASSUME NEW h \in Hosts, NEW w \in Workers, Launch(h, w) PROVE Recorded'
    BY <2>2, LaunchKeeps
  <2>3. ASSUME NEW h \in Hosts, NEW w \in Workers, Terminate(h, w) PROVE Recorded'
    BY <2>3, TerminateKeeps
  <2>4. ASSUME NEW w \in Workers, LaunchDry(w) PROVE Recorded'
    BY <2>4, LaunchDryKeeps
  <2>5. ASSUME NEW w \in Workers, TerminateDry(w) PROVE Recorded'
    BY <2>5, TerminateDryKeeps
  <2>6. ASSUME NEW w \in Workers, MarkBlocked(w) PROVE Recorded'
    BY <2>6, MarkBlockedKeeps
  <2>7. ASSUME NEW c \in Callers, Resume(c) PROVE Recorded'
    BY <2>7, ResumeKeeps
  <2> QED
    BY <2>1, <2>2, <2>3, <2>4, <2>5, <2>6, <2>7, EnvironmentKeeps, Zenon DEF Next
<1> QED
  BY RecordedInit, <1>1, SupervisorTypeCorrect, PTL DEF Spec, Recorded

\* In particular no record says ended while its process runs, unless that one
\* was let go of: list_workers, terminate_worker and the resume of a single
\* host write off no child they know.
THEOREM ChildrenNotWrittenOff == ASSUME OneHost PROVE Spec => []NoLiveChildEnded
BY ChildrenRecorded, PTL

-----------------------------------------------------------------------------
(* Resumes in time, whatever number of hosts and calls there is.            *)

\* No call is ahead of the clock.
CallsPast == TypeOK /\ \A c \in Callers : call[c].at <= now

\* A step that brings a blocked worker back does so when its time has come.
InTime ==
  \A w \in Workers :
    /\ store[w].status = "blocked_rate_limit"
    /\ store'[w].status = "running"
    /\ store[w].pid \notin orphaned'
    => store[w].nextResume <= now

\* A step that makes no blocked record a running one.
NoneBack ==
  \A w \in Workers :
    store[w].status = "blocked_rate_limit" => store'[w].status # "running"

\* Where no worker is brought back, none is too early.
LEMMA NoneBackInTime == NoneBack => InTime
BY DEF NoneBack, InTime

\* Records that are written back as they are, or compacted.
LEMMA CompactedBack ==
  ASSUME TypeOK, NEW s, NEW at, store' = s \/ store' = Compacted(s, at),
         \A w \in Workers :
           store[w].status = "blocked_rate_limit" => s[w].status # "running"
  PROVE  NoneBack
<1>1. \A w \in Workers : Compacted(s, at)[w] \in {s[w], Absent}
  BY DEF Compacted
<1> QED BY <1>1 DEF NoneBack, Absent

\* One record is written with a status other than running.
LEMMA PutBack ==
  ASSUME TypeOK, NEW v \in Workers, NEW r, r.status # "running", NEW at,
         \/ store' = [store EXCEPT ![v] = r]
         \/ store' = Compacted([store EXCEPT ![v] = r], at)
         \/ store' = store
  PROVE  NoneBack
<1>1. store \in [Workers -> Record]
  BY DEF TypeOK
<1>2. CASE store' = store
  BY <1>2 DEF NoneBack
<1>3. CASE store' # store
  <2> DEFINE s == [store EXCEPT ![v] = r]
  <2>1. \A w \in Workers : s[w] = IF w = v THEN r ELSE store[w]
    BY <1>1
  <2>2. \A w \in Workers : store[w].status = "blocked_rate_limit" => s[w].status # "running"
    BY <2>1
  <2>3. store' = s \/ store' = Compacted(s, at)
    BY <1>3
  <2> HIDE DEF s
  <2> QED BY <2>2, <2>3, CompactedBack
<1> QED BY <1>2, <1>3

LEMMA ListInTime ==
  ASSUME TypeOK, NEW h \in Hosts, List(h)
  PROVE  NoneBack
<1> DEFINE s == [w \in Workers |-> Reconciled(h, Reaped(h, store[w]))]
<1>1. store' = Compacted(s, now)
  BY DEF List, Save
<1>2. ASSUME NEW w \in Workers, store[w].status = "blocked_rate_limit"
      PROVE  s[w].status # "running"
  <2>1. Reaped(h, store[w]) = store[w] /\ store[w] \in Record
    BY <1>2 DEF Reaped, TypeOK
  <2> QED BY <1>2, <2>1 DEF Reconciled, Record
<1> HIDE DEF s
<1> QED BY <1>1, <1>2, CompactedBack

LEMMA ResumeInTime ==
  ASSUME CallsPast, NEW c \in Callers, Resume(c)
  PROVE  InTime
<1> USE DEF CallsPast
<1>1. ASSUME store' = store PROVE InTime
  BY <1>1 DEF InTime
<1>2. ASSUME NEW h \in Hosts, NEW dry \in {FALSE, DryRuns}, FindDue(c, h, dry) PROVE InTime
  BY <1>1, <1>2 DEF FindDue
<1>3. ASSUME NEW w \in Workers, SkipWorker(c, w) PROVE InTime
  BY <1>1, <1>3 DEF SkipWorker
<1>4. ASSUME NEW w \in Workers, ResumeWorker(c, w) PROVE InTime
  <2>1. CASE store' = store
    BY <1>1, <2>1
  <2>2. CASE store' # store
    <3>1. \A v \in Workers : v # w => store'[v] = store[v]
      BY <1>4, <2>2 DEF ResumeWorker, Save, SaveFails, TypeOK
    <3>2. store[w].nextResume # None /\ call[c].at >= store[w].nextResume
      BY <1>4 DEF ResumeWorker, StillDue, Ready
    <3>3. store[w].nextResume \in Nat /\ call[c].at \in Nat /\ now \in Nat
      <4>1. call[c].at \in Nat
        BY CallFields DEF TypeOK
      <4> QED BY <3>2, <4>1 DEF TypeOK, Record, Due
    <3>4. store[w].nextResume <= now
      BY <3>2, <3>3
    <3> QED BY <3>1, <3>4 DEF InTime
  <2> QED BY <2>1, <2>2
<1>5. ASSUME NEW w \in Workers, PlanResume(c, w) PROVE InTime
  <2> DEFINE r == [store[w] EXCEPT !.status = "resume_scheduled", !.updatedAt = call[c].at]
  <2>1. store' = [store EXCEPT ![w] = r]
    BY <1>5 DEF PlanResume, Save
  <2>2. r.status # "running"
    BY DEF TypeOK, Record
  <2> HIDE DEF r
  <2> QED BY <2>1, <2>2, PutBack, NoneBackInTime
<1>6. ASSUME NEW w \in Workers, ResumeFails(c, w) PROVE InTime
  <2> DEFINE r == [store[w] EXCEPT !.status = "failed", !.updatedAt = call[c].at]
  <2>1. store' = [store EXCEPT ![w] = r] \/ store' = store
    BY <1>6 DEF ResumeFails, Save, SaveFails
  <2>2. r.status # "running"
    BY DEF TypeOK, Record
  <2> HIDE DEF r
  <2> QED BY <2>1, <2>2, PutBack, NoneBackInTime
<1>7. ASSUME FinishResume(c) PROVE InTime
  <2>1. store' = store \/ store' = Compacted(store, call[c].at)
    BY <1>7 DEF FinishResume, Save, SaveFails
  <2> QED BY <2>1, CompactedBack, NoneBackInTime
<1>8. ASSUME LockTimesOut(c) PROVE InTime
  BY <1>1, <1>8 DEF LockTimesOut
<1> QED BY <1>2, <1>3, <1>4, <1>5, <1>6, <1>7, <1>8, Zenon DEF Resume

\* No step brings a worker back too early.
LEMMA StepInTime ==
  ASSUME CallsPast, [Next]_vars
  PROVE  InTime
<1> USE DEF CallsPast
<1>1. ASSUME NEW h \in Hosts, List(h) PROVE InTime
  BY <1>1, ListInTime, NoneBackInTime
<1>2. ASSUME NEW h \in Hosts, NEW w \in Workers, Launch(h, w) PROVE InTime
  <2>1. CASE store' = store
    BY <2>1 DEF InTime
  <2>2. CASE store' # store
    <3>1. /\ \A v \in Workers : v # w => store'[v] = store[v]
          /\ store[w].pid \in orphaned'
      BY <1>2, <2>2 DEF Launch, Save, SaveFails, TypeOK
    <3> QED BY <3>1 DEF InTime
  <2> QED BY <2>1, <2>2
<1>3. ASSUME NEW h \in Hosts, NEW w \in Workers, Terminate(h, w) PROVE InTime
  <2> DEFINE r == [store[w] EXCEPT !.status = "interrupted", !.updatedAt = now]
  <2>1. store' = Compacted([store EXCEPT ![w] = r], now) \/ store' = store
    BY <1>3 DEF Terminate, Terminated, Save, SaveFails
  <2>2. r.status # "running"
    BY DEF TypeOK, Record
  <2> HIDE DEF r
  <2> QED BY <2>1, <2>2, PutBack, NoneBackInTime
<1>4. ASSUME NEW w \in Workers, LaunchDry(w) PROVE InTime
  <2>1. store' = [store EXCEPT ![w] = [status |-> "queued", pid |-> NoPid,
                                       nextResume |-> None, updatedAt |-> now]]
    BY <1>4 DEF LaunchDry, Save
  <2> QED BY <2>1, PutBack, NoneBackInTime
<1>5. ASSUME NEW w \in Workers, TerminateDry(w) PROVE InTime
  <2> DEFINE r == [store[w] EXCEPT !.status = "interrupted", !.updatedAt = now]
  <2>1. store' = Compacted([store EXCEPT ![w] = r], now)
    BY <1>5 DEF TerminateDry, Terminated, Save
  <2>2. r.status # "running"
    BY DEF TypeOK, Record
  <2> HIDE DEF r
  <2> QED BY <2>1, <2>2, PutBack, NoneBackInTime
<1>6. ASSUME NEW w \in Workers, MarkBlocked(w) PROVE InTime
  <2>1. PICK backoff \in Backoffs : Save(Compacted([store EXCEPT ![w] =
          [store[w] EXCEPT !.status = "blocked_rate_limit", !.nextResume = now + backoff,
                           !.updatedAt = now]], now))
    BY <1>6 DEF MarkBlocked
  <2> DEFINE r == [store[w] EXCEPT !.status = "blocked_rate_limit",
                                   !.nextResume = now + backoff, !.updatedAt = now]
  <2>2. store' = Compacted([store EXCEPT ![w] = r], now)
    BY <2>1 DEF Save
  <2>3. r.status # "running"
    BY DEF TypeOK, Record
  <2> HIDE DEF r
  <2> QED BY <2>2, <2>3, PutBack, NoneBackInTime
<1>7. ASSUME NEW c \in Callers, Resume(c) PROVE InTime
  BY <1>7, ResumeInTime
<1>8. ASSUME \/ \E h \in Hosts : Restart(h)
             \/ \E p \in Pids : ProcessExits(p)
             \/ Tick \/ UNCHANGED vars
      PROVE  InTime
  <2>1. store' = store
    BY <1>8 DEF Restart, ProcessExits, Tick, vars
  <2> QED BY <2>1 DEF InTime
<1> QED BY <1>1, <1>2, <1>3, <1>4, <1>5, <1>6, <1>7, <1>8, Zenon DEF Next

\* The time of a call stays behind the clock.
LEMMA CallsStayPast ==
  ASSUME CallsPast, TypeOK', [Next]_vars
  PROVE  CallsPast'
<1>1. now \in Nat /\ now' \in Nat /\ now <= now'
  <2>1. now' = now \/ now' = now + 1
    <3>1. ASSUME NEW c \in Callers, Resume(c) PROVE now' = now
      BY <3>1 DEF Resume, FindDue, SkipWorker, ResumeWorker, PlanResume, ResumeFails,
                  FinishResume, LockTimesOut
    <3> QED BY <3>1 DEF Next, vars, List, Restart, Launch, Terminate, LaunchDry, TerminateDry,
                        MarkBlocked, ProcessExits, Tick
  <2>2. now \in Nat
    BY DEF CallsPast, TypeOK
  <2> QED BY <2>1, <2>2
<1>2. ASSUME NEW c \in Callers
      PROVE  call'[c].at \in {call[c].at, now, 0}
  <2>1. call \in [Callers -> Calls] /\ call[c] \in Calls
    BY DEF CallsPast, TypeOK
  <2>2. ASSUME NEW d \in Callers, NEW w \in Workers, Handled(d, w)
        PROVE  call'[c].at = call[c].at
    BY <2>1, <2>2 DEF Handled
  <2>3. ASSUME NEW d \in Callers, Abandoned(d)
        PROVE  call'[c].at \in {call[c].at, 0}
    BY <2>1, <2>3 DEF Abandoned, NoCall
  <2>4. ASSUME NEW d \in Callers, Resume(d)
        PROVE  call'[c].at \in {call[c].at, now, 0}
    <3>1. ASSUME NEW h \in Hosts, NEW dry \in {FALSE, DryRuns}, FindDue(d, h, dry)
          PROVE  call'[c].at \in {call[c].at, now}
      BY <2>1, <3>1 DEF FindDue
    <3>2. ASSUME NEW w \in Workers, \/ SkipWorker(d, w) \/ ResumeWorker(d, w)
                                    \/ PlanResume(d, w) \/ ResumeFails(d, w)
          PROVE  call'[c].at \in {call[c].at, 0}
      BY <2>2, <2>3, <3>2 DEF SkipWorker, ResumeWorker, PlanResume, ResumeFails
    <3> QED BY <2>3, <2>4, <3>1, <3>2 DEF Resume, FinishResume, LockTimesOut
  <2>5. ASSUME NEW h \in Hosts, Restart(h)
        PROVE  call'[c].at \in {call[c].at, 0}
    BY <2>5 DEF Restart, NoCall
  <2>6. call' = call => call'[c].at = call[c].at
    OBVIOUS
  <2> QED
    BY <2>4, <2>5, <2>6 DEF Next, vars, List, Launch, Terminate, LaunchDry, TerminateDry,
       MarkBlocked, ProcessExits, Tick
<1>3. ASSUME NEW c \in Callers
      PROVE  call'[c].at <= now'
  <2>1. call[c].at \in Nat /\ call[c].at <= now
    BY CallFields DEF CallsPast, TypeOK
  <2> QED BY <1>1, <1>2, <2>1
<1> QED BY <1>3 DEF CallsPast

\* A blocked worker is brought back only when its backoff is over, however many
\* calls of however many hosts find it due (worker_ready_for_resume, looked at
\* again under the second lock).
THEOREM ResumedInTime == Spec => ResumeOnTime
<1>1. Init => CallsPast
  BY InitTyped, SupervisorAssumption DEF CallsPast, Init, NoCall
<1>2. CallsPast /\ TypeOK' /\ [Next]_vars => CallsPast' /\ [InTime]_vars
  BY CallsStayPast, StepInTime
<1>3. [][InTime]_vars => ResumeOnTime
  BY DEF InTime, ResumeOnTime
<1> QED BY <1>1, <1>2, <1>3, SupervisorTypeCorrect, PTL DEF Spec

=============================================================================
