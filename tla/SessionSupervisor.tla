--------------------------- MODULE SessionSupervisor ---------------------------
(***************************************************************************)
(* The worker supervisor (core/session-supervisor): the store of worker    *)
(* records in state.json, the operating-system processes it launches, and  *)
(* the calls of handle_session_supervisor_operation that keep the two in   *)
(* step.  A call holds the store's path lock from load to save and is one  *)
(* step here; resume_due alone releases the lock and takes it again for    *)
(* every worker it found due, so several such calls interleave.            *)
(*                                                                         *)
(* A host is one run of the program.  The processes it launches are its    *)
(* children, lead sessions of their own and outlive it.  A dry run changes *)
(* the store like a real call and touches no process.                      *)
(***************************************************************************)
EXTENDS Naturals

CONSTANTS
  Hosts,        \* runs of the program that share the store
  Workers,      \* worker ids
  Callers,      \* concurrent resume_due calls
  None,
  Backoffs,     \* effective backoffs of a rate limit
  StaleAfter,   \* stale_after_secs of list
  Retention,    \* TERMINATED_WORKER_RETENTION_SECS
  DryRuns,      \* callers may pass dry_run
  LostSaves,    \* save_store may fail
  MaxRestarts,  \* bound: restarts of hosts
  MaxPids,      \* bound: processes launched
  MaxNow        \* bound of the clock

ASSUME SupervisorAssumption ==
  /\ None \notin Workers /\ None \notin Hosts
  /\ Backoffs \subseteq Nat /\ StaleAfter \in Nat /\ Retention \in Nat \ {0}
  /\ DryRuns \in BOOLEAN /\ LostSaves \in BOOLEAN
  /\ MaxRestarts \in Nat /\ MaxPids \in Nat /\ MaxNow \in Nat

VARIABLES
  store,      \* state.json: the record of each worker
  up,         \* the processes that run
  children,   \* the processes each host is the parent of
  spawned,    \* processes launched so far; a process is named by its number
  call,       \* the resume_due calls under way
  now,        \* the wall clock
  restarts    \* restarts of hosts so far

\* History: the worker each process was launched for; and the processes let go
\* of, because their record was never saved, was replaced by a launch under the
\* same id, or was ended by a dry run.
VARIABLES launchedFor, orphaned

os == <<up, children, spawned, launchedFor>>
vars == <<store, up, children, spawned, call, now, restarts, launchedFor,
          orphaned>>

Pids == 1..MaxPids
NoPid == 0

ActiveStatuses == {"queued", "running", "blocked_rate_limit", "resume_scheduled"}
TerminalStatuses == {"completed", "interrupted", "failed"}

Due == {None} \cup Nat

Record == [status: ActiveStatuses \cup TerminalStatuses \cup {"absent"},
           pid: {NoPid} \cup Pids,
           nextResume: Due,
           updatedAt: Nat]

Absent == [status |-> "absent", pid |-> NoPid, nextResume |-> None, updatedAt |-> 0]

Terminal(r) == r.status \in TerminalStatuses

\* A resume_due call: the host it runs in, its dry_run flag, the time it was
\* called at, and the workers it found due and has not come to yet.
NoCall == [host |-> None, dry |-> FALSE, at |-> 0, due |-> {}]
Calls == {NoCall} \cup [host: Hosts, dry: BOOLEAN, at: Nat, due: SUBSET Workers]

Called(c) == call[c] # NoCall

-----------------------------------------------------------------------------
(* Processes.                                                              *)

\* process_is_alive: waitpid comes first and takes a process that is not a
\* child of this host (ECHILD) for one that is gone.
Alive(h, p) == p \in up /\ p \in children[h]

\* launch_process, after the processes in Killed have been terminated.
Spawn(h, w, Killed) ==
  /\ spawned < MaxPids
  /\ spawned' = spawned + 1
  /\ up' = (up \ Killed) \cup {spawned + 1}
  /\ children' = [children EXCEPT ![h] = @ \cup {spawned + 1}]
  /\ launchedFor' = [launchedFor EXCEPT ![spawned + 1] = w]

\* terminate_process: SIGTERM, then SIGKILL, to the process group.
Kill(Killed) ==
  /\ up' = up \ Killed
  /\ UNCHANGED <<children, spawned, launchedFor>>

-----------------------------------------------------------------------------
(* The store.                                                              *)

\* compact_terminated_workers.
Expired(r, at) == Terminal(r) /\ at >= r.updatedAt + Retention

Compacted(s, at) == [w \in Workers |-> IF Expired(s[w], at) THEN Absent ELSE s[w]]

Save(s) == store' = s

\* The call returns the error of save_store and leaves the file as it was.
SaveFails == LostSaves /\ UNCHANGED store

\* Fault: the name of the event is stored as the status.
FaultReaped(h, r) ==
  IF r.status = "queued" /\ now > r.updatedAt + StaleAfter
  THEN [r EXCEPT !.status = "stale_timeout"]
  ELSE r

\* reap_stale_workers: a running worker with a pid is left to the reconcile.
Reaped(h, r) ==
  IF /\ r.status \in {"queued", "resume_scheduled"}
     /\ ~Alive(h, r.pid)
     /\ now > r.updatedAt + StaleAfter
  THEN [r EXCEPT !.status = "interrupted", !.updatedAt = now]
  ELSE r

\* reconcile_process_state, which leaves updated_at alone.
Reconciled(h, r) ==
  IF r.pid = NoPid THEN r
  ELSE IF Alive(h, r.pid)
  THEN [r EXCEPT !.status = IF @ = "queued" THEN "running" ELSE @]
  ELSE [r EXCEPT !.status =
          CASE @ \in {"running", "queued", "resume_scheduled"} -> "completed"
            [] @ = "blocked_rate_limit" -> "interrupted"
            [] OTHER -> @]

-----------------------------------------------------------------------------
(* Operations under one lock.                                              *)

\* The id may be that of another worker; upsert_worker then replaces its
\* record.
Launch(h, w) ==
  /\ Spawn(h, w, {})
  /\ \/ /\ Save([store EXCEPT ![w] = [status |-> "running", pid |-> spawned + 1,
                                      nextResume |-> None, updatedAt |-> now]])
        /\ orphaned' = orphaned \cup {store[w].pid}
     \/ /\ SaveFails
        /\ orphaned' = orphaned \cup {spawned + 1}
  /\ UNCHANGED <<call, now, restarts>>

LaunchDry(w) ==
  /\ DryRuns
  /\ Save([store EXCEPT ![w] = [status |-> "queued", pid |-> NoPid,
                                nextResume |-> None, updatedAt |-> now]])
  /\ orphaned' = orphaned \cup {store[w].pid}
  /\ UNCHANGED <<os, call, now, restarts>>

\* The primary housekeeping entry point.
List(h) ==
  /\ Save(Compacted([w \in Workers |-> Reconciled(h, Reaped(h, store[w]))], now))
  /\ UNCHANGED <<os, call, now, restarts, orphaned>>

\* Terminating a worker works in any status, a finished one included.
Terminated(w) ==
  Compacted([store EXCEPT ![w] = [@ EXCEPT !.status = "interrupted", !.updatedAt = now]], now)

Terminate(h, w) ==
  /\ store[w].status # "absent"
  /\ Kill(IF Alive(h, store[w].pid) THEN {store[w].pid} ELSE {})
  /\ Save(Terminated(w)) \/ SaveFails
  /\ UNCHANGED <<call, now, restarts, orphaned>>

TerminateDry(w) ==
  /\ DryRuns
  /\ store[w].status # "absent"
  /\ Save(Terminated(w))
  /\ orphaned' = orphaned \cup {store[w].pid}
  /\ UNCHANGED <<os, call, now, restarts>>

\* A worker in a terminal state is not brought back.
MayBlock(r) == r.status \in ActiveStatuses

MarkBlocked(w) ==
  /\ MayBlock(store[w])
  /\ \E backoff \in Backoffs :
       Save(Compacted([store EXCEPT ![w] =
         [@ EXCEPT !.status = "blocked_rate_limit", !.nextResume = now + backoff,
                   !.updatedAt = now]], now))
  /\ UNCHANGED <<os, call, now, restarts, orphaned>>

-----------------------------------------------------------------------------
(* resume_due.                                                             *)

\* Fault: the resume time is not looked at.
FaultReady(r, at) ==
  r.status \in {"blocked_rate_limit", "resume_scheduled"} /\ r.nextResume # None

\* worker_ready_for_resume, at the time the call was made.
Ready(r, at) ==
  /\ r.status \in {"blocked_rate_limit", "resume_scheduled"}
  /\ r.nextResume # None
  /\ at >= r.nextResume

\* Phase 1: the due workers, read under the lock, which is then dropped.
FindDue(c, h, dry) ==
  /\ ~Called(c)
  /\ call' = [call EXCEPT ![c] =
       [host |-> h, dry |-> dry, at |-> now,
        due |-> {w \in Workers : Ready(store[w], now)}]]
  /\ UNCHANGED <<store, os, now, restarts, orphaned>>

Handled(c, w) == call' = [call EXCEPT ![c].due = @ \ {w}]

\* The error of save_store ends the call.
Abandoned(c) == call' = [call EXCEPT ![c] = NoCall]

\* Fault: the second look at the worker under its own lock is left out.
FaultStillDue(c, w) == store[w].status # "absent"

\* The worker's readiness is checked again under its own lock.
StillDue(c, w) == Ready(store[w], call[c].at)

SkipWorker(c, w) ==
  /\ w \in call[c].due
  /\ ~StillDue(c, w)
  /\ Handled(c, w)
  /\ UNCHANGED <<store, os, now, restarts, orphaned>>

\* resume_worker's own guard.
Resumable(r) == r.status \in {"blocked_rate_limit", "resume_scheduled"}

\* Fault: the blocked process is left running.
FaultReplaced(h, r) == {}

\* The process that resuming a worker terminates first.
Replaced(h, r) == IF Alive(h, r.pid) THEN {r.pid} ELSE {}

ResumeWorker(c, w) ==
  /\ w \in call[c].due /\ ~call[c].dry
  /\ StillDue(c, w) /\ Resumable(store[w])
  /\ Spawn(call[c].host, w, Replaced(call[c].host, store[w]))
  /\ \/ /\ Save([store EXCEPT ![w] = [status |-> "running", pid |-> spawned + 1,
                                      nextResume |-> None, updatedAt |-> call[c].at]])
        /\ Handled(c, w)
        /\ UNCHANGED orphaned
     \/ /\ SaveFails
        /\ Abandoned(c)
        /\ orphaned' = orphaned \cup {spawned + 1}
  /\ UNCHANGED <<now, restarts>>

PlanResume(c, w) ==
  /\ w \in call[c].due /\ call[c].dry
  /\ StillDue(c, w) /\ Resumable(store[w])
  /\ Save([store EXCEPT ![w] =
       [@ EXCEPT !.status = "resume_scheduled", !.updatedAt = call[c].at]])
  /\ Handled(c, w)
  /\ UNCHANGED <<os, now, restarts, orphaned>>

\* resume_worker fails: its guard refuses the worker, or the respawn fails
\* after the old process was terminated.
ResumeFails(c, w) ==
  /\ w \in call[c].due
  /\ StillDue(c, w)
  /\ \/ ~Resumable(store[w]) /\ Kill({})
     \/ ~call[c].dry /\ Resumable(store[w]) /\ Kill(Replaced(call[c].host, store[w]))
  /\ \/ /\ Save([store EXCEPT ![w] = [@ EXCEPT !.status = "failed", !.updatedAt = call[c].at]])
        /\ Handled(c, w)
     \/ SaveFails /\ Abandoned(c)
  /\ UNCHANGED <<now, restarts, orphaned>>

\* The final compaction, and the answer.
FinishResume(c) ==
  /\ Called(c) /\ call[c].due = {}
  /\ Save(Compacted(store, call[c].at)) \/ SaveFails
  /\ Abandoned(c)
  /\ UNCHANGED <<os, now, restarts, orphaned>>

\* The path lock is not had within its five seconds: the call returns the
\* error, with workers left over.
LockTimesOut(c) ==
  /\ Called(c)
  /\ Abandoned(c)
  /\ UNCHANGED <<store, os, now, restarts, orphaned>>

-----------------------------------------------------------------------------
(* The environment.                                                        *)

ProcessExits(p) ==
  /\ p \in up
  /\ Kill({p})
  /\ UNCHANGED <<store, call, now, restarts, orphaned>>

\* A host ends and is started again: its calls are gone, and its processes
\* run on as children of init.
Restart(h) ==
  /\ restarts < MaxRestarts
  /\ restarts' = restarts + 1
  /\ children' = [children EXCEPT ![h] = {}]
  /\ call' = [c \in Callers |-> IF call[c].host = h THEN NoCall ELSE call[c]]
  /\ UNCHANGED <<store, up, spawned, launchedFor, now, orphaned>>

Tick ==
  /\ now < MaxNow
  /\ now' = now + 1
  /\ UNCHANGED <<store, os, call, restarts, orphaned>>

Init ==
  /\ store = [w \in Workers |-> Absent]
  /\ up = {} /\ children = [h \in Hosts |-> {}] /\ spawned = 0
  /\ call = [c \in Callers |-> NoCall]
  /\ now = 0 /\ restarts = 0
  /\ launchedFor = [p \in Pids |-> None]
  /\ orphaned = {}

Resume(c) ==
  \/ \E h \in Hosts, dry \in {FALSE, DryRuns} : FindDue(c, h, dry)
  \/ \E w \in Workers :
       SkipWorker(c, w) \/ ResumeWorker(c, w) \/ PlanResume(c, w) \/ ResumeFails(c, w)
  \/ FinishResume(c) \/ LockTimesOut(c)

Next ==
  \/ \E h \in Hosts : List(h) \/ Restart(h)
  \/ \E h \in Hosts, w \in Workers : Launch(h, w) \/ Terminate(h, w)
  \/ \E w \in Workers : LaunchDry(w) \/ TerminateDry(w) \/ MarkBlocked(w)
  \/ \E c \in Callers : Resume(c)
  \/ \E p \in Pids : ProcessExits(p)
  \/ Tick

Spec == Init /\ [][Next]_vars

-----------------------------------------------------------------------------
(* Properties.                                                             *)

\* The variables hold records, processes, calls and clock values.
TypeOK ==
  /\ store \in [Workers -> Record]
  /\ up \subseteq Pids /\ children \in [Hosts -> SUBSET Pids]
  /\ spawned \in 0..MaxPids
  /\ call \in [Callers -> Calls]
  /\ now \in Nat /\ restarts \in Nat
  /\ launchedFor \in [Pids -> Workers \cup {None}]
  /\ orphaned \subseteq {NoPid} \cup Pids

\* A worker whose record says it has ended has no running process left that
\* this host could reap: neither list, terminate nor a failed or doubled resume
\* writes off a live child.
NoLiveChildEnded ==
  \A w \in Workers, h \in Hosts :
    Terminal(store[w]) /\ Alive(h, store[w].pid) => store[w].pid \in orphaned

\* Every running child is the process its worker's record names, so that
\* terminate and resume can reach it, unless it was let go of.  A worker
\* therefore never has two, and no live record is compacted away.
EveryChildRecorded ==
  \A h \in Hosts : \A p \in Pids \ orphaned :
    Alive(h, p) => store[launchedFor[p]].pid = p

\* A blocked worker is respawned only when its backoff is over, also if it
\* was blocked anew after a concurrent call had found it due.
ResumeOnTime ==
  [][\A w \in Workers :
       /\ store[w].status = "blocked_rate_limit"
       /\ store'[w].status = "running"
       /\ store[w].pid \notin orphaned'
       => store[w].nextResume <= now]_vars

\* "Returns true when the pid is gone" (reap_child_if_exited): no worker is
\* written off as ended while its process runs, whoever launched it.
NoLiveWorkerEnded ==
  \A w \in Workers :
    Terminal(store[w]) /\ store[w].pid \in up => store[w].pid \in orphaned

=============================================================================
