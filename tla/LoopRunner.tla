------------------------------ MODULE LoopRunner ------------------------------
(***************************************************************************)
(* A loop run of the goal engine (runner.rs, dispatcher.rs): run_loop and  *)
(* run_loop_inner, with the state file LOOP_RUN_STATE.json it checkpoints  *)
(* to, the one-slot signal file an operator writes and the run polls, and  *)
(* the pause-state file.  Every caller of run_loop prepares before it has  *)
(* the loop lock (module LoopLock); the lock is taken here in one step and *)
(* the lock of a dead run counts as expired.                               *)
(*                                                                         *)
(* The actions of the run are fixed (static_actions) and numbered in the   *)
(* order they are dispatched.                                              *)
(***************************************************************************)
EXTENDS Integers

CONSTANTS
  Callers,      \* the processes that call run_loop for this loop
  N,            \* number of actions
  Reports,      \* the actions of safety level L1, reported and not dispatched
  Threshold,    \* barrier_threshold of the circuit breaker
  Research,     \* research_enabled of the registry entry
  MaxDepth,     \* depth_remaining a call starts with
  DryRuns,      \* callers may pass dry_run
  Signals,      \* the signals the operator uses
  MaxSignals,   \* bound: signals the operator sends
  MaxCrashes    \* bound: crashes of a run

AllSignals == {"kill", "pause", "feedback", "resume", "redirect"}

ASSUME RunnerAssumption ==
  /\ N \in Nat /\ Reports \subseteq 1..N
  /\ Threshold \in Nat /\ MaxDepth \in Nat
  /\ Research \in BOOLEAN /\ DryRuns \in BOOLEAN
  /\ Signals \subseteq AllSignals
  /\ MaxSignals \in Nat /\ MaxCrashes \in Nat

VARIABLES
  stage,      \* how far each call of run_loop is
  snap,       \* the loop state each caller has read before the lock
  depth,      \* depth_remaining of each call
  pc,         \* where the run that holds the lock is
  idx,        \* the action it is at
  mem,        \* its loop state in memory
  results,    \* its result for each action
  status,     \* overall_status of its aggregate, or "error"
  disk,       \* LOOP_RUN_STATE.json
  signal,     \* .loop-kill/<loop>: the signal file
  taken,      \* the signal a poll has read and not removed yet
  pause,      \* .loop-pause/<loop>: the pause state file
  sent,       \* signals sent so far
  crashes     \* crashes so far

\* History: the actions whose last execution was committed, since the loop
\* last ended or was restarted, and whether a write of the state was lost or
\* overwritten.
VARIABLES committed, lostWrite

run == <<stage, snap, depth>>
files == <<disk, pause>>
box == <<signal, taken, sent>>
history == <<committed, lostWrite>>
vars == <<stage, snap, depth, pc, idx, mem, results, status, disk, signal,
          taken, pause, sent, crashes, committed, lostWrite>>

Actions == 1..N

\* out: not called; enter: restarting after research; ready: state read and
\* prepared, about to take the lock; run: holds the lock.
Stages == {"out", "enter", "ready", "run"}

\* begin: discovery and preflight; select: between two actions; active: a
\* child runs; paused: pause_wait_loop; barrier: the research subprocess;
\* finish and cleanup: the end of run_loop.
Places == {"idle", "begin", "select", "active", "paused", "verify", "barrier",
           "finish", "cleanup"}

DispatchStatus == {"none", "running", "done", "failed", "redirected", "skipped"}
Results == {"none", "committed", "skipped", "failed", "interrupted"}
Statuses == {"none", "pass", "fail", "partial", "error"}

\* What LoopRunState keeps that decides anything: current_run's dispatch (no
\* entry and no current run are both "none") and the circuit breaker.
LoopState == [dispatch: [Actions -> DispatchStatus], failures: 0..Threshold]

NoDispatch == [a \in Actions |-> "none"]

\* create_initial_state, which is also what a missing file reads as.
Fresh == [dispatch |-> NoDispatch, failures |-> 0]

NoPause == [action |-> 0, feedback |-> FALSE]

Held == \E c \in Callers : stage[c] = "run"

Goto(place) == pc' = place

\* The run is over and its memory gone.
Reset ==
  /\ pc' = "idle"
  /\ idx' = 1
  /\ mem' = Fresh
  /\ results' = [a \in Actions |-> "none"]
  /\ status' = "none"

EndWithError ==
  /\ Goto("finish")
  /\ status' = "error"

\* write_loop_state: a failed write is logged and the run goes on.
Save(s) ==
  \/ disk' = s /\ UNCHANGED lostWrite
  \/ disk' = disk /\ lostWrite' = TRUE

-----------------------------------------------------------------------------
(* run_loop before the lock.                                               *)

\* Fault: a new run starts from nothing.
FaultForget(s) == [s EXCEPT !.dispatch = NoDispatch]

\* Fault: everything the previous run had begun counts as completed.
FaultRescued(s) ==
  [s EXCEPT !.dispatch = [a \in Actions |->
     IF s.dispatch[a] \in {"done", "running"} THEN "done" ELSE "none"]]

\* A new run keeps only the "done" entries of the run found in the file.
Rescued(s) ==
  [s EXCEPT !.dispatch = [a \in Actions |->
     IF s.dispatch[a] = "done" THEN "done" ELSE "none"]]

\* finish_run: current_run is archived and cleared.
Finished(s) == [s EXCEPT !.dispatch = NoDispatch]

\* clear_pause_state, read_loop_state and start_new_run, without the lock.
Prepare(c) ==
  /\ stage[c] \in {"out", "enter"}
  /\ stage' = [stage EXCEPT ![c] = "ready"]
  /\ depth' = [depth EXCEPT ![c] = IF stage[c] = "out" THEN MaxDepth ELSE @]
  /\ snap' = [snap EXCEPT ![c] = Rescued(disk)]
  /\ pause' = NoPause
  /\ UNCHANGED <<pc, idx, mem, results, status, disk, box, crashes, history>>

\* A dry run writes its finished state and returns, without the lock: what a
\* run in progress has written is lost.
DryRun(c) ==
  /\ DryRuns
  /\ stage[c] = "ready"
  /\ depth[c] = MaxDepth
  /\ \/ disk' = Finished(snap[c]) /\ lostWrite' = (lostWrite \/ Held)
     \/ disk' = disk /\ lostWrite' = TRUE
  /\ stage' = [stage EXCEPT ![c] = "out"]
  /\ snap' = [snap EXCEPT ![c] = Fresh]
  /\ UNCHANGED <<depth, pc, idx, mem, results, status, box, pause,
                 crashes, committed>>

\* acquire_lock_guarded fails, because another call holds the lock, a crashed
\* one has left it or it cannot be written: run_loop returns the error.
Refused(c) ==
  /\ stage[c] = "ready"
  /\ stage' = [stage EXCEPT ![c] = "out"]
  /\ snap' = [snap EXCEPT ![c] = Fresh]
  /\ UNCHANGED <<depth, pc, idx, mem, results, status, files, box,
                 crashes, history>>

Acquire(c) ==
  /\ stage[c] = "ready"
  /\ ~Held
  /\ stage' = [stage EXCEPT ![c] = "run"]
  /\ mem' = snap[c]
  /\ snap' = [snap EXCEPT ![c] = Fresh]
  /\ Goto("begin")
  /\ UNCHANGED <<depth, idx, results, status, files, box, crashes, history>>

-----------------------------------------------------------------------------
(* run_loop_inner: the dispatch loop.                                      *)

Preflight ==
  /\ pc = "begin"
  /\ Goto("select")
  /\ UNCHANGED <<run, idx, mem, results, status, files, box, crashes, history>>

\* check_budget_preflight refuses the run.
PreflightFails ==
  /\ pc = "begin"
  /\ EndWithError
  /\ UNCHANGED <<run, idx, mem, results, files, box, crashes, history>>

\* The run records how an action ended and goes to the next one.
Record(result, dispatched) ==
  /\ results' = [results EXCEPT ![idx] = result]
  /\ mem' = [mem EXCEPT !.dispatch = [@ EXCEPT ![idx] = dispatched]]
  /\ idx' = idx + 1
  /\ Goto("select")

\* An action the checkpoint has as done, and one that only reports.
SkipAction ==
  /\ pc = "select" /\ idx \in Actions
  /\ \/ mem.dispatch[idx] = "done" /\ Record("skipped", "done")
     \/ mem.dispatch[idx] # "done" /\ idx \in Reports /\ Record("skipped", "skipped")
  /\ UNCHANGED <<run, status, files, box, crashes, history>>

Dispatch ==
  /\ pc = "select" /\ idx \in Actions \ Reports
  /\ mem.dispatch[idx] # "done"
  /\ mem' = [mem EXCEPT !.dispatch = [@ EXCEPT ![idx] = "running"]]
  /\ committed' = committed \ {idx}
  /\ Goto("active")
  /\ UNCHANGED <<run, idx, results, status, files, box, crashes, lostWrite>>

Polling == taken = "none"

\* Fault: the checkpoint is written for the first action only.
FaultCheckpoint == IF idx = 1 THEN Save(mem) ELSE UNCHANGED <<disk, lostWrite>>

\* The checkpoint is written before the entry is set to done.
Checkpoint == Save(mem)

\* The child exits and its closeout is accepted.
ActionCommits ==
  /\ pc = "active" /\ Polling
  /\ Checkpoint
  /\ Record("committed", "done")
  /\ committed' = committed \cup {idx}
  /\ UNCHANGED <<run, status, pause, box, crashes>>

\* Its closeout is refused, or the child could not be run at all (the entry
\* then stays as it is).
ActionFails ==
  /\ pc = "active" /\ Polling
  /\ \E dispatched \in {"failed", "running"} : Record("failed", dispatched)
  /\ UNCHANGED <<run, status, files, box, crashes, history>>

\* The deadline passes: the child is killed and the run ends.
ActionTimesOut ==
  /\ pc = "active" /\ Polling
  /\ EndWithError
  /\ UNCHANGED <<run, idx, mem, results, files, box, crashes, history>>

-----------------------------------------------------------------------------
(* Signals.  take_signal reads the file and then removes it by name.       *)

PollPlaces == {"active", "paused", "barrier"}

ReadSignal ==
  /\ pc \in PollPlaces /\ Polling
  /\ signal # "none"
  /\ taken' = signal
  /\ UNCHANGED <<run, pc, idx, mem, results, status, files, signal, sent,
                 crashes, history>>

Consume ==
  /\ pc \in PollPlaces
  /\ signal' = "none"
  /\ taken' = "none"
  /\ UNCHANGED sent

\* Kill; and in the barrier, which has no pause support, any pause.
SignalStops ==
  /\ \/ taken = "kill"
     \/ taken \in {"pause", "feedback"} /\ pc = "barrier"
  /\ Consume
  /\ EndWithError
  /\ pause' = IF pc = "paused" THEN NoPause ELSE pause
  /\ UNCHANGED <<run, idx, mem, results, disk, crashes, history>>

\* Pause while the child runs: it is killed and the pause state written.
SignalPauses ==
  /\ taken \in {"pause", "feedback"} /\ pc = "active"
  /\ Consume
  /\ pause' = [action |-> idx, feedback |-> taken = "feedback"]
  /\ Save(mem)
  /\ Goto("paused")
  /\ UNCHANGED <<run, idx, mem, results, status, crashes, committed>>

\* The pause state cannot be written: the action ends as failed.
PauseWriteFails ==
  /\ taken \in {"pause", "feedback"} /\ pc = "active"
  /\ Consume
  /\ Record("failed", "running")
  /\ UNCHANGED <<run, status, files, crashes, history>>

\* Resume and redirect mean nothing to a running child, and a second pause
\* nothing to a paused one.
SignalIgnored ==
  /\ \/ taken \in {"resume", "redirect"} /\ pc \in {"active", "barrier"}
     \/ taken = "pause" /\ pc = "paused"
  /\ Consume
  /\ UNCHANGED <<run, pc, idx, mem, results, status, files, crashes, history>>

\* Feedback while paused is added to the pause state, if there is one.
SignalAddsFeedback ==
  /\ taken = "feedback" /\ pc = "paused"
  /\ Consume
  /\ pause' = IF pause = NoPause THEN NoPause ELSE [pause EXCEPT !.feedback = TRUE]
  /\ UNCHANGED <<run, pc, idx, mem, results, status, disk, crashes, history>>

\* Fault: the pause state outlives the pause.
FaultAfterPause == pause

AfterPause == NoPause

SignalResumes ==
  /\ taken = "resume" /\ pc = "paused"
  /\ Consume
  /\ Save(mem)
  /\ pause' = AfterPause
  /\ Goto("active")
  /\ UNCHANGED <<run, idx, mem, results, status, crashes, committed>>

SignalRedirects ==
  /\ taken = "redirect" /\ pc = "paused"
  /\ Consume
  /\ Save(mem)
  /\ pause' = NoPause
  /\ Record("interrupted", "redirected")
  /\ UNCHANGED <<run, status, crashes, committed>>

\* PAUSE_TIMEOUT_SECS pass without a resume, redirect or kill.
PauseExpires == pc = "paused" /\ Polling

PauseTimesOut ==
  /\ PauseExpires
  /\ pause' = NoPause
  /\ EndWithError
  /\ UNCHANGED <<run, idx, mem, results, disk, box, crashes, history>>

TakeSignal ==
  \/ ReadSignal \/ SignalStops \/ SignalPauses \/ PauseWriteFails
  \/ SignalIgnored \/ SignalAddsFeedback \/ SignalResumes \/ SignalRedirects

-----------------------------------------------------------------------------
(* Verification, escalation and the end of the run.                        *)

\* build_aggregate.
Aggregate ==
  CASE \E a \in Actions : results[a] = "failed" -> "fail"
    [] \A a \in Actions : results[a] \in {"committed", "skipped"} -> "pass"
    [] OTHER -> "partial"

\* A passing aggregate still has to pass the quality gate; a failure of the
\* gate's hook counts as a refusal.
Verdicts == IF Aggregate = "pass" THEN {"pass", "fail"} ELSE {Aggregate}

StartVerify ==
  /\ pc = "select" /\ idx \notin Actions
  /\ Goto("verify")
  /\ UNCHANGED <<run, idx, mem, results, status, files, box, crashes, history>>

VerifyPasses ==
  /\ pc = "verify"
  /\ "pass" \in Verdicts
  /\ mem' = [mem EXCEPT !.failures = 0]
  /\ status' = "pass"
  /\ Goto("finish")
  /\ UNCHANGED <<run, idx, results, files, box, crashes, history>>

\* The aggregate passes and the write of GOAL_STATE.updated_at fails.
GoalSyncFails ==
  /\ pc = "verify"
  /\ "pass" \in Verdicts
  /\ mem' = [mem EXCEPT !.failures = 0]
  /\ EndWithError
  /\ UNCHANGED <<run, idx, results, files, box, crashes, history>>

\* Fault: off by one.
FaultCountUp(count) == IF count <= Threshold THEN count + 1 ELSE Threshold

\* Counters are kept up to Threshold: nothing tells larger values apart.
CountUp(count) == IF count < Threshold THEN count + 1 ELSE Threshold

\* A failing or partial aggregate feeds the circuit breaker.
VerifyFails ==
  /\ pc = "verify"
  /\ \E verdict \in Verdicts \ {"pass"} :
       /\ mem' = [mem EXCEPT !.failures = CountUp(@)]
       /\ \/ mem.failures + 1 < Threshold /\ status' = verdict /\ Goto("finish")
          \/ mem.failures + 1 >= Threshold /\ ~Research /\ EndWithError
          \/ mem.failures + 1 >= Threshold /\ Research /\ Goto("barrier")
             /\ UNCHANGED status
  /\ UNCHANGED <<run, idx, results, files, box, crashes, history>>

\* barrier_escalation fails, times out, or finds nothing to resume with.
BarrierFails ==
  /\ pc = "barrier" /\ Polling
  /\ EndWithError
  /\ UNCHANGED <<run, idx, mem, results, files, box, crashes, history>>

\* Fault: a restart does not use up depth.
FaultDepthLeft(d) == d

DepthLeft(d) == IF d = 0 THEN 0 ELSE d - 1

\* ResearchEscalation: the run is archived, the lock released and the loop
\* started again, as long as the call has depth left.  Nothing is cleaned up.
BarrierResumes(c) ==
  /\ pc = "barrier" /\ Polling
  /\ stage[c] = "run"
  /\ Save(Fresh)
  /\ stage' = [stage EXCEPT ![c] = IF depth[c] = 0 THEN "out" ELSE "enter"]
  /\ depth' = [depth EXCEPT ![c] = DepthLeft(@)]
  /\ committed' = {}
  /\ Reset
  /\ UNCHANGED <<snap, pause, box, crashes>>

\* Completed or Escalated: finish_run and write_loop_state.
Finish ==
  /\ pc = "finish"
  /\ Save(Finished(mem))
  /\ mem' = Fresh
  /\ committed' = {}
  /\ Goto("cleanup")
  /\ UNCHANGED <<run, idx, results, status, pause, box, crashes>>

\* cleanup_loop_artifacts removes the loop's directory (or fails to, which is
\* logged) and the signal and pause files; then the lock is released.
Cleanup(c) ==
  /\ pc = "cleanup"
  /\ stage[c] = "run"
  /\ disk' \in {Fresh, disk}
  /\ signal' = "none"
  /\ pause' = NoPause
  /\ stage' = [stage EXCEPT ![c] = "out"]
  /\ Reset
  /\ UNCHANGED <<snap, depth, taken, sent, crashes, committed, lostWrite>>

-----------------------------------------------------------------------------
(* The environment: the operator, and crashes of the running process.      *)

\* write_signal replaces whatever signal is there.
SendSignal(s) ==
  /\ sent < MaxSignals
  /\ signal' = s
  /\ sent' = sent + 1
  /\ UNCHANGED <<run, pc, idx, mem, results, status, files, taken, crashes, history>>

Crash(c) ==
  /\ stage[c] = "run"
  /\ crashes < MaxCrashes
  /\ crashes' = crashes + 1
  /\ stage' = [stage EXCEPT ![c] = "out"]
  /\ taken' = "none"
  /\ Reset
  /\ UNCHANGED <<snap, depth, files, signal, sent, history>>

Init ==
  /\ stage = [c \in Callers |-> "out"]
  /\ snap = [c \in Callers |-> Fresh]
  /\ depth = [c \in Callers |-> MaxDepth]
  /\ pc = "idle" /\ idx = 1
  /\ mem = Fresh
  /\ results = [a \in Actions |-> "none"]
  /\ status = "none"
  /\ disk = Fresh /\ pause = NoPause
  /\ signal = "none" /\ taken = "none" /\ sent = 0
  /\ crashes = 0
  /\ committed = {} /\ lostWrite = FALSE

\* The steps of the process that holds the lock.
RunStep ==
  \/ Preflight \/ PreflightFails \/ SkipAction \/ Dispatch
  \/ ActionCommits \/ ActionFails \/ ActionTimesOut
  \/ TakeSignal \/ PauseTimesOut
  \/ StartVerify \/ VerifyPasses \/ GoalSyncFails \/ VerifyFails
  \/ BarrierFails \/ Finish
  \/ \E c \in Callers : BarrierResumes(c) \/ Cleanup(c)

Next ==
  \/ RunStep
  \/ \E c \in Callers : Prepare(c) \/ DryRun(c) \/ Refused(c) \/ Acquire(c) \/ Crash(c)
  \/ \E s \in Signals : SendSignal(s)

Spec == Init /\ [][Next]_vars

\* A call that has begun goes on.
Proceed(c) == (stage[c] = "enter" /\ Prepare(c)) \/ Refused(c) \/ Acquire(c)

\* The process that holds the lock keeps running (every wait of it is a poll
\* loop with a deadline), and so does every call before the lock.  Nobody has
\* to call run_loop or to send a signal.
FairSpec == Spec /\ WF_vars(RunStep) /\ \A c \in Callers : WF_vars(Proceed(c))

-----------------------------------------------------------------------------
(* Properties.                                                             *)

\* The variables hold calls, states of the loop, signals and counters.
TypeOK ==
  /\ stage \in [Callers -> Stages]
  /\ snap \in [Callers -> LoopState]
  /\ depth \in [Callers -> 0..MaxDepth]
  /\ pc \in Places
  /\ idx \in 1..(N + 1)
  /\ mem \in LoopState
  /\ results \in [Actions -> Results]
  /\ status \in Statuses
  /\ disk \in LoopState
  /\ signal \in Signals \cup {"none"} /\ taken \in Signals \cup {"none"}
  /\ pause \in [action: 0..N, feedback: BOOLEAN]
  /\ sent \in 0..MaxSignals /\ crashes \in 0..MaxCrashes
  /\ committed \subseteq Actions /\ lostWrite \in BOOLEAN

\* The pause state on disk tells the truth about a live run: it is there only
\* while the run is paused, and names the action the run is paused at.
PauseFileTruthful ==
  (pc # "idle" /\ pause # NoPause) => (pc = "paused" /\ pause.action = idx)

\* No action is dispatched that the checkpoint on disk records as done.
CheckpointHonoured ==
  pc = "active" => disk.dispatch[idx] # "done"

\* Of the actions a run has committed, only the last one may be missing from
\* the checkpoint: that is all a crash at any point can make it repeat.
OnlyLastUnrecorded ==
  (~lostWrite /\ pc # "cleanup") =>
    \A a, b \in Actions :
      a < b /\ results[a] = "committed" /\ results[b] = "committed"
        => disk.dispatch[a] = "done"

\* A run that passes has every dispatched action committed, by itself or by
\* an interrupted run it continues.
PassMeansCommitted ==
  (pc = "finish" /\ status = "pass" /\ ~lostWrite) => Actions \ Reports \subseteq committed

\* Every call of run_loop returns, whatever the operator does with finitely
\* many signals, research restarts included.
CallReturns == \A c \in Callers : (stage[c] # "out") ~> (stage[c] = "out")

=============================================================================
