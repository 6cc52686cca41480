--------------------------- MODULE LoopRunnerProofs ---------------------------
(***************************************************************************)
(* What a loop run keeps true for any number of callers, actions, signals  *)
(* and crashes: its variables are well typed, and the checkpoint on disk   *)
(* lags behind the run by one committed action at most.  When one caller   *)
(* starts the runs, the pause file tells the truth, what is recorded as    *)
(* done is not dispatched, and a run that passes is committed.             *)
(***************************************************************************)
EXTENDS LoopRunner, TLAPS

NoResults == [a \in Actions |-> "none"]

-----------------------------------------------------------------------------
(* Types.                                                                  *)

\* A loop that starts afresh has dispatched nothing.
LEMMA FreshTyped == NoDispatch \in [Actions -> DispatchStatus] /\ Fresh \in LoopState
BY RunnerAssumption DEF NoDispatch, Fresh, LoopState, DispatchStatus

\* A loop that is resumed forgets the dispatches that were not done.
LEMMA RescuedTyped == \A s \in LoopState : Rescued(s) \in LoopState
<1> SUFFICES ASSUME NEW s \in LoopState PROVE Rescued(s) \in LoopState
  OBVIOUS
<1>1. [a \in Actions |-> IF s.dispatch[a] = "done" THEN "done" ELSE "none"]
        \in [Actions -> DispatchStatus]
  BY DEF DispatchStatus
<1> QED BY <1>1 DEF Rescued, LoopState

\* A loop whose action is committed stays well typed.
LEMMA FinishedTyped == \A s \in LoopState : Finished(s) \in LoopState
BY FreshTyped DEF Finished, LoopState

\* So does one that notes the dispatch of an action,
LEMMA DispatchTyped ==
  ASSUME NEW s \in LoopState, NEW i \in Actions, NEW d \in DispatchStatus
  PROVE  [s EXCEPT !.dispatch = [@ EXCEPT ![i] = d]] \in LoopState
<1>1. [s.dispatch EXCEPT ![i] = d] \in [Actions -> DispatchStatus]
  BY DEF LoopState
<1> QED BY <1>1 DEF LoopState

\* one that counts a failure,
LEMMA FailuresTyped ==
  ASSUME NEW s \in LoopState, NEW n \in 0..Threshold
  PROVE  [s EXCEPT !.failures = n] \in LoopState
BY DEF LoopState

\* The count of failures stops at the threshold.
LEMMA CountUpTyped == \A n \in 0..Threshold : CountUp(n) \in 0..Threshold
BY RunnerAssumption DEF CountUp

\* Whatever a save does to the file, it holds a loop state.
LEMMA SaveTyped ==
  ASSUME NEW s \in LoopState, disk \in LoopState, lostWrite \in BOOLEAN, Save(s)
  PROVE  disk' \in LoopState /\ lostWrite' \in BOOLEAN
BY DEF Save

\* No pause file reads as no action, without feedback.
LEMMA NoPauseTyped == NoPause \in [action: 0..N, feedback: BOOLEAN]
<1>1. 0 \in 0..N
  BY RunnerAssumption
<1> QED BY <1>1 DEF NoPause

\* A run starts without results.
LEMMA NoResultsTyped == NoResults \in [Actions -> Results]
BY DEF NoResults, Results

\* What a reset leaves is well typed.
LEMMA ResetTyped ==
  Reset => /\ pc' = "idle" /\ idx' \in 1..(N + 1) /\ mem' \in LoopState
           /\ results' \in [Actions -> Results] /\ status' = "none"
<1>1. 1 \in 1..(N + 1)
  BY RunnerAssumption
<1> QED BY <1>1, FreshTyped, NoResultsTyped DEF Reset, NoResults

\* Recording a result keeps the run's variables typed.
LEMMA RecordTyped ==
  ASSUME TypeOK, idx \in Actions, NEW r \in Results, NEW d \in DispatchStatus,
         Record(r, d)
  PROVE  /\ results' \in [Actions -> Results] /\ mem' \in LoopState
         /\ idx' \in 1..(N + 1) /\ pc' \in Places
<1>1. mem' \in LoopState
  BY DispatchTyped DEF TypeOK, Record
<1>2. idx' \in 1..(N + 1)
  BY RunnerAssumption DEF TypeOK, Record, Actions
<1> QED BY <1>1, <1>2 DEF TypeOK, Record, Goto, Places

\* A child runs, or is paused, only for an action of the run.
AtAction == pc \in {"active", "paused"} => idx \in Actions

Typed == TypeOK /\ AtAction

\* The first state is well typed,
LEMMA InitTyped == Init => Typed
<1> SUFFICES ASSUME Init PROVE Typed
  OBVIOUS
<1>1. pause \in [action: 0..N, feedback: BOOLEAN] /\ results \in [Actions -> Results]
  BY NoPauseTyped, NoResultsTyped DEF Init, NoResults
<1>2. /\ stage \in [Callers -> Stages] /\ snap \in [Callers -> LoopState]
      /\ mem \in LoopState /\ disk \in LoopState
  BY FreshTyped DEF Init, Stages
<1>3. /\ depth \in [Callers -> 0..MaxDepth] /\ idx \in 1..(N + 1)
      /\ sent \in 0..MaxSignals /\ crashes \in 0..MaxCrashes
  BY RunnerAssumption DEF Init
<1>4. /\ pc \in Places /\ status \in Statuses /\ AtAction
      /\ signal \in Signals \cup {"none"} /\ taken \in Signals \cup {"none"}
      /\ committed \subseteq Actions /\ lostWrite \in BOOLEAN
  BY DEF Init, Places, Statuses, AtAction
<1> QED BY <1>1, <1>2, <1>3, <1>4 DEF Typed, TypeOK

\* and every step keeps it so.
LEMMA NextTyped == Typed /\ [Next]_vars => Typed'
<1> SUFFICES ASSUME Typed, [Next]_vars PROVE Typed'
  OBVIOUS
<1>0. TypeOK /\ AtAction
  BY DEF Typed
<1> USE <1>0, RunnerAssumption
    DEF Typed, TypeOK, run, files, box, history, Goto, Stages, Places, Results,
        Statuses
<1>1. ASSUME NEW c \in Callers, Prepare(c) PROVE Typed'
  <2>1. snap' \in [Callers -> LoopState]
    BY <1>1, RescuedTyped DEF Prepare
  <2>2. depth' \in [Callers -> 0..MaxDepth]
    BY <1>1 DEF Prepare
  <2> QED BY <1>1, <2>1, <2>2 DEF Prepare, NoPause, AtAction
<1>2. ASSUME NEW c \in Callers, DryRun(c) PROVE Typed'
  <2>1. Finished(snap[c]) \in LoopState
    BY FinishedTyped
  <2>2. disk' \in LoopState /\ lostWrite' \in BOOLEAN
    BY <1>2, <2>1, SaveTyped DEF DryRun
  <2> QED BY <1>2, <2>2, FreshTyped DEF DryRun, AtAction
<1>3. ASSUME NEW c \in Callers, Refused(c) PROVE Typed'
  BY <1>3, FreshTyped DEF Refused, AtAction
<1>4. ASSUME NEW c \in Callers, Acquire(c) PROVE Typed'
  BY <1>4, FreshTyped DEF Acquire, AtAction
<1>5. ASSUME NEW c \in Callers, Crash(c) PROVE Typed'
  <2>1. crashes' \in 0..MaxCrashes
    BY <1>5 DEF Crash
  <2>2. stage' \in [Callers -> Stages]
    BY <1>5 DEF Crash
  <2>3. pc' = "idle" /\ status' = "none" /\ taken' = "none"
    BY <1>5, ResetTyped DEF Crash
  <2> QED BY <1>5, <2>1, <2>2, <2>3, ResetTyped, Zenon DEF Crash, AtAction
<1>6. ASSUME NEW s \in Signals, SendSignal(s) PROVE Typed'
  BY <1>6 DEF SendSignal, AtAction
<1>7. CASE Preflight \/ StartVerify
  BY <1>7 DEF Preflight, StartVerify, AtAction
<1>8. CASE PreflightFails \/ ActionTimesOut \/ PauseTimesOut \/ BarrierFails
  <2>1. CASE PreflightFails \/ BarrierFails
    BY <1>8, <2>1 DEF PreflightFails, BarrierFails, EndWithError, AtAction
  <2>2. CASE ActionTimesOut
    BY <2>2 DEF ActionTimesOut, EndWithError, AtAction
  <2>3. CASE PauseTimesOut
    BY <2>3, NoPauseTyped DEF PauseTimesOut, EndWithError, AtAction
  <2> QED BY <1>8, <2>1, <2>2, <2>3
<1>9. CASE SkipAction
  <2>1. /\ results' \in [Actions -> Results] /\ mem' \in LoopState
        /\ idx' \in 1..(N + 1) /\ pc' \in Places
    BY <1>9, RecordTyped DEF SkipAction, DispatchStatus
  <2> QED BY <1>9, <2>1 DEF SkipAction, Record, AtAction
<1>10. CASE Dispatch
  <2>1. mem' \in LoopState
    BY <1>10, DispatchTyped DEF Dispatch, DispatchStatus
  <2> QED BY <1>10, <2>1 DEF Dispatch, AtAction
<1>11. CASE ActionCommits
  <2>1. idx \in Actions
    BY <1>11 DEF ActionCommits, AtAction
  <2>2. /\ results' \in [Actions -> Results] /\ mem' \in LoopState
        /\ idx' \in 1..(N + 1) /\ pc' \in Places
    BY <1>11, <2>1, RecordTyped DEF ActionCommits, DispatchStatus
  <2>3. disk' \in LoopState /\ lostWrite' \in BOOLEAN
    BY <1>11, SaveTyped DEF ActionCommits, Checkpoint
  <2> QED BY <1>11, <2>1, <2>2, <2>3 DEF ActionCommits, Record, AtAction
<1>12. CASE ActionFails
  <2>1. idx \in Actions
    BY <1>12 DEF ActionFails, AtAction
  <2>2. /\ results' \in [Actions -> Results] /\ mem' \in LoopState
        /\ idx' \in 1..(N + 1) /\ pc' \in Places
    BY <1>12, <2>1, RecordTyped DEF ActionFails, DispatchStatus
  <2> QED BY <1>12, <2>2 DEF ActionFails, Record, AtAction
<1>13. CASE ReadSignal
  BY <1>13 DEF ReadSignal, AtAction
<1>14. CASE SignalStops
  BY <1>14, NoPauseTyped DEF SignalStops, Consume, EndWithError, AtAction
<1>15. CASE SignalPauses
  <2>1. idx \in Actions
    BY <1>15 DEF SignalPauses, AtAction
  <2>2. disk' \in LoopState /\ lostWrite' \in BOOLEAN
    BY <1>15, SaveTyped DEF SignalPauses
  <2>3. pause' \in [action: 0..N, feedback: BOOLEAN]
    BY <1>15, <2>1 DEF SignalPauses, Actions
  <2> QED BY <1>15, <2>1, <2>2, <2>3 DEF SignalPauses, Consume, AtAction
<1>16. CASE PauseWriteFails
  <2>1. idx \in Actions
    BY <1>16 DEF PauseWriteFails, AtAction
  <2>2. /\ results' \in [Actions -> Results] /\ mem' \in LoopState
        /\ idx' \in 1..(N + 1) /\ pc' \in Places
    BY <1>16, <2>1, RecordTyped DEF PauseWriteFails, DispatchStatus
  <2> QED BY <1>16, <2>2 DEF PauseWriteFails, Consume, Record, AtAction
<1>17. CASE SignalIgnored
  BY <1>17 DEF SignalIgnored, Consume, AtAction
<1>18. CASE SignalAddsFeedback
  BY <1>18 DEF SignalAddsFeedback, Consume, NoPause, AtAction
<1>19. CASE SignalResumes
  <2>1. idx \in Actions
    BY <1>19 DEF SignalResumes, AtAction
  <2>2. disk' \in LoopState /\ lostWrite' \in BOOLEAN
    BY <1>19, SaveTyped DEF SignalResumes
  <2> QED BY <1>19, <2>1, <2>2, NoPauseTyped
          DEF SignalResumes, Consume, AfterPause, AtAction
<1>20. CASE SignalRedirects
  <2>1. idx \in Actions
    BY <1>20 DEF SignalRedirects, AtAction
  <2>2. /\ results' \in [Actions -> Results] /\ mem' \in LoopState
        /\ idx' \in 1..(N + 1) /\ pc' \in Places
    BY <1>20, <2>1, RecordTyped DEF SignalRedirects, DispatchStatus
  <2>3. disk' \in LoopState /\ lostWrite' \in BOOLEAN
    BY <1>20, SaveTyped DEF SignalRedirects
  <2> QED BY <1>20, <2>2, <2>3, NoPauseTyped DEF SignalRedirects, Consume, Record, AtAction
<1>21. CASE VerifyPasses \/ GoalSyncFails
  <2>1. mem' \in LoopState
    BY <1>21, FailuresTyped DEF VerifyPasses, GoalSyncFails
  <2> QED BY <1>21, <2>1 DEF VerifyPasses, GoalSyncFails, EndWithError, AtAction
<1>22. CASE VerifyFails
  <2>1. mem.failures \in 0..Threshold
    BY DEF LoopState
  <2>2. mem' \in LoopState
    BY <1>22, <2>1, CountUpTyped, FailuresTyped DEF VerifyFails
  <2>3. status' \in Statuses
    BY <1>22 DEF VerifyFails, Verdicts, Aggregate, EndWithError
  <2> QED BY <1>22, <2>2, <2>3 DEF VerifyFails, EndWithError, AtAction
<1>23. ASSUME NEW c \in Callers, BarrierResumes(c) PROVE Typed'
  <2>1. disk' \in LoopState /\ lostWrite' \in BOOLEAN
    BY <1>23, FreshTyped, SaveTyped DEF BarrierResumes
  <2>2. depth' \in [Callers -> 0..MaxDepth]
    BY <1>23, RunnerAssumption DEF BarrierResumes, DepthLeft
  <2> QED BY <1>23, <2>1, <2>2, ResetTyped DEF BarrierResumes, AtAction
<1>24. CASE Finish
  <2>1. disk' \in LoopState /\ lostWrite' \in BOOLEAN
    BY <1>24, FinishedTyped, SaveTyped DEF Finish
  <2> QED BY <1>24, <2>1, FreshTyped DEF Finish, AtAction
<1>25. ASSUME NEW c \in Callers, Cleanup(c) PROVE Typed'
  BY <1>25, FreshTyped, NoPauseTyped, ResetTyped DEF Cleanup, AtAction
<1>26. CASE UNCHANGED vars
  BY <1>26 DEF vars, AtAction
<1> QED
  BY <1>1, <1>2, <1>3, <1>4, <1>5, <1>6, <1>7, <1>8, <1>9, <1>10, <1>11, <1>12,
     <1>13, <1>14, <1>15, <1>16, <1>17, <1>18, <1>19, <1>20, <1>21, <1>22,
     <1>23, <1>24, <1>25, <1>26
     DEF Next, RunStep, TakeSignal

\* Every state of a run is well typed.
THEOREM RunTyped == Spec => []Typed
BY InitTyped, NextTyped, PTL DEF Spec

\* Type correctness of a loop run.
THEOREM RunTypeCorrect == Spec => []TypeOK
<1>1. Typed => TypeOK
  BY DEF Typed
<1> QED BY <1>1, RunTyped, PTL

-----------------------------------------------------------------------------
(* The checkpoint.                                                         *)

\* A run belongs to a call, and without one there are no results; results
\* exist for actions before the current one; a committed action is done in
\* the run's memory.
Attended == pc # "idle" => Held
Clean == ~Held => results = NoResults
Ordered == \A a \in Actions : results[a] # "none" => a < idx
MemoryDone ==
  pc # "cleanup" =>
    \A a \in Actions : results[a] = "committed" => mem.dispatch[a] = "done"

Progress == Typed /\ Attended /\ Clean /\ Ordered /\ MemoryDone /\ OnlyLastUnrecorded

\* A new or ended run has nothing to record.
LEMMA NothingToRecord ==
  results = NoResults => Ordered /\ MemoryDone /\ OnlyLastUnrecorded
BY DEF NoResults, Ordered, MemoryDone, OnlyLastUnrecorded

\* Nothing is unrecorded before the first run,
LEMMA InitProgress == Init => Progress
<1>1. Init => results = NoResults
  BY DEF Init, NoResults
<1>2. Init => pc = "idle"
  BY DEF Init
<1> QED BY <1>1, <1>2, InitTyped, NothingToRecord DEF Progress, Clean, Attended

\* Recording any result but a commit keeps the facts about earlier results,
\* as the checkpoint is untouched or is the memory of the run.
LEMMA RecordKeeps ==
  ASSUME Progress, idx \in Actions, pc \notin {"idle", "cleanup"},
         NEW r \in Results, NEW d \in DispatchStatus, Record(r, d),
         r = "committed" => d = "done",
         r = "committed" => Save(mem),
         r # "committed" => Save(mem) \/ UNCHANGED <<disk, lostWrite>>,
         stage' = stage
  PROVE  Attended' /\ Clean' /\ Ordered' /\ MemoryDone' /\ OnlyLastUnrecorded'
<1> USE DEF Progress
<1>0. mem \in LoopState /\ results \in [Actions -> Results] /\ idx \in Int
  BY RunnerAssumption DEF Typed, TypeOK
<1>1. results' = [results EXCEPT ![idx] = r] /\ idx' = idx + 1 /\ pc' = "select"
  BY DEF Record, Goto
<1>2. \A a \in Actions : a # idx => mem'.dispatch[a] = mem.dispatch[a]
  BY <1>0 DEF Record, LoopState
<1>3. mem'.dispatch[idx] = d
  BY <1>0 DEF Record, LoopState
<1>4. Ordered'
  BY <1>0, <1>1 DEF Ordered, Actions
<1>5. MemoryDone'
  BY <1>0, <1>1, <1>2, <1>3 DEF MemoryDone
<1>6. ASSUME ~lostWrite', NEW a \in Actions, NEW b \in Actions, a < b,
             results'[a] = "committed", results'[b] = "committed"
      PROVE  disk'.dispatch[a] = "done"
  <2>1. b <= idx /\ a < idx /\ a # idx
    BY <1>0, <1>1, <1>6 DEF Ordered, Actions
  <2>2. results[a] = "committed" /\ mem.dispatch[a] = "done"
    BY <1>0, <1>1, <1>6, <2>1 DEF MemoryDone
  <2>3. CASE disk' = mem
    BY <2>2, <2>3
  <2>4. CASE r # "committed" /\ UNCHANGED <<disk, lostWrite>>
    <3>1. results[b] = "committed"
      BY <1>0, <1>1, <1>6, <2>4
    <3> QED BY <1>6, <2>2, <2>4, <3>1 DEF OnlyLastUnrecorded
  <2> QED BY <1>6, <2>3, <2>4 DEF Save
<1>7. Attended' /\ Clean'
  BY DEF Attended, Clean, Held
<1> QED BY <1>4, <1>5, <1>6, <1>7 DEF OnlyLastUnrecorded

\* Leaving the results, the memory and the disk alone keeps all of it.
LEMMA StutterKeeps ==
  ASSUME Progress, UNCHANGED <<stage, results, mem, disk, lostWrite>>,
         idx' = idx, pc # "idle", pc # "cleanup"
  PROVE  Attended' /\ Clean' /\ Ordered' /\ MemoryDone' /\ OnlyLastUnrecorded'
BY DEF Progress, Attended, Clean, Held, Ordered, MemoryDone, OnlyLastUnrecorded

\* So does saving the memory.
LEMMA SaveKeeps ==
  ASSUME Progress, Save(mem), UNCHANGED <<stage, results, mem, idx>>,
         pc \notin {"idle", "cleanup"}
  PROVE  Attended' /\ Clean' /\ Ordered' /\ MemoryDone' /\ OnlyLastUnrecorded'
<1> USE DEF Progress
<1>1. Attended' /\ Clean' /\ Ordered' /\ MemoryDone'
  BY DEF Attended, Clean, Held, Ordered, MemoryDone
<1>2. OnlyLastUnrecorded'
  <2>1. CASE disk' = mem
    BY <2>1 DEF MemoryDone, OnlyLastUnrecorded
  <2>2. CASE disk' = disk /\ lostWrite' = TRUE
    BY <2>2 DEF OnlyLastUnrecorded
  <2> QED BY <2>1, <2>2 DEF Save, OnlyLastUnrecorded, MemoryDone
<1> QED BY <1>1, <1>2

\* And so does a step that only changes the failures in memory.
LEMMA FailuresKeep ==
  ASSUME Progress, NEW n, mem' = [mem EXCEPT !.failures = n],
         UNCHANGED <<stage, results, disk, lostWrite, idx>>,
         pc \notin {"idle", "cleanup"}
  PROVE  Attended' /\ Clean' /\ Ordered' /\ MemoryDone' /\ OnlyLastUnrecorded'
<1>1. mem'.dispatch = mem.dispatch
  BY DEF Progress, Typed, TypeOK, LoopState
<1> QED
  BY <1>1 DEF Progress, Attended, Clean, Held, Ordered, MemoryDone, OnlyLastUnrecorded

\* and a step leaves one commit unrecorded at most.
LEMMA NextProgress == Progress /\ [Next]_vars => Progress'
<1> SUFFICES ASSUME Progress, [Next]_vars
             PROVE  Attended' /\ Clean' /\ Ordered' /\ MemoryDone' /\ OnlyLastUnrecorded'
  BY NextTyped DEF Progress
<1> DEFINE Kept == Attended' /\ Clean' /\ Ordered' /\ MemoryDone' /\ OnlyLastUnrecorded'
<1> USE DEF run, files, box, history, Goto
<1>0. Typed /\ Attended /\ Clean /\ Ordered /\ MemoryDone /\ OnlyLastUnrecorded
  BY DEF Progress
<1>a. stage \in [Callers -> Stages]
  BY <1>0 DEF Typed, TypeOK
<1>1. ASSUME NEW c \in Callers, Prepare(c) \/ Refused(c) \/ DryRun(c) PROVE Kept
  <2>1. Held' = Held
    BY <1>1, <1>a DEF Prepare, Refused, DryRun, Held
  <2>2. UNCHANGED <<pc, idx, mem, results>>
    BY <1>1 DEF Prepare, Refused, DryRun
  <2>3. lostWrite' \/ UNCHANGED <<disk, lostWrite>> \/ ~Held
    BY <1>1 DEF Prepare, Refused, DryRun
  <2>4. OnlyLastUnrecorded'
    <3>1. CASE ~Held
      BY <1>0, <2>2, <3>1 DEF Clean, NoResults, OnlyLastUnrecorded
    <3> QED BY <1>0, <2>2, <2>3, <3>1 DEF OnlyLastUnrecorded
  <2> QED BY <1>0, <2>1, <2>2, <2>4 DEF Attended, Clean, Ordered, MemoryDone
<1>2. ASSUME NEW c \in Callers, Acquire(c) PROVE Kept
  <2>1. results' = NoResults
    BY <1>0, <1>2 DEF Acquire, Clean
  <2>2. Held'
    BY <1>2, <1>a DEF Acquire, Held
  <2> QED BY <2>1, <2>2 DEF Attended, Clean, Ordered, MemoryDone, OnlyLastUnrecorded, NoResults
<1>3. ASSUME NEW c \in Callers, Crash(c) \/ BarrierResumes(c) \/ Cleanup(c) PROVE Kept
  <2>1. results' = NoResults /\ pc' = "idle"
    BY <1>3 DEF Crash, BarrierResumes, Cleanup, Reset, NoResults
  <2> QED BY <2>1 DEF Attended, Clean, Ordered, MemoryDone, OnlyLastUnrecorded, NoResults
<1>4. ASSUME NEW s \in Signals, SendSignal(s) PROVE Kept
  BY <1>0, <1>4 DEF SendSignal, Attended, Clean, Held, Ordered, MemoryDone, OnlyLastUnrecorded
<1>5. CASE Preflight \/ PreflightFails \/ ActionTimesOut \/ ReadSignal \/ SignalStops
  BY <1>5, StutterKeeps
     DEF Preflight, PreflightFails, ActionTimesOut, ReadSignal, SignalStops,
         Consume, PollPlaces, EndWithError
<1>6. CASE SignalIgnored \/ SignalAddsFeedback \/ PauseTimesOut \/ StartVerify \/ BarrierFails
  BY <1>6, StutterKeeps
     DEF SignalIgnored, SignalAddsFeedback, PauseTimesOut, PauseExpires, StartVerify,
         BarrierFails, EndWithError
<1>7. CASE SignalPauses \/ SignalResumes
  BY <1>7, SaveKeeps DEF SignalPauses, SignalResumes
<1>8. CASE VerifyPasses \/ GoalSyncFails \/ VerifyFails
  <2>1. pc = "verify" /\ UNCHANGED <<stage, results, disk, lostWrite, idx>>
    BY <1>8 DEF VerifyPasses, GoalSyncFails, VerifyFails
  <2>2. PICK n : mem' = [mem EXCEPT !.failures = n]
    BY <1>8 DEF VerifyPasses, GoalSyncFails, VerifyFails
  <2> QED BY <2>1, <2>2, FailuresKeep
<1>9. CASE SkipAction
  <2>1. idx \in Actions /\ pc = "select" /\ UNCHANGED <<disk, lostWrite, stage>>
    BY <1>9 DEF SkipAction
  <2>2. CASE Record("skipped", "done")
    BY <2>1, <2>2, RecordKeeps DEF Results, DispatchStatus
  <2>3. CASE Record("skipped", "skipped")
    BY <2>1, <2>3, RecordKeeps DEF Results, DispatchStatus
  <2> QED BY <1>9, <2>2, <2>3 DEF SkipAction
<1>10. CASE Dispatch
  <2>1. \A a \in Actions : a # idx => mem'.dispatch[a] = mem.dispatch[a]
    BY <1>0, <1>10 DEF Dispatch, Typed, TypeOK, LoopState
  <2>2. \A a \in Actions : results[a] = "committed" => a # idx
    BY <1>0 DEF Ordered, Actions
  <2> QED BY <1>0, <1>10, <2>1, <2>2
          DEF Dispatch, Attended, Clean, Held, Ordered, MemoryDone, OnlyLastUnrecorded
<1>11. CASE ActionCommits
  <2>1. idx \in Actions
    BY <1>0, <1>11 DEF ActionCommits, Typed, AtAction
  <2> QED BY <1>11, <2>1, RecordKeeps DEF ActionCommits, Checkpoint, Results, DispatchStatus
<1>12. CASE ActionFails
  <2>1. idx \in Actions
    BY <1>0, <1>12 DEF ActionFails, Typed, AtAction
  <2> QED BY <1>12, <2>1, RecordKeeps DEF ActionFails, Results, DispatchStatus
<1>13. CASE PauseWriteFails
  <2>1. idx \in Actions
    BY <1>0, <1>13 DEF PauseWriteFails, Typed, AtAction
  <2> QED BY <1>13, <2>1, RecordKeeps DEF PauseWriteFails, Results, DispatchStatus
<1>14. CASE SignalRedirects
  <2>1. idx \in Actions
    BY <1>0, <1>14 DEF SignalRedirects, Typed, AtAction
  <2> QED BY <1>14, <2>1, RecordKeeps DEF SignalRedirects, Results, DispatchStatus
<1>15. CASE Finish
  BY <1>0, <1>15 DEF Finish, Attended, Clean, Held, Ordered, MemoryDone, OnlyLastUnrecorded
<1>16. CASE UNCHANGED vars
  BY <1>0, <1>16 DEF vars, Attended, Clean, Held, Ordered, MemoryDone, OnlyLastUnrecorded
<1> QED
  BY <1>1, <1>2, <1>3, <1>4, <1>5, <1>6, <1>7, <1>8, <1>9, <1>10, <1>11, <1>12,
     <1>13, <1>14, <1>15, <1>16
     DEF Next, RunStep, TakeSignal

\* What a run has committed and its checkpoint differ by the last commit at most.
THEOREM RunProgress == Spec => []Progress
BY InitProgress, NextProgress, PTL DEF Spec

\* A crash at any point costs a run at most the record of its last committed
\* action, for any number of actions, callers, signals and crashes.
THEOREM CheckpointLag == Spec => []OnlyLastUnrecorded
<1>1. Progress => OnlyLastUnrecorded
  BY DEF Progress
<1> QED BY <1>1, RunProgress, PTL

-----------------------------------------------------------------------------
(* One caller at a time: the pause file, and what a run takes over.        *)

OneCaller == \A c, d \in Callers : c = d

\* A call that is about to take the lock has just removed the pause file.
PauseCleared == \A c \in Callers : stage[c] = "ready" => pause = NoPause

\* What the file records as done is done for the run, and for a call that has
\* read it; the action at work is not.
DoneIn(s) == {a \in Actions : s.dispatch[a] = "done"}

Inherited ==
  /\ pc \notin {"idle", "cleanup"} => DoneIn(disk) \subseteq DoneIn(mem)
  /\ \A c \in Callers : stage[c] = "ready" => DoneIn(disk) \subseteq DoneIn(snap[c])
  /\ pc \in {"active", "paused"} => idx \notin DoneIn(mem)

\* What counts as done anywhere has been committed, while no write was lost.
DoneCommitted ==
  ~lostWrite =>
    /\ DoneIn(disk) \subseteq committed
    /\ pc # "idle" => DoneIn(mem) \subseteq committed
    /\ \A c \in Callers : stage[c] = "ready" => DoneIn(snap[c]) \subseteq committed

\* A result that lets the run pass is a commit or the skip of an action that
\* is done already or only reports.
ResultsEarned ==
  /\ pc # "cleanup" =>
       \A a \in Actions \ Reports : results[a] = "skipped" => a \in DoneIn(mem)
  /\ pc = "finish" /\ status = "pass" =>
       \A a \in Actions : results[a] \in {"committed", "skipped"}

Alone ==
  Progress /\ PauseFileTruthful /\ PauseCleared /\ Inherited /\ DoneCommitted /\ ResultsEarned

\* With one caller a call before the lock is the only one.
LEMMA NobodyElse ==
  ASSUME OneCaller, Attended, NEW c \in Callers, stage[c] # "run"
  PROVE  pc = "idle"
BY DEF OneCaller, Attended, Held

\* Only the action a result is recorded for changes, and only "done" makes it done.
LEMMA RecordDone ==
  ASSUME Typed, idx \in Actions, NEW r \in Results, NEW d \in DispatchStatus, Record(r, d)
  PROVE  /\ results' = [results EXCEPT ![idx] = r] /\ pc' = "select"
         /\ idx \notin DoneIn(mem) => DoneIn(mem) \subseteq DoneIn(mem')
         /\ d = "done" => DoneIn(mem') = DoneIn(mem) \cup {idx}
         /\ d # "done" => DoneIn(mem') = DoneIn(mem) \ {idx}
<1>1. mem \in LoopState
  BY DEF Typed, TypeOK
<1>2. /\ \A a \in Actions : a # idx => mem'.dispatch[a] = mem.dispatch[a]
      /\ mem'.dispatch[idx] = d
  BY <1>1 DEF Record, LoopState
<1> QED BY <1>2 DEF Record, Goto, DoneIn

\* Rescuing keeps what is done and nothing else; a finished or fresh state has
\* nothing done.
LEMMA DoneAfter ==
  /\ \A s \in LoopState : DoneIn(Rescued(s)) = DoneIn(s) /\ DoneIn(Finished(s)) = {}
  /\ DoneIn(Fresh) = {}
<1>1. DoneIn(Fresh) = {}
  BY DEF DoneIn, Fresh, NoDispatch
<1>2. ASSUME NEW s \in LoopState
      PROVE  DoneIn(Rescued(s)) = DoneIn(s) /\ DoneIn(Finished(s)) = {}
  <2>1. \A a \in Actions :
          /\ Rescued(s).dispatch[a] = IF s.dispatch[a] = "done" THEN "done" ELSE "none"
          /\ Finished(s).dispatch[a] = "none"
    BY DEF Rescued, Finished, NoDispatch, LoopState
  <2> QED BY <2>1 DEF DoneIn
<1> QED BY <1>1, <1>2

\* Before the first run there is no pause file, result or checkpoint.
LEMMA InitAlone == Init => Alone
BY InitProgress, DoneAfter
   DEF Init, Alone, PauseFileTruthful, PauseCleared, Inherited, DoneCommitted, ResultsEarned

\* While a run is at work its call is the only one.
LEMMA RunningAlone ==
  ASSUME OneCaller, Attended, pc # "idle"
  PROVE  \A c \in Callers : stage[c] = "run"
BY NobodyElse

\* The steps of the run that are not its last one.
InRun ==
  \/ Preflight \/ PreflightFails \/ SkipAction \/ Dispatch
  \/ ActionCommits \/ ActionFails \/ ActionTimesOut
  \/ TakeSignal \/ PauseTimesOut
  \/ StartVerify \/ VerifyPasses \/ GoalSyncFails \/ VerifyFails
  \/ BarrierFails \/ Finish

\* A step inside a run is taken by the one caller, whose run it is.
LEMMA InRunAlone ==
  ASSUME OneCaller, Alone, InRun
  PROVE  /\ pc # "idle" /\ pc # "cleanup" /\ stage' = stage /\ snap' = snap
         /\ \A c \in Callers : stage[c] = "run"
<1>1. pc # "idle" /\ pc # "cleanup"
  BY DEF InRun, Preflight, PreflightFails, SkipAction, Dispatch, ActionCommits, ActionFails,
         ActionTimesOut, TakeSignal, ReadSignal, SignalStops, SignalPauses, PauseWriteFails,
         SignalIgnored, SignalAddsFeedback, SignalResumes, SignalRedirects, PauseTimesOut,
         PauseExpires, StartVerify, VerifyPasses, GoalSyncFails, VerifyFails, BarrierFails,
         Finish, PollPlaces, Consume
<1>2. stage' = stage /\ snap' = snap
  BY DEF InRun, Preflight, PreflightFails, SkipAction, Dispatch, ActionCommits, ActionFails,
         ActionTimesOut, TakeSignal, ReadSignal, SignalStops, SignalPauses, PauseWriteFails,
         SignalIgnored, SignalAddsFeedback, SignalResumes, SignalRedirects, PauseTimesOut,
         StartVerify, VerifyPasses, GoalSyncFails, VerifyFails, BarrierFails,
         Finish, run
<1> QED BY <1>1, <1>2, RunningAlone DEF Alone, Progress

\* The pause file is written and removed with the pause.
LEMMA PauseInRun ==
  ASSUME OneCaller, Alone, InRun
  PROVE  PauseFileTruthful' /\ PauseCleared'
<1>0. /\ pc # "paused" => pause = NoPause
      /\ pause # NoPause => pause.action = idx
  BY InRunAlone DEF Alone, PauseFileTruthful
<1>1. PauseCleared'
  BY InRunAlone DEF PauseCleared
<1> USE DEF Goto, EndWithError, Record, Consume, files, PauseFileTruthful
<1>2. CASE Preflight \/ PreflightFails \/ SkipAction \/ Dispatch
  BY <1>0, <1>1, <1>2 DEF Preflight, PreflightFails, SkipAction, Dispatch
<1>3. CASE ActionCommits \/ ActionFails \/ ActionTimesOut
  BY <1>0, <1>1, <1>3 DEF ActionCommits, ActionFails, ActionTimesOut
<1>4. CASE ReadSignal \/ SignalStops \/ SignalIgnored
  BY <1>0, <1>1, <1>4 DEF ReadSignal, SignalStops, SignalIgnored
<1>8. CASE SignalAddsFeedback
  <2>1. pause' # NoPause => pause # NoPause /\ pause'.action = pause.action
    BY <1>8 DEF SignalAddsFeedback, Alone, Progress, Typed, TypeOK
  <2> QED BY <1>0, <1>1, <1>8, <2>1 DEF SignalAddsFeedback
<1>5. CASE SignalPauses \/ PauseWriteFails \/ SignalResumes \/ SignalRedirects \/ PauseTimesOut
  BY <1>0, <1>1, <1>5 DEF SignalPauses, PauseWriteFails, SignalResumes, SignalRedirects,
     PauseTimesOut, AfterPause
<1>6. CASE StartVerify \/ VerifyPasses \/ GoalSyncFails \/ VerifyFails
  BY <1>0, <1>1, <1>6 DEF StartVerify, VerifyPasses, GoalSyncFails, VerifyFails
<1>7. CASE BarrierFails \/ Finish
  BY <1>0, <1>1, <1>7 DEF BarrierFails, Finish
<1> QED BY <1>2, <1>3, <1>4, <1>5, <1>6, <1>7, <1>8 DEF InRun, TakeSignal

\* What was done before a run stays done for it.
LEMMA InheritedInRun ==
  ASSUME OneCaller, Alone, InRun
  PROVE  Inherited'
<1>0. /\ DoneIn(disk) \subseteq DoneIn(mem) /\ Typed /\ mem \in LoopState
      /\ pc \in {"active", "paused"} => idx \in Actions /\ idx \notin DoneIn(mem)
      /\ pc # "idle" /\ pc # "cleanup" /\ \A c \in Callers : stage'[c] = "run"
  BY InRunAlone DEF Alone, Inherited, Progress, Typed, TypeOK, AtAction
<1> USE DEF Goto, Consume, files, history
<1>1. CASE Preflight \/ StartVerify
  BY <1>0, <1>1 DEF Preflight, StartVerify, Inherited
<1>2. CASE PreflightFails \/ ActionTimesOut \/ PauseTimesOut \/ BarrierFails \/ SignalStops
  BY <1>0, <1>2 DEF PreflightFails, ActionTimesOut, PauseTimesOut, BarrierFails, SignalStops,
                    EndWithError, Inherited
<1>3. CASE ReadSignal \/ SignalIgnored \/ SignalAddsFeedback
  BY <1>0, <1>3 DEF ReadSignal, SignalIgnored, SignalAddsFeedback, Inherited, Alone
<1>4. CASE SignalPauses \/ SignalResumes
  BY <1>0, <1>4 DEF SignalPauses, SignalResumes, Save, Inherited
<1>5. CASE VerifyPasses \/ GoalSyncFails \/ VerifyFails
  <2>1. PICK n : mem' = [mem EXCEPT !.failures = n]
    BY <1>5 DEF VerifyPasses, GoalSyncFails, VerifyFails
  <2>2. DoneIn(mem') = DoneIn(mem)
    BY <1>0, <2>1 DEF DoneIn, LoopState
  <2> QED BY <1>0, <1>5, <2>2 DEF VerifyPasses, GoalSyncFails, VerifyFails, EndWithError, Inherited
<1>6. CASE Dispatch
  <2>1. DoneIn(mem') = DoneIn(mem) /\ idx \notin DoneIn(mem)
    BY <1>0, <1>6 DEF Dispatch, DoneIn, LoopState
  <2> QED BY <1>0, <1>6, <2>1 DEF Dispatch, Inherited
<1>7. CASE SkipAction
  <2>1. idx \in Actions /\ disk' = disk
    BY <1>7 DEF SkipAction
  <2>2. CASE idx \in DoneIn(mem) /\ Record("skipped", "done")
    BY <1>0, <2>1, <2>2, RecordDone DEF Inherited, Results, DispatchStatus
  <2>3. CASE idx \notin DoneIn(mem) /\ Record("skipped", "skipped")
    BY <1>0, <2>1, <2>3, RecordDone DEF Inherited, Results, DispatchStatus
  <2> QED BY <1>7, <2>1, <2>2, <2>3 DEF SkipAction, DoneIn
<1>8. CASE ActionCommits \/ ActionFails \/ PauseWriteFails \/ SignalRedirects
  <2>1. pc \in {"active", "paused"} /\ disk' \in {disk, mem}
    BY <1>8 DEF ActionCommits, ActionFails, PauseWriteFails, SignalRedirects, Checkpoint, Save
  <2>2. \E r \in Results, d \in DispatchStatus : Record(r, d)
    BY <1>8 DEF ActionCommits, ActionFails, PauseWriteFails, SignalRedirects, Results,
                DispatchStatus
  <2>3. DoneIn(mem) \subseteq DoneIn(mem') /\ pc' = "select"
    BY <1>0, <2>1, <2>2, RecordDone
  <2> QED BY <1>0, <2>1, <2>3 DEF Inherited
<1>9. CASE Finish
  BY <1>0, <1>9 DEF Finish, Inherited
<1> QED BY <1>1, <1>2, <1>3, <1>4, <1>5, <1>6, <1>7, <1>8, <1>9 DEF InRun, TakeSignal

\* Done means committed: an action leaves "committed" only to be dispatched,
\* and then nothing records it as done.
LEMMA CommittedInRun ==
  ASSUME OneCaller, Alone, InRun
  PROVE  DoneCommitted'
<1>0. /\ ~lostWrite => DoneIn(disk) \subseteq committed /\ DoneIn(mem) \subseteq committed
      /\ DoneIn(disk) \subseteq DoneIn(mem) /\ Typed /\ mem \in LoopState
      /\ pc \in {"active", "paused"} => idx \in Actions /\ idx \notin DoneIn(mem)
      /\ \A c \in Callers : stage'[c] = "run"
  BY InRunAlone DEF Alone, Inherited, DoneCommitted, Progress, Typed, TypeOK, AtAction
<1> USE DEF Goto, Consume, files, history, DoneCommitted
<1>1. CASE Preflight \/ StartVerify
  BY <1>0, <1>1 DEF Preflight, StartVerify
<1>2. CASE PreflightFails \/ ActionTimesOut \/ PauseTimesOut \/ BarrierFails \/ SignalStops
  BY <1>0, <1>2 DEF PreflightFails, ActionTimesOut, PauseTimesOut, BarrierFails, SignalStops
<1>3. CASE ReadSignal \/ SignalIgnored \/ SignalAddsFeedback
  BY <1>0, <1>3 DEF ReadSignal, SignalIgnored, SignalAddsFeedback
<1>4. CASE SignalPauses \/ SignalResumes
  BY <1>0, <1>4 DEF SignalPauses, SignalResumes, Save
<1>5. CASE VerifyPasses \/ GoalSyncFails \/ VerifyFails
  <2>1. PICK n : mem' = [mem EXCEPT !.failures = n]
    BY <1>5 DEF VerifyPasses, GoalSyncFails, VerifyFails
  <2>2. DoneIn(mem') = DoneIn(mem)
    BY <1>0, <2>1 DEF DoneIn, LoopState
  <2> QED BY <1>0, <1>5, <2>2 DEF VerifyPasses, GoalSyncFails, VerifyFails
<1>6. CASE Dispatch
  <2>1. DoneIn(mem') = DoneIn(mem) /\ idx \notin DoneIn(mem)
    BY <1>0, <1>6 DEF Dispatch, DoneIn, LoopState
  <2> QED BY <1>0, <1>6, <2>1 DEF Dispatch
<1>7. CASE SkipAction
  <2>1. idx \in Actions /\ UNCHANGED <<disk, committed, lostWrite>>
    BY <1>7 DEF SkipAction
  <2>2. CASE idx \in DoneIn(mem) /\ Record("skipped", "done")
    BY <1>0, <2>1, <2>2, RecordDone DEF Results, DispatchStatus
  <2>3. CASE idx \notin DoneIn(mem) /\ Record("skipped", "skipped")
    BY <1>0, <2>1, <2>3, RecordDone DEF Results, DispatchStatus
  <2> QED BY <1>7, <2>1, <2>2, <2>3 DEF SkipAction, DoneIn
<1>8. CASE ActionCommits
  <2>1. pc = "active" /\ Save(mem) /\ committed' = committed \cup {idx}
    BY <1>8 DEF ActionCommits, Checkpoint
  <2>2. DoneIn(mem') = DoneIn(mem) \cup {idx}
    BY <1>0, <1>8, <2>1, RecordDone DEF ActionCommits, Results, DispatchStatus
  <2> QED BY <1>0, <2>1, <2>2 DEF Save
<1>9. CASE ActionFails \/ PauseWriteFails \/ SignalRedirects
  <2>1. /\ pc \in {"active", "paused"} /\ committed' = committed
        /\ Save(mem) \/ UNCHANGED <<disk, lostWrite>>
    BY <1>9 DEF ActionFails, PauseWriteFails, SignalRedirects
  <2>2. \E r \in Results, d \in DispatchStatus \ {"done"} : Record(r, d)
    BY <1>9 DEF ActionFails, PauseWriteFails, SignalRedirects, Results, DispatchStatus
  <2>3. DoneIn(mem') \subseteq DoneIn(mem)
    BY <1>0, <2>1, <2>2, RecordDone
  <2> QED BY <1>0, <2>1, <2>3 DEF Save
<1>10. CASE Finish
  BY <1>0, <1>10, DoneAfter DEF Finish, Save
<1> QED
  BY <1>1, <1>2, <1>3, <1>4, <1>5, <1>6, <1>7, <1>8, <1>9, <1>10 DEF InRun, TakeSignal

\* A run passes on results that are commits and justified skips only.
LEMMA EarnedInRun ==
  ASSUME OneCaller, Alone, InRun
  PROVE  ResultsEarned'
<1>0. /\ \A a \in Actions \ Reports : results[a] = "skipped" => a \in DoneIn(mem)
      /\ Typed /\ mem \in LoopState /\ results \in [Actions -> Results]
      /\ pc \in {"active", "paused"} => idx \in Actions /\ idx \notin DoneIn(mem)
  BY InRunAlone DEF Alone, Inherited, ResultsEarned, Progress, Typed, TypeOK, AtAction
<1> USE DEF Goto, ResultsEarned
<1>1. CASE Preflight \/ StartVerify
  BY <1>0, <1>1 DEF Preflight, StartVerify
<1>2. CASE PreflightFails \/ ActionTimesOut \/ PauseTimesOut \/ BarrierFails \/ SignalStops
  BY <1>0, <1>2 DEF PreflightFails, ActionTimesOut, PauseTimesOut, BarrierFails, SignalStops,
                    EndWithError
<1>3. CASE ReadSignal \/ SignalIgnored \/ SignalAddsFeedback
  BY <1>0, <1>3 DEF ReadSignal, SignalIgnored, SignalAddsFeedback, PollPlaces
<1>4. CASE SignalPauses \/ SignalResumes
  BY <1>0, <1>4 DEF SignalPauses, SignalResumes
<1>5. CASE VerifyPasses \/ GoalSyncFails \/ VerifyFails
  <2>1. PICK n : mem' = [mem EXCEPT !.failures = n]
    BY <1>5 DEF VerifyPasses, GoalSyncFails, VerifyFails
  <2>2. DoneIn(mem') = DoneIn(mem)
    BY <1>0, <2>1 DEF DoneIn, LoopState
  <2>3. CASE VerifyPasses
    <3>1. Aggregate = "pass"
      BY <2>3 DEF VerifyPasses, Verdicts
    <3>2. \A a \in Actions : results[a] \in {"committed", "skipped"}
      BY <3>1 DEF Aggregate
    <3> QED BY <1>0, <2>2, <2>3, <3>2 DEF VerifyPasses
  <2>4. CASE GoalSyncFails
    BY <1>0, <2>2, <2>4 DEF GoalSyncFails, EndWithError
  <2>5. CASE VerifyFails
    BY <1>0, <2>2, <2>5 DEF VerifyFails, EndWithError
  <2> QED BY <1>5, <2>3, <2>4, <2>5
<1>6. CASE Dispatch
  <2>1. DoneIn(mem') = DoneIn(mem)
    BY <1>0, <1>6 DEF Dispatch, DoneIn, LoopState
  <2> QED BY <1>0, <1>6, <2>1 DEF Dispatch
<1>7. CASE SkipAction
  <2>1. idx \in Actions
    BY <1>7 DEF SkipAction
  <2>2. CASE idx \in DoneIn(mem) /\ Record("skipped", "done")
    BY <1>0, <2>1, <2>2, RecordDone DEF Results, DispatchStatus
  <2>3. CASE idx \notin DoneIn(mem) /\ idx \in Reports /\ Record("skipped", "skipped")
    BY <1>0, <2>1, <2>3, RecordDone DEF Results, DispatchStatus
  <2> QED BY <1>7, <2>1, <2>2, <2>3 DEF SkipAction, DoneIn
<1>8. CASE ActionCommits \/ ActionFails \/ PauseWriteFails \/ SignalRedirects
  <2>1. pc \in {"active", "paused"}
    BY <1>8 DEF ActionCommits, ActionFails, PauseWriteFails, SignalRedirects
  <2>2. \E r \in Results \ {"skipped"}, d \in DispatchStatus : Record(r, d)
    BY <1>8 DEF ActionCommits, ActionFails, PauseWriteFails, SignalRedirects, Results,
                DispatchStatus
  <2>3. PICK r \in Results \ {"skipped"} :
          results' = [results EXCEPT ![idx] = r] /\ pc' = "select"
    BY <1>0, <2>1, <2>2, RecordDone
  <2>4. DoneIn(mem) \subseteq DoneIn(mem')
    BY <1>0, <2>1, <2>2, RecordDone
  <2> QED BY <1>0, <2>1, <2>3, <2>4
<1>9. CASE Finish
  BY <1>9 DEF Finish
<1> QED BY <1>1, <1>2, <1>3, <1>4, <1>5, <1>6, <1>7, <1>8, <1>9 DEF InRun, TakeSignal

\* Every step of the one caller, and a crash, keeps all of this.
LEMMA NextAlone == OneCaller /\ Alone /\ [Next]_vars => Alone'
<1> SUFFICES ASSUME OneCaller, Alone, [Next]_vars
             PROVE  /\ PauseFileTruthful' /\ PauseCleared' /\ Inherited'
                    /\ DoneCommitted' /\ ResultsEarned'
  BY NextProgress DEF Alone
<1>0. /\ Progress /\ Typed /\ Attended /\ Clean
      /\ stage \in [Callers -> Stages] /\ snap \in [Callers -> LoopState] /\ disk \in LoopState
  BY DEF Alone, Progress, Typed, TypeOK
<1> USE DEF Alone, PauseFileTruthful, PauseCleared, Inherited, DoneCommitted, ResultsEarned
<1>1. CASE InRun
  BY <1>1, PauseInRun, InheritedInRun, CommittedInRun, EarnedInRun
<1>2. ASSUME NEW c \in Callers, Prepare(c) PROVE Alone'
  <2>1. /\ pc = "idle" /\ pc' = "idle" /\ pause' = NoPause /\ UNCHANGED <<disk, mem, results>>
        /\ snap' = [snap EXCEPT ![c] = Rescued(disk)] /\ \A d \in Callers : d = c
        /\ UNCHANGED <<committed, lostWrite>>
    BY <1>0, <1>2, NobodyElse DEF Prepare, OneCaller, history
  <2>2. DoneIn(snap'[c]) = DoneIn(disk)
    BY <1>0, <2>1, DoneAfter
  <2> QED BY <1>2, <2>1, <2>2, NextProgress
<1>3. ASSUME NEW c \in Callers, DryRun(c) \/ Refused(c) PROVE Alone'
  <2>1. /\ pc = "idle" /\ pc' = "idle" /\ \A d \in Callers : d = c /\ stage'[d] = "out"
        /\ UNCHANGED <<mem, results, committed>>
    BY <1>0, <1>3, NobodyElse DEF DryRun, Refused, OneCaller, history
  <2>2. ~lostWrite' => ~lostWrite /\ DoneIn(disk') \subseteq committed
    <3>1. CASE DryRun(c)
      BY <1>0, <3>1, DoneAfter DEF DryRun
    <3>2. CASE Refused(c)
      BY <3>2 DEF Refused, files, history
    <3> QED BY <1>3, <3>1, <3>2
  <2> QED BY <1>3, <2>1, <2>2, NextProgress
<1>4. ASSUME NEW c \in Callers, Acquire(c) PROVE Alone'
  <2>1. /\ pc' = "begin" /\ mem' = snap[c] /\ \A d \in Callers : d = c /\ stage'[d] = "run"
        /\ UNCHANGED <<disk, pause, results, committed, lostWrite>> /\ stage[c] = "ready"
    BY <1>0, <1>4 DEF Acquire, OneCaller, files, history, Goto
  <2>2. results = NoResults
    BY <1>0, <1>4 DEF Acquire, Clean
  <2> QED BY <1>4, <2>1, <2>2, NextProgress DEF NoResults
<1>5. ASSUME NEW c \in Callers, Crash(c) \/ BarrierResumes(c) \/ Cleanup(c) PROVE Alone'
  <2>1. /\ pc' = "idle" /\ \A d \in Callers : d = c /\ stage'[d] # "ready"
        /\ results' = NoResults
    BY <1>0, <1>5 DEF Crash, BarrierResumes, Cleanup, Reset, OneCaller, NoResults
  <2>2. ~lostWrite' => ~lostWrite /\ DoneIn(disk') \subseteq committed'
    <3>1. CASE Crash(c)
      BY <3>1 DEF Crash, files, history
    <3>2. CASE BarrierResumes(c)
      BY <3>2, DoneAfter DEF BarrierResumes, Save
    <3>3. CASE Cleanup(c)
      BY <3>3, DoneAfter DEF Cleanup
    <3> QED BY <1>5, <3>1, <3>2, <3>3
  <2> QED BY <1>5, <2>1, <2>2, NextProgress DEF NoResults
<1>6. CASE UNCHANGED vars \/ \E s \in Signals : SendSignal(s)
  <2>1. UNCHANGED <<stage, snap, pc, idx, mem, results, status, disk, pause, committed, lostWrite>>
    BY <1>6 DEF vars, SendSignal, run, files, history
  <2> QED BY <2>1
<1> QED BY <1>1, <1>2, <1>3, <1>4, <1>5, <1>6 DEF Next, RunStep, InRun

\* Everything a single caller can rely on.
THEOREM RunAlone == ASSUME OneCaller PROVE Spec => []Alone
<1>1. Alone /\ [Next]_vars => Alone'
  BY NextAlone
<1> QED BY <1>1, InitAlone, PTL DEF Spec

\* With one caller the pause file is there during a pause only and names the
\* action at work, through crashes, kills and failed writes (write_pause_state,
\* clear_pause_state).
THEOREM PauseFileTells == ASSUME OneCaller PROVE Spec => []PauseFileTruthful
<1>1. Alone => PauseFileTruthful
  BY DEF Alone
<1> QED BY <1>1, RunAlone, PTL

\* With one caller nothing is dispatched that the file on disk records as
\* done, whichever writes of it were lost (start_new_run keeps those entries).
THEOREM CheckpointIsHonoured == ASSUME OneCaller PROVE Spec => []CheckpointHonoured
<1>1. Alone => CheckpointHonoured
  <2> SUFFICES ASSUME Alone, pc = "active" PROVE disk.dispatch[idx] # "done"
    BY DEF CheckpointHonoured
  <2>1. idx \in Actions /\ idx \notin DoneIn(disk)
    BY DEF Alone, Inherited, Progress, Typed, AtAction
  <2> QED BY <2>1 DEF DoneIn
<1> QED BY <1>1, RunAlone, PTL

\* With one caller a run that passes has every action it had to dispatch
\* committed, by itself or by a run it continues.
THEOREM PassIsCommitted == ASSUME OneCaller PROVE Spec => []PassMeansCommitted
<1>1. Alone => PassMeansCommitted
  <2> SUFFICES ASSUME Alone, pc = "finish", status = "pass", ~lostWrite,
                      NEW a \in Actions \ Reports
               PROVE  a \in committed
    BY DEF PassMeansCommitted
  <2>1. a \in DoneIn(mem)
    BY DEF Alone, ResultsEarned, Progress, MemoryDone, DoneIn
  <2> QED BY <2>1 DEF Alone, DoneCommitted
<1> QED BY <1>1, RunAlone, PTL

=============================================================================
