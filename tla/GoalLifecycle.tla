---------------------------- MODULE GoalLifecycle ----------------------------
(***************************************************************************)
(* What the goal operations promise of a goal's status, whatever the files *)
(* hold: a goal begins in the status its payload asks for, moves along the *)
(* transition matrix of goal_ops.rs, and ends by being cleared.  Two moves *)
(* are outside the matrix: resume also revives a failed or a completed     *)
(* goal, and a loop runner that has read a goal may write it back as it    *)
(* was.                                                                    *)
(***************************************************************************)
CONSTANTS Tasks

VARIABLES
  status,  \* the status of each task's goal, "none" without one
  held     \* the copy a runner may write back: {} or {[task, status]}

Matrix ==
  ({"running"} \X {"paused", "blocked", "review_pending", "completed", "failed"})
    \cup ({"paused", "blocked", "review_pending"} \X {"running", "failed"})

Revivals == {"failed", "completed"} \X {"running"}

Named == {"running", "paused", "blocked", "review_pending", "failed", "completed"}

Set(t, to) == status' = [status EXCEPT ![t] = to]

Init == status = [t \in Tasks |-> "none"] /\ held = {}

Begin(t) == status[t] = "none" /\ (\E s \in Named : Set(t, s)) /\ UNCHANGED held

Move(t) ==
  (\E s \in Named : <<status[t], s>> \in Matrix \cup Revivals /\ Set(t, s)) /\ UNCHANGED held

Clear(t) == Set(t, "none") /\ UNCHANGED held

Hold(t) ==
  /\ held = {} /\ status[t] # "none"
  /\ held' = {[task |-> t, status |-> status[t]]} /\ UNCHANGED status

Release == held' = {} /\ (UNCHANGED status \/ \E h \in held : Set(h.task, h.status))

Next == (\E t \in Tasks : Begin(t) \/ Move(t) \/ Clear(t) \/ Hold(t)) \/ Release

Spec == Init /\ [][Next]_<<status, held>>

=============================================================================
