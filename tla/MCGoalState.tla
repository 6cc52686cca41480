----------------------------- MODULE MCGoalState -----------------------------
(* Small instances of GoalState: payloads that start a light goal, a       *)
(* driving one, and one that claims to be completed; amendments that raise *)
(* a goal to driving, hollow out its contract or gate its completion.      *)
EXTENDS GoalState, TLC

Payload(status, drive, contract, gated) ==
  [status |-> status, drive |-> drive, evidence |-> FALSE, contract |-> contract, gated |-> gated]

MCStarts ==
  {Payload("running", TRUE, TRUE, TRUE), Payload("running", FALSE, FALSE, FALSE),
   Payload("completed", FALSE, TRUE, FALSE)}

MCAmends ==
  {[drive |-> "on", contract |-> "keep", gated |-> "keep", keepProgress |-> TRUE],
   [drive |-> "keep", contract |-> "off", gated |-> "off", keepProgress |-> FALSE]}

Symmetry == Permutations(Tasks) \cup Permutations(Sessions)
=============================================================================
