----------------------------- MODULE StdioService -----------------------------
(***************************************************************************)
(* What the JSON-lines service promises its client: a request line is      *)
(* answered exactly once, no more than Limit accepted lines wait for their *)
(* answer, and the service ends of its own accord only when none waits.    *)
(***************************************************************************)
EXTENDS Naturals, FiniteSets

CONSTANTS Lines, Limit

VARIABLES
  open,     \* the accepted lines that wait for their answer
  answers,  \* how many answers each line has been given
  phase     \* serving, ended, or failed with an input or output error

vars == <<open, answers, phase>>

Init ==
  /\ open = {}
  /\ answers = [l \in Lines |-> 0]
  /\ phase = "serving"

Accept(l) ==
  /\ l \notin open /\ answers[l] = 0
  /\ Cardinality(open) < Limit
  /\ open' = open \cup {l}
  /\ UNCHANGED <<answers, phase>>

\* Answers come in any order, and a line may be answered as it comes.
Answer(l) ==
  /\ answers[l] = 0
  /\ answers' = [answers EXCEPT ![l] = 1]
  /\ open' = open \ {l}
  /\ UNCHANGED phase

End ==
  /\ open = {}
  /\ phase' = "ended"
  /\ UNCHANGED <<open, answers>>

Fail ==
  /\ phase' = "failed"
  /\ UNCHANGED <<open, answers>>

Next ==
  /\ phase = "serving"
  /\ \/ \E l \in Lines : Accept(l) \/ Answer(l)
     \/ End
     \/ Fail

Spec == Init /\ [][Next]_vars

=============================================================================
