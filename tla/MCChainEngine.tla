---------------------------- MODULE MCChainEngine ----------------------------
(* Instances of ChainEngine: a chain of four tasks in three rounds.  Task 2 *)
(* depends on task 1; both share a parallel group and a timeout group.      *)
(* Task 3 runs only if task 1 completed; task 4 of the last round is free.  *)
EXTENDS ChainEngine

MCDependsOn == <<{}, {1}, {}, {}>>

MCCondition ==
  <<None, None, [source |-> 1, statuses |-> {"completed", "failed"}], None>>

MCRound == <<1, 1, 2, 3>>

MCGroup == <<"g", "g", "g", None>>

MCTimeoutGroup == <<"x", "x", None, None>>

MCMaxSeconds == [x |-> 1]

MCMaxAttempts == <<2, 1, 0, 0>>

-----------------------------------------------------------------------------
(* The scheduler's loops on chains of their own.                            *)

\* Six tasks in two named groups and none; some wait, some run, some are done.
MCQueues ==
  {[eligible |-> {t \in 1..6 : status[t] = "pending"},
    running  |-> {t \in 1..6 : status[t] = "running"},
    group    |-> <<"g", "h", None, "g", "h", None>>, limit |-> limit] :
     status \in [1..6 -> {"pending", "running", "completed"}], limit \in 1..5}

\* Three tasks: their dependencies, listed in any order.
Listed ==
  {deps \in UNION {[1..n -> 1..3] : n \in 0..3} :
     \A i, j \in DOMAIN deps : deps[i] = deps[j] => i = j}

MCGraphs == [1..3 -> Listed]
=============================================================================
