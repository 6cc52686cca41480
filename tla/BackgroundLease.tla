--------------------------- MODULE BackgroundLease ---------------------------
(***************************************************************************)
(* BackgroundState implements SessionLease: the holder of a session is the *)
(* active job working in it, and the lapsed jobs are those whose heartbeat *)
(* is older than the reaper's cutoff.                                      *)
(***************************************************************************)
EXTENDS BackgroundState

Holder ==
  [s \in Sessions |->
    IF ActiveIn(disk, s) = {} THEN None ELSE CHOOSE j \in Jobs : j \in ActiveIn(disk, s)]

Lease == INSTANCE SessionLease
           WITH holder <- Holder, lapsed <- {j \in Jobs : StaleActive(disk, j)}

\* Every call of every process, with its reaps, takeovers and failed writes,
\* is a step of the lease: no live job's session is given away.
LeaseSpec == Lease!Spec

=============================================================================
