----------------------------- MODULE SessionLease -----------------------------
(***************************************************************************)
(* What the background-job store promises about sessions: a session is     *)
(* leased to at most one job, a job holds at most one session, and a lease *)
(* leaves its holder only by the holder's own doing or after it has lapsed *)
(* because the holder stopped renewing it.                                 *)
(***************************************************************************)
CONSTANTS Jobs, Sessions, None

VARIABLES
  holder,   \* the job each session is leased to, or None
  lapsed    \* the jobs whose leases may be revoked

vars == <<holder, lapsed>>

Init ==
  /\ holder \in [Sessions -> Jobs \cup {None}]
  /\ lapsed \in SUBSET Jobs

\* Leases lapse as time passes.
Lapse ==
  /\ lapsed \subseteq lapsed'
  /\ UNCHANGED holder

\* One job acts: it may take one session, leave its own, and revoke lapsed
\* leases on the way.
Act(j) ==
  /\ \A s \in Sessions :
       /\ holder'[s] \in {holder[s], j, None}
       /\ holder[s] \notin {None, j} /\ holder'[s] # holder[s] => holder[s] \in lapsed
  /\ \A s, t \in Sessions : holder'[s] = j /\ holder'[t] = j => s = t
  /\ lapsed' \subseteq lapsed

Next == Lapse \/ \E j \in Jobs : Act(j)

Spec == Init /\ [][Next]_vars

=============================================================================
