-------------------------- MODULE MCBackgroundState --------------------------
(* Small instances of BackgroundState and BackgroundLease for TLC. *)
EXTENDS BackgroundLease, TLC

\* The jobs, the sessions and the processes are interchangeable.
Symmetry == Permutations(Jobs) \cup Permutations(Sessions)

=============================================================================
