------------------------------ MODULE MCBatchRun ------------------------------
(* Small instances of BatchRun: manifests that list both paths, one path, or *)
(* one path twice.                                                           *)
EXTENDS BatchRun

MCInputs ==
  {[p \in Paths |-> 1]} \cup {[p \in Paths |-> IF p = one THEN n ELSE 0] : one \in Paths, n \in 1..2}
=============================================================================
