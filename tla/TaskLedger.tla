------------------------------ MODULE TaskLedger ------------------------------
(***************************************************************************)
(* TASK_LEDGER.jsonl (core/core-state/src/task_ledger.rs): the append-only *)
(* log of a task, its periodic state checkpoints, its compaction, and the  *)
(* replay that turns it back into the state of the task.                   *)
(*                                                                         *)
(* Pure operators on one ledger, a sequence of transactions.  Only what    *)
(* replay and compaction look at is kept: goal_state rows carry the goal,  *)
(* evidence rows the verdict of the row, state_checkpoint rows the goal    *)
(* and the two evidence flags.  Every other type (goal_failed, task_...)   *)
(* is a note: replay skips it and compaction keeps it.  Timestamps, seq    *)
(* (the position in the file) and the hash chain, whose breaks only log a  *)
(* warning, are left out.                                                  *)
(***************************************************************************)
EXTENDS Naturals, Sequences, FiniteSets

CONSTANTS
  CheckpointInterval,  \* CHECKPOINT_INTERVAL: transactions between checkpoints
  MaxLines,            \* the 300 lines above which an append compacts
  NoGoal               \* no GOAL_STATE.json

ASSUME LedgerAssumption == CheckpointInterval \in Nat \ {0} /\ MaxLines \in Nat

\* An evidence row: success has success=true, unverified an exit code 0 but
\* success=false (its artifact was missing), failure neither.
RowKinds == {"success", "unverified", "failure"}

ImpliesSuccess(row) == row \in {"success", "unverified"}

GoalTx(g) == [type |-> "goal_state", goal |-> g]
EvidenceTx(row) == [type |-> "evidence", row |-> row]
NoteTx(label) == [type |-> "note", label |-> label]
CheckpointTx(g, verified) ==
  [type |-> "state_checkpoint", goal |-> g, verified |-> verified]

\* Whether x is in a ledger or an index.
Has(l, x) == \E i \in DOMAIN l : l[i] = x

\* The rows of l at the positions S, in their order.
Rank(S, i) == Cardinality({k \in S : k <= i})

RowsAt(l, S) == [n \in 1..Cardinality(S) |-> l[CHOOSE i \in S : Rank(S, i) = n]]

\* The position of the last row of a type, 0 when there is none.
LastOf(l, type) ==
  CHOOSE i \in 0..Len(l) :
    /\ i # 0 => l[i].type = type
    /\ \A k \in (i+1)..Len(l) : l[k].type # type

-----------------------------------------------------------------------------
(* Compaction: of the snapshot types only the last row survives.           *)

SnapshotTypes == {"goal_state", "evidence"}

\* Fault: the first occurrence of each type is the one remembered.
FaultKept(l) ==
  {i \in DOMAIN l : l[i].type \in SnapshotTypes =>
     \A k \in 1..(i-1) : l[k].type # l[i].type}

\* The rows compaction keeps.
Kept(l) ==
  {i \in DOMAIN l : l[i].type \in SnapshotTypes =>
     \A k \in (i+1)..Len(l) : l[k].type # l[i].type}

Compacted(l) == RowsAt(l, Kept(l))

NeedsCompaction(l) == Len(l) > MaxLines /\ Kept(l) # DOMAIN l

-----------------------------------------------------------------------------
(* Append: write the row, then a checkpoint of the files as they are now   *)
(* when the position is a multiple of the interval, then compact the rows  *)
(* in memory, which do not hold that checkpoint.                           *)

AtCheckpoint(l) == Len(l) > 0 /\ Len(l) % CheckpointInterval = 0

Checkpointed(l, tx, checkpoint) ==
  IF AtCheckpoint(l) THEN Append(Append(l, tx), checkpoint) ELSE Append(l, tx)

Appended(l, tx, checkpoint) ==
  LET row == Append(l, tx) IN
  IF NeedsCompaction(row) THEN Compacted(row) ELSE Checkpointed(l, tx, checkpoint)

\* The ledgers an append leaves: complete, or stopped after one of its writes
\* by an error (logged and dropped) or by the end of the process.
AfterAppend(l, tx, checkpoint) ==
  {Append(l, tx), Checkpointed(l, tx, checkpoint), Appended(l, tx, checkpoint)}

-----------------------------------------------------------------------------
(* Replay (hydrate_task_state_hybrid) over the files: the last checkpoint  *)
(* replaces what the files say, the rows after it replace the checkpoint.  *)

HydratedGoal(l, file) ==
  LET checkpoint == LastOf(l, "state_checkpoint")
      snapshot   == LastOf(l, "goal_state")
  IN IF snapshot > checkpoint THEN l[snapshot].goal
     ELSE IF checkpoint > 0 /\ l[checkpoint].goal # NoGoal THEN l[checkpoint].goal
     ELSE file

HydratedVerified(l, indexVerified) ==
  LET checkpoint == LastOf(l, "state_checkpoint") IN
  \/ IF checkpoint > 0 THEN l[checkpoint].verified ELSE indexVerified
  \/ \E i \in (checkpoint+1)..Len(l) : l[i].type = "evidence" /\ ImpliesSuccess(l[i].row)

=============================================================================
