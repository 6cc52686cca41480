------------------------------- MODULE BatchRun -------------------------------
(***************************************************************************)
(* run_batch of rust_tools/batch-common: the batch runs of the document    *)
(* tools over one output directory.                                        *)
(*                                                                         *)
(* Worker threads process the input paths in any order and send each result*)
(* to a writer thread, which buffers a row of results.jsonl for it and     *)
(* marks it in the checkpoint it holds in memory.  When all senders are    *)
(* gone the writer flushes the rows, then saves the checkpoint, and the    *)
(* main thread joins it and writes the catalog.  A run may resume from the *)
(* files an earlier one left, which may have failed or been killed.        *)
(*                                                                         *)
(* What processing a path yields is a free choice of its status.  A path of*)
(* the input may be listed twice.                                          *)
(***************************************************************************)
EXTENDS Naturals, Sequences, FiniteSets

CONSTANTS
  Paths,       \* canonical paths
  Statuses,    \* the statuses processing may give: "ok", "error", "skipped"
  Inputs,      \* the manifests: how often each path is listed
  Cut,         \* what a write leaves that was cut short: it has no newline and does not parse
  Spoilt,      \* a line that a row was appended to
  MaxRuns,     \* bound: runs over the directory
  MaxFailures  \* bound: failed writes and killed processes

VARIABLES
  lines,       \* results.jsonl: rows, Cut and Spoilt lines
  checkpoint,  \* checkpoint.json, or Cut
  catalog,     \* the entries of catalog.json, or Cut
  phase,       \* where the run is, "idle" between runs
  run,         \* its options: [input, resume, failFast]
  pending,     \* how often each path is still to be processed
  channel,     \* results on their way to the writer
  buffer,      \* rows the writer has not flushed
  marked,      \* the checkpoint in memory
  results,     \* the rows the writer has kept
  stop,        \* fail_fast has seen an error
  outcome,     \* how the last run ended
  runs, failures

vars == <<lines, checkpoint, catalog, phase, run, pending, channel, buffer, marked,
          results, stop, outcome, runs, failures>>

files == <<lines, checkpoint, catalog>>

-----------------------------------------------------------------------------
(* Files.                                                                  *)

Row == [path: Paths, status: {"ok", "error", "skipped"}]

Checkpoint == [completed: SUBSET Paths, failed: SUBSET Paths, skipped: SUBSET Paths]

ASSUME BatchAssumption ==
  /\ IsFiniteSet(Paths)
  /\ Statuses \subseteq {"ok", "error", "skipped"}
  /\ Inputs \subseteq [Paths -> Nat]
  /\ Cut # Spoilt /\ Cut \notin Row /\ Spoilt \notin Row /\ Cut \notin Checkpoint
  /\ MaxRuns \in Nat /\ MaxFailures \in Nat

EmptyCheckpoint == [completed |-> {}, failed |-> {}, skipped |-> {}]

IsDone(cp, p) == p \in cp.completed \cup cp.failed \cup cp.skipped

\* Fault: a path stays in the list of its earlier status.
FaultMark(cp, row) ==
  [cp EXCEPT !.completed = IF row.status = "ok" THEN @ \cup {row.path} ELSE @,
             !.failed = IF row.status = "error" THEN @ \cup {row.path} ELSE @,
             !.skipped = IF row.status = "skipped" THEN @ \cup {row.path} ELSE @]

Mark(cp, row) ==
  LET In(status, list) ==
        IF row.status = status THEN list \cup {row.path} ELSE list \ {row.path}
  IN [completed |-> In("ok", cp.completed), failed |-> In("error", cp.failed),
      skipped |-> In("skipped", cp.skipped)]

\* The status a checkpoint records for a path it has.
StatusIn(cp, p) ==
  IF p \in cp.completed THEN "ok" ELSE IF p \in cp.failed THEN "error" ELSE "skipped"

\* The file is opened for append.  A row after a line that was cut, and so has
\* no newline, becomes part of that line and spoils it.
AppendRows(l, rows) ==
  IF rows # <<>> /\ l # <<>> /\ l[Len(l)] = Cut
  THEN [l EXCEPT ![Len(l)] = IF rows[1] = Cut THEN Cut ELSE Spoilt] \o Tail(rows)
  ELSE l \o rows

\* What reaches the file when the writing is cut short: some of the buffered
\* rows, the last of them or the one being written in part.  (A row that lacks
\* only its newline counts as cut.)
CutRows ==
  LET writing == channel # <<>> /\ ~stop IN
  {SubSeq(buffer, 1, n) : n \in 0..Len(buffer)}
    \cup {Append(SubSeq(buffer, 1, n), Cut) :
            n \in {k \in 0..Len(buffer) : k < Len(buffer) \/ writing}}

Readable(l) == \A i \in DOMAIN l : l[i] \in Row

RowsOf(l) == {l[i] : i \in DOMAIN l}

HasPath(l, p) == \E i \in DOMAIN l : l[i].path = p

\* The first row of each path that this run has no row of.
Earlier(rows, l) ==
  {l[i] : i \in {n \in DOMAIN l : /\ ~HasPath(rows, l[n].path)
                                  /\ \A k \in 1..(n-1) : l[k].path # l[n].path}}

\* Fault: the rows of earlier runs are not merged.
FaultEntries(rows, l, resume) == RowsOf(rows)

\* The entries of the catalog, as a set: the rows of this run and, when it
\* resumes, for each other path the first row of the file.
Entries(rows, l, resume) == RowsOf(rows) \cup (IF resume THEN Earlier(rows, l) ELSE {})

-----------------------------------------------------------------------------
(* A run.                                                                  *)

Init ==
  /\ lines = <<>> /\ checkpoint = EmptyCheckpoint /\ catalog = {}
  /\ phase = "idle" /\ outcome = "none"
  /\ run = [input |-> [p \in Paths |-> 0], resume |-> FALSE, failFast |-> FALSE]
  /\ pending = [p \in Paths |-> 0]
  /\ channel = <<>> /\ buffer = <<>> /\ results = <<>>
  /\ marked = EmptyCheckpoint /\ stop = FALSE
  /\ runs = 0 /\ failures = 0

\* The run ends; its memory is gone.
Return(how) ==
  /\ phase' = "idle" /\ outcome' = how
  /\ pending' = [p \in Paths |-> 0] /\ channel' = <<>> /\ buffer' = <<>>
  /\ marked' = EmptyCheckpoint /\ results' = <<>>

\* The run may end before anything is done: a path does not exist, or the
\* checkpoint to resume from does not parse.
Begin ==
  /\ phase = "idle" /\ runs < MaxRuns /\ runs' = runs + 1
  /\ \E input \in Inputs, resume, failFast \in BOOLEAN :
       /\ run' = [input |-> input, resume |-> resume, failFast |-> failFast]
       /\ \/ Return("error")
          \/ LET start == IF resume THEN checkpoint ELSE EmptyCheckpoint IN
             /\ start # Cut
             /\ phase' = "working" /\ outcome' = "none"
             /\ marked' = start /\ UNCHANGED <<channel, buffer, results>>
             /\ pending' = [p \in Paths |-> IF resume /\ IsDone(start, p) THEN 0 ELSE input[p]]
  /\ stop' = FALSE
  /\ UNCHANGED <<files, failures>>

\* A worker processes a path and sends the result; with the writer gone the
\* send fails, which is ignored.
Process ==
  /\ phase \in {"working", "writer failed"}
  /\ \E p \in Paths, status \in Statuses :
       /\ pending[p] > 0 /\ pending' = [pending EXCEPT ![p] = @ - 1]
       /\ channel' = IF phase = "working"
                     THEN Append(channel, [path |-> p, status |-> status]) ELSE channel
  /\ UNCHANGED <<files, phase, run, buffer, marked, results, stop, outcome, runs, failures>>

\* The writer keeps a result; after an error of a fail_fast run it drops them.
Receive ==
  /\ phase = "working" /\ channel # <<>> /\ channel' = Tail(channel)
  /\ IF stop THEN UNCHANGED <<buffer, marked, results, stop>>
     ELSE /\ buffer' = Append(buffer, Head(channel))
          /\ marked' = Mark(marked, Head(channel))
          /\ results' = Append(results, Head(channel))
          /\ stop' = (run.failFast /\ Head(channel).status = "error")
  /\ UNCHANGED <<files, phase, run, pending, outcome, runs, failures>>

\* Fault: the main thread keeps its sender.
FaultClosed == FALSE

\* All senders are gone and the channel is empty.
Closed == (\A p \in Paths : pending[p] = 0) /\ channel = <<>>

Flush ==
  /\ phase = "working" /\ Closed
  /\ lines' = AppendRows(lines, buffer) /\ buffer' = <<>>
  /\ phase' = "flushed"
  /\ UNCHANGED <<checkpoint, catalog, run, pending, channel, marked, results, stop,
                 outcome, runs, failures>>

\* Fault: the checkpoint is saved before the rows are flushed.
FaultCreateCheckpoint ==
  /\ phase = "working" /\ Closed /\ phase' = "saving" /\ checkpoint' = Cut
  /\ UNCHANGED <<lines, catalog, run, pending, channel, buffer, marked, results, stop,
                 outcome, runs, failures>>

\* save_checkpoint: File::create empties the file, then it is written.
CreateCheckpoint ==
  /\ phase = "flushed" /\ phase' = "saving" /\ checkpoint' = Cut
  /\ UNCHANGED <<lines, catalog, run, pending, channel, buffer, marked, results, stop,
                 outcome, runs, failures>>

SaveCheckpoint ==
  /\ phase = "saving" /\ phase' = "saved" /\ checkpoint' = marked
  /\ UNCHANGED <<lines, catalog, run, pending, channel, buffer, marked, results, stop,
                 outcome, runs, failures>>

\* A resumed run reads results.jsonl: a line that does not parse ends it.
CannotMerge ==
  /\ phase = "saved" /\ run.resume /\ ~Readable(lines)
  /\ Return("error")
  /\ UNCHANGED <<files, run, stop, runs, failures>>

CreateCatalog ==
  /\ phase = "saved" /\ (run.resume => Readable(lines))
  /\ phase' = "cataloging" /\ catalog' = Cut
  /\ UNCHANGED <<lines, checkpoint, run, pending, channel, buffer, marked, results, stop,
                 outcome, runs, failures>>

WriteCatalog ==
  /\ phase = "cataloging" /\ Return("ok")
  /\ catalog' = Entries(results, lines, run.resume)
  /\ UNCHANGED <<lines, checkpoint, run, stop, runs, failures>>

-----------------------------------------------------------------------------
(* Failures.                                                               *)

Failure == failures < MaxFailures /\ failures' = failures + 1

\* A write or the flush of a row fails: the writer ends, the workers go on.
WriterFails ==
  /\ Failure /\ phase = "working" /\ phase' = "writer failed"
  /\ \E rows \in CutRows : lines' = AppendRows(lines, rows)
  /\ buffer' = <<>> /\ channel' = <<>>
  /\ UNCHANGED <<checkpoint, catalog, run, pending, marked, results, stop, outcome, runs>>

JoinFailed ==
  /\ phase = "writer failed" /\ Closed /\ Return("error")
  /\ UNCHANGED <<files, run, stop, runs, failures>>

\* A write of the checkpoint or the catalog fails.
SaveFails ==
  /\ Failure /\ phase \in {"flushed", "saving", "saved", "cataloging"}
  /\ Return("error")
  /\ UNCHANGED <<files, run, stop, runs>>

\* The process is killed: of the rows in the buffer a first part may have been
\* written already, when the buffer was full or during the flush.
Kill ==
  /\ Failure /\ phase # "idle" /\ Return("killed")
  /\ \E rows \in CutRows : lines' = AppendRows(lines, rows)
  /\ UNCHANGED <<checkpoint, catalog, run, stop, runs>>

-----------------------------------------------------------------------------

RunStep ==
  \/ Process \/ Receive \/ Flush \/ CreateCheckpoint \/ SaveCheckpoint
  \/ CannotMerge \/ CreateCatalog \/ WriteCatalog \/ JoinFailed

Next == Begin \/ RunStep \/ WriterFails \/ SaveFails \/ Kill

\* The threads of a run are scheduled; runs and failures need not happen.
Spec == Init /\ [][Next]_vars /\ WF_vars(RunStep)

-----------------------------------------------------------------------------
(* Properties.                                                             *)

Lists(cp) ==
  /\ cp.completed \cap cp.failed = {} /\ cp.completed \cap cp.skipped = {}
  /\ cp.failed \cap cp.skipped = {}

\* The variables have their types; a path is in one list of a checkpoint.
TypeOK ==
  /\ lines \in Seq(Row \cup {Cut, Spoilt})
  /\ checkpoint # Cut => checkpoint \in Checkpoint /\ Lists(checkpoint)
  /\ marked \in Checkpoint /\ Lists(marked)
  /\ catalog # Cut => catalog \subseteq Row
  /\ phase \in {"idle", "working", "flushed", "saving", "saved", "cataloging", "writer failed"}
  /\ run \in [input: [Paths -> Nat], resume: BOOLEAN, failFast: BOOLEAN]
  /\ pending \in [Paths -> Nat]
  /\ channel \in Seq(Row) /\ buffer \in Seq(Row) /\ results \in Seq(Row)
  /\ stop \in BOOLEAN /\ outcome \in {"none", "ok", "error", "killed"}

Occurs(l, p, status) == \E i \in DOMAIN l : l[i] = [path |-> p, status |-> status]

\* The rows are flushed before the checkpoint that promises them is written, so
\* a path recorded as done has its row in results.jsonl: whatever the failures,
\* a recorded result is missing only where a row was appended to a cut line,
\* and each such line costs one result.
DoneHasRow ==
  checkpoint # Cut =>
    Cardinality({p \in Paths : IsDone(checkpoint, p)
                                 /\ ~Occurs(lines, p, StatusIn(checkpoint, p))})
      <= Cardinality({i \in DOMAIN lines : lines[i] = Spoilt})

\* A run that succeeds, and was not stopped by fail_fast, has every path of its
\* input in the catalog, whichever earlier runs processed it and however they
\* ended.
CatalogCoversInput ==
  phase = "idle" /\ outcome = "ok" /\ ~stop =>
    \A p \in Paths : run.input[p] > 0 => \E entry \in catalog : entry.path = p

\* Every run returns: the writer sees the end of the channel, and workers do
\* not wait for a writer that has failed.
RunReturns == phase # "idle" ~> phase = "idle"

=============================================================================
