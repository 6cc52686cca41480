---------------------------- MODULE BatchRunProofs ----------------------------
(***************************************************************************)
(* Proofs about BatchRun: its types, and that the catalog of a run that    *)
(* succeeds covers the run's input, for any number of paths, runs and      *)
(* failures.                                                               *)
(***************************************************************************)
EXTENDS BatchRun, SequenceTheorems, FiniteSetTheorems, FunctionTheorems, TLAPS

-----------------------------------------------------------------------------
(* Types.                                                                  *)

Line == Row \cup {Cut, Spoilt}

\* The statuses a worker may report are those of a row.
LEMMA StatusTyped ==
  ASSUME NEW p \in Paths, NEW status \in Statuses
  PROVE  [path |-> p, status |-> status] \in Row
BY BatchAssumption DEF Row

\* The empty checkpoint records nothing twice.
LEMMA EmptyTyped == EmptyCheckpoint \in Checkpoint /\ Lists(EmptyCheckpoint)
BY DEF EmptyCheckpoint, Checkpoint, Lists

\* Marking a row keeps a path in one list, and records exactly that path.
LEMMA MarkTyped ==
  ASSUME NEW cp \in Checkpoint, Lists(cp), NEW row \in Row
  PROVE  /\ Mark(cp, row) \in Checkpoint /\ Lists(Mark(cp, row))
         /\ \A p \in Paths : IsDone(Mark(cp, row), p) <=> IsDone(cp, p) \/ p = row.path
<1>1. row.path \in Paths /\ row.status \in {"ok", "error", "skipped"}
  BY DEF Row
<1>2. Mark(cp, row) \in Checkpoint
  BY <1>1 DEF Mark, Checkpoint
<1>3. Lists(Mark(cp, row))
  BY <1>1 DEF Mark, Lists
<1>4. \A p \in Paths : IsDone(Mark(cp, row), p) <=> IsDone(cp, p) \/ p = row.path
  BY <1>1 DEF Mark, IsDone
<1> QED BY <1>2, <1>3, <1>4

\* Rows are lines, of which some may be cut.
LEMMA RowsTyped ==
  ASSUME NEW rows \in Seq(Row)
  PROVE  rows \in Seq(Row \cup {Cut})
<1>1. Len(rows) \in Nat /\ \A i \in 1..Len(rows) : rows[i] \in Row \cup {Cut}
  OBVIOUS
<1>2. SubSeq(rows, 1, Len(rows)) \in Seq(Row \cup {Cut})
  BY <1>1, SubSeqProperties
<1> QED BY <1>2, SubSeqFull

\* What is left of a write that was cut short are rows, and a cut line.
LEMMA CutRowsTyped ==
  ASSUME buffer \in Seq(Row), NEW rows \in CutRows
  PROVE  rows \in Seq(Row \cup {Cut})
<1>1. \A n \in 0..Len(buffer) : SubSeq(buffer, 1, n) \in Seq(Row \cup {Cut})
  OBVIOUS
<1>2. CASE \E n \in 0..Len(buffer) : rows = SubSeq(buffer, 1, n)
  BY <1>1, <1>2
<1>3. CASE \E n \in 0..Len(buffer) : rows = Append(SubSeq(buffer, 1, n), Cut)
  BY <1>1, <1>3
<1> QED BY <1>2, <1>3 DEF CutRows

\* A file that ends in a cut line grows by all rows but the first, which turns
\* that line into a spoilt one, unless it is cut itself.
LEMMA AppendToCut ==
  ASSUME NEW l \in Seq(Line), NEW rows \in Seq(Row \cup {Cut}),
         rows # <<>>, l # <<>>, l[Len(l)] = Cut
  PROVE  LET m == AppendRows(l, rows) IN
         /\ m \in Seq(Line) /\ Len(m) = Len(l) + Len(rows) - 1
         /\ \A i \in 1..(Len(l) - 1) : m[i] = l[i]
         /\ m[Len(l)] = IF rows[1] = Cut THEN Cut ELSE Spoilt
         /\ \A i \in 2..Len(rows) : m[Len(l) + i - 1] = rows[i]
<1> DEFINE m == AppendRows(l, rows)
           x == IF rows[1] = Cut THEN Cut ELSE Spoilt
           k == [l EXCEPT ![Len(l)] = x]
<1>1. Len(l) \in 1..Len(l) /\ x \in Line /\ rows \in Seq(Line)
  BY DEF Line
<1>2. /\ k \in Seq(Line) /\ Len(k) = Len(l)
      /\ \A j \in 1..Len(l) : k[j] = IF j = Len(l) THEN x ELSE l[j]
  BY <1>1, ExceptSeq
<1>3. /\ Tail(rows) \in Seq(Line) /\ Len(Tail(rows)) = Len(rows) - 1
      /\ \A i \in 2..Len(rows) : Tail(rows)[i - 1] = rows[i]
  BY <1>1
<1>4. m = k \o Tail(rows)
  BY DEF AppendRows
<1> HIDE DEF k, m, x
<1>5. /\ k \o Tail(rows) \in Seq(Line)
      /\ Len(k \o Tail(rows)) = Len(k) + Len(Tail(rows))
      /\ \A i \in 1..Len(k) + Len(Tail(rows)) :
           (k \o Tail(rows))[i] = IF i <= Len(k) THEN k[i] ELSE Tail(rows)[i - Len(k)]
  <2>1. k \in Seq(Line) /\ Tail(rows) \in Seq(Line)
    BY <1>2, <1>3
  <2> QED BY <2>1, ConcatProperties
<1>6. Len(l) \in Nat \ {0} /\ Len(rows) \in Nat \ {0}
  OBVIOUS
<1>7. \A i \in 2..Len(rows) : m[Len(l) + i - 1] = Tail(rows)[i - 1]
  <2> TAKE i \in 2..Len(rows)
  <2> DEFINE n == Len(l) + i - 1
  <2>1. /\ n \in 1..Len(k) + Len(Tail(rows)) /\ ~(n <= Len(k)) /\ n - Len(k) = i - 1
    BY <1>2, <1>3, <1>6
  <2> HIDE DEF n
  <2>2. m[n] = Tail(rows)[n - Len(k)]
    BY <1>4, <1>5, <2>1
  <2> QED BY <2>1, <2>2 DEF n
<1>8. \A i \in 1..Len(l) : m[i] = k[i]
  BY <1>2, <1>3, <1>4, <1>5, <1>6
<1>9. m[Len(l)] = x /\ \A i \in 1..(Len(l) - 1) : m[i] = l[i]
  BY <1>2, <1>6, <1>8
<1>10. m \in Seq(Line) /\ Len(m) = Len(l) + Len(rows) - 1
  BY <1>2, <1>3, <1>4, <1>5, <1>6
<1> QED BY <1>3, <1>7, <1>9, <1>10 DEF m, x

\* Any other file grows by all the rows.
LEMMA AppendToRows ==
  ASSUME NEW l \in Seq(Line), NEW rows \in Seq(Row \cup {Cut}),
         ~(rows # <<>> /\ l # <<>> /\ l[Len(l)] = Cut)
  PROVE  LET m == AppendRows(l, rows) IN
         /\ m \in Seq(Line) /\ Len(m) = Len(l) + Len(rows)
         /\ \A i \in 1..Len(l) : m[i] = l[i]
         /\ \A i \in 1..Len(rows) : m[Len(l) + i] = rows[i]
<1>1. AppendRows(l, rows) = l \o rows /\ rows \in Seq(Line)
  BY DEF AppendRows, Line
<1>2. /\ l \o rows \in Seq(Line) /\ Len(l \o rows) = Len(l) + Len(rows)
      /\ \A i \in 1..Len(l) + Len(rows) :
           (l \o rows)[i] = IF i <= Len(l) THEN l[i] ELSE rows[i - Len(l)]
  BY <1>1, ConcatProperties
<1>3. \A i \in 1..Len(rows) : (l \o rows)[Len(l) + i] = rows[i]
  BY <1>1, <1>2
<1> QED BY <1>1, <1>2, <1>3

\* Appending keeps the file a sequence of lines.  Unless it spoils a line, the
\* lines that were there stay, and each row that is appended is in the file.
LEMMA Appending ==
  ASSUME NEW l \in Seq(Line), NEW rows \in Seq(Row \cup {Cut})
  PROVE  LET m == AppendRows(l, rows) IN
         /\ m \in Seq(Line)
         /\ (\A i \in DOMAIN m : m[i] # Spoilt) =>
              /\ \A i \in DOMAIN l : i \in DOMAIN m /\ m[i] = l[i]
              /\ \A i \in DOMAIN rows : rows[i] # Cut => \E n \in DOMAIN m : m[n] = rows[i]
<1> DEFINE m == AppendRows(l, rows)
<1>0. Len(l) \in Nat /\ Len(rows) \in Nat
  OBVIOUS
<1>1. CASE rows # <<>> /\ l # <<>> /\ l[Len(l)] = Cut
  <2>1. /\ m \in Seq(Line) /\ Len(m) = Len(l) + Len(rows) - 1
        /\ \A i \in 1..(Len(l) - 1) : m[i] = l[i]
        /\ m[Len(l)] = IF rows[1] = Cut THEN Cut ELSE Spoilt
        /\ \A i \in 2..Len(rows) : m[Len(l) + i - 1] = rows[i]
    BY <1>1, AppendToCut
  <2> HIDE DEF m
  <2>2. Len(l) > 0 /\ Len(rows) > 0
    BY <1>1
  <2>3. ASSUME \A i \in DOMAIN m : m[i] # Spoilt
        PROVE  /\ \A i \in DOMAIN l : i \in DOMAIN m /\ m[i] = l[i]
               /\ \A i \in DOMAIN rows : rows[i] # Cut => \E n \in DOMAIN m : m[n] = rows[i]
    <3>1. Len(l) \in DOMAIN m
      BY <2>1, <2>2
    <3>2. rows[1] = Cut /\ m[Len(l)] = Cut
      BY <2>1, <2>3, <3>1
    <3>3. \A i \in 1..Len(l) : i \in DOMAIN m /\ m[i] = l[i]
      BY <1>1, <2>1, <2>2, <3>2
    <3>4. \A i \in 2..Len(rows) : Len(l) + i - 1 \in DOMAIN m
      BY <2>1, <2>2
    <3>5. \A i \in DOMAIN rows : rows[i] # Cut => i \in 2..Len(rows)
      BY <3>2
    <3> QED BY <2>1, <3>3, <3>4, <3>5
  <2> QED BY <2>1, <2>3 DEF m
<1>2. CASE ~(rows # <<>> /\ l # <<>> /\ l[Len(l)] = Cut)
  <2>1. /\ m \in Seq(Line) /\ Len(m) = Len(l) + Len(rows)
        /\ \A i \in 1..Len(l) : m[i] = l[i]
        /\ \A i \in 1..Len(rows) : m[Len(l) + i] = rows[i]
    BY <1>2, AppendToRows
  <2> HIDE DEF m
  <2>2. DOMAIN m = 1..Len(m) /\ DOMAIN l = 1..Len(l) /\ DOMAIN rows = 1..Len(rows)
    BY <2>1
  <2>3. \A i \in DOMAIN rows : Len(l) + i \in DOMAIN m /\ m[Len(l) + i] = rows[i]
    BY <1>0, <2>1, <2>2
  <2>4. \A i \in DOMAIN l : i \in DOMAIN m /\ m[i] = l[i]
    BY <1>0, <2>1, <2>2
  <2> QED BY <2>1, <2>3, <2>4 DEF m
<1> QED BY <1>1, <1>2

\* The catalog is only written when every line it reads is a row.
MergeReadable == phase = "cataloging" /\ run.resume => Readable(lines)

Typed == TypeOK /\ MergeReadable

NothingPending == [p \in Paths |-> 0]

\* Between runs nothing is pending.
LEMMA NothingPendingTyped == NothingPending \in [Paths -> Nat]
BY DEF NothingPending

\* The end of a run is well typed.
LEMMA ReturnTyped ==
  ASSUME TypeOK, NEW how \in {"ok", "error", "killed"}, Return(how)
  PROVE  /\ phase' = "idle" /\ outcome' \in {"none", "ok", "error", "killed"}
         /\ pending' \in [Paths -> Nat] /\ channel' \in Seq(Row) /\ buffer' \in Seq(Row)
         /\ marked' \in Checkpoint /\ Lists(marked') /\ results' \in Seq(Row)
BY EmptyTyped, NothingPendingTyped DEF Return, NothingPending

\* The empty directory is well typed.
LEMMA InitTyped == Init => Typed
<1> SUFFICES ASSUME Init PROVE TypeOK
  BY DEF Init, Typed, MergeReadable
<1>1. run \in [input: [Paths -> Nat], resume: BOOLEAN, failFast: BOOLEAN]
      /\ pending \in [Paths -> Nat]
  BY NothingPendingTyped DEF Init, NothingPending
<1>2. lines \in Seq(Row \cup {Cut, Spoilt}) /\ catalog \subseteq Row
      /\ channel \in Seq(Row) /\ buffer \in Seq(Row) /\ results \in Seq(Row)
  BY DEF Init
<1> QED BY <1>1, <1>2, EmptyTyped DEF Init, TypeOK

\* What Begin starts a run with.
LEMMA BeginTyped == ASSUME TypeOK, Begin PROVE TypeOK'
<1> USE DEF TypeOK, files
<1>1. PICK input \in Inputs, resume \in BOOLEAN, failFast \in BOOLEAN :
        /\ run' = [input |-> input, resume |-> resume, failFast |-> failFast]
        /\ \/ Return("error")
           \/ LET start == IF resume THEN checkpoint ELSE EmptyCheckpoint IN
              /\ start # Cut
              /\ phase' = "working" /\ outcome' = "none"
              /\ marked' = start /\ UNCHANGED <<channel, buffer, results>>
              /\ pending' = [p \in Paths |-> IF resume /\ IsDone(start, p) THEN 0 ELSE input[p]]
  BY DEF Begin
<1>2. input \in [Paths -> Nat]
  BY BatchAssumption
<1>3. stop' = FALSE /\ UNCHANGED <<files, failures>>
  BY DEF Begin
<1>4. run' \in [input: [Paths -> Nat], resume: BOOLEAN, failFast: BOOLEAN]
  BY <1>1, <1>2
<1>5. CASE Return("error")
  BY <1>3, <1>4, <1>5, ReturnTyped
<1>6. CASE ~Return("error")
  <2> DEFINE start == IF resume THEN checkpoint ELSE EmptyCheckpoint
  <2>1. /\ start # Cut /\ phase' = "working" /\ outcome' = "none" /\ marked' = start
        /\ UNCHANGED <<channel, buffer, results>>
        /\ pending' = [p \in Paths |-> IF resume /\ IsDone(start, p) THEN 0 ELSE input[p]]
    BY <1>1, <1>6
  <2>2. start \in Checkpoint /\ Lists(start)
    BY <2>1, EmptyTyped
  <2> HIDE DEF start
  <2>3. pending' \in [Paths -> Nat]
    BY <1>2, <2>1
  <2> QED BY <1>3, <1>4, <2>1, <2>2, <2>3
<1> QED BY <1>5, <1>6

\* Each step of a run keeps the types.
LEMMA NextTyped == Typed /\ [Next]_vars => Typed'
<1> SUFFICES ASSUME Typed, [Next]_vars PROVE Typed'
  OBVIOUS
<1> USE DEF files
<1>0. TypeOK /\ MergeReadable
  BY DEF Typed
<1>1. CASE Begin
  <2>1. phase' # "cataloging"
    BY <1>1 DEF Begin, Return
  <2> QED BY <1>0, <1>1, <2>1, BeginTyped DEF Typed, MergeReadable
<1>2. CASE Process
  <2> USE DEF TypeOK
  <2>1. PICK p \in Paths, status \in Statuses :
          /\ pending[p] > 0 /\ pending' = [pending EXCEPT ![p] = @ - 1]
          /\ channel' = IF phase = "working"
                        THEN Append(channel, [path |-> p, status |-> status]) ELSE channel
    BY <1>2 DEF Process
  <2>2. channel' \in Seq(Row)
    <3>1. [path |-> p, status |-> status] \in Row
      BY StatusTyped
    <3>2. Append(channel, [path |-> p, status |-> status]) \in Seq(Row)
      BY <1>0, <3>1, AppendProperties
    <3> QED BY <1>0, <2>1, <3>2
  <2>3. pending' \in [Paths -> Nat]
    <3>1. pending[p] \in Nat /\ pending[p] > 0 /\ pending \in [Paths -> Nat]
      BY <1>0, <2>1
    <3> QED BY <2>1, <3>1
  <2> QED BY <1>0, <1>2, <2>2, <2>3 DEF Process, Typed, MergeReadable
<1>3. CASE Receive
  <2> USE DEF TypeOK
  <2>1. Head(channel) \in Row /\ channel' \in Seq(Row)
    BY <1>0, <1>3 DEF Receive
  <2>2. marked' \in Checkpoint /\ Lists(marked')
    BY <1>0, <1>3, <2>1, MarkTyped DEF Receive
  <2>3. buffer' \in Seq(Row) /\ results' \in Seq(Row)
    <3>1. /\ Append(buffer, Head(channel)) \in Seq(Row)
          /\ Append(results, Head(channel)) \in Seq(Row)
      BY <1>0, <2>1, AppendProperties
    <3> QED BY <1>0, <1>3, <3>1 DEF Receive
  <2>4. stop' \in BOOLEAN
    BY <1>0, <1>3 DEF Receive
  <2> QED BY <1>0, <1>3, <2>1, <2>2, <2>3, <2>4 DEF Receive, Typed, MergeReadable
<1>4. CASE Flush
  <2>1. buffer \in Seq(Row \cup {Cut})
    BY <1>0, RowsTyped DEF TypeOK
  <2>2. lines \in Seq(Line)
    BY <1>0 DEF TypeOK, Line
  <2>3. lines' \in Seq(Row \cup {Cut, Spoilt})
    BY <1>4, <2>1, <2>2, Appending DEF Flush, Line
  <2> QED BY <1>0, <1>4, <2>3 DEF Flush, Typed, TypeOK, MergeReadable
<1>5. CASE CreateCheckpoint \/ SaveCheckpoint \/ CreateCatalog
  BY <1>0, <1>5 DEF CreateCheckpoint, SaveCheckpoint, CreateCatalog, Typed, TypeOK, MergeReadable
<1>6. CASE CannotMerge \/ JoinFailed \/ SaveFails
  <2>1. Return("error") /\ UNCHANGED <<files, run, stop>>
    BY <1>6 DEF CannotMerge, JoinFailed, SaveFails
  <2> QED BY <1>0, <2>1, ReturnTyped DEF Typed, TypeOK, MergeReadable
<1>7. CASE WriteCatalog
  <2>1. Return("ok") /\ UNCHANGED <<lines, checkpoint, run, stop>>
    BY <1>7 DEF WriteCatalog
  <2>2. RowsOf(results) \subseteq Row
    <3>1. results \in Seq(Row)
      BY <1>0 DEF TypeOK
    <3> QED BY <3>1 DEF RowsOf
  <2>3. run.resume => Earlier(results, lines) \subseteq Row
    BY <1>0, <1>7 DEF WriteCatalog, MergeReadable, Readable, Earlier
  <2>4. catalog' \subseteq Row
    BY <1>7, <2>2, <2>3 DEF WriteCatalog, Entries
  <2> QED BY <1>0, <2>1, <2>4, ReturnTyped DEF Typed, TypeOK, MergeReadable
<1>8. CASE WriterFails \/ Kill
  <2>1. PICK rows \in CutRows : lines' = AppendRows(lines, rows)
    BY <1>8 DEF WriterFails, Kill
  <2>2. lines \in Seq(Line) /\ buffer \in Seq(Row)
    BY <1>0 DEF TypeOK, Line
  <2>3. lines' \in Seq(Row \cup {Cut, Spoilt})
    BY <2>1, <2>2, CutRowsTyped, Appending DEF Line
  <2>4. CASE WriterFails
    <3>1. /\ phase' = "writer failed" /\ buffer' = <<>> /\ channel' = <<>>
          /\ UNCHANGED <<checkpoint, catalog, run, pending, marked, results, stop, outcome>>
      BY <2>4 DEF WriterFails
    <3>2. buffer' \in Seq(Row) /\ channel' \in Seq(Row)
      <4>1. <<>> \in Seq(Row)
        OBVIOUS
      <4> QED BY <3>1, <4>1
    <3> QED BY <1>0, <2>3, <3>1, <3>2 DEF Typed, TypeOK, MergeReadable
  <2>5. CASE Kill
    BY <1>0, <2>3, <2>5, ReturnTyped DEF Kill, Typed, TypeOK, MergeReadable
  <2> QED BY <1>8, <2>4, <2>5
<1>9. CASE UNCHANGED vars
  BY <1>0, <1>9 DEF vars, Typed, TypeOK, MergeReadable, Readable
<1> QED
  BY <1>1, <1>2, <1>3, <1>4, <1>5, <1>6, <1>7, <1>8, <1>9 DEF Next, RunStep

\* Types: of the files whatever is cut short, and of the run's memory.
THEOREM BatchTypeCorrect == Spec => []TypeOK
<1>1. Typed => TypeOK
  BY DEF Typed
<1> QED BY <1>1, InitTyped, NextTyped, PTL DEF Spec

-----------------------------------------------------------------------------
(* The catalog covers the input.                                           *)

Unspoilt == \A i \in DOMAIN lines : lines[i] # Spoilt

RowIn(p) == \E i \in DOMAIN lines : lines[i] \in Row /\ lines[i].path = p

Ending == {"flushed", "saving", "saved", "cataloging"}

\* What the checkpoint file records has a row, as long as no line is spoilt.
CheckpointHasRows ==
  checkpoint # Cut /\ Unspoilt =>
    \A p \in Paths : IsDone(checkpoint, p) => RowIn(p)

\* Between runs nothing is in memory; until the flush the buffer holds every
\* result of the run, from then on the file does.
ResultsHeld ==
  /\ phase = "idle" => buffer = <<>> /\ results = <<>>
  /\ phase = "working" => buffer = results
  /\ phase \in Ending /\ Unspoilt => \A p \in Paths : HasPath(results, p) => RowIn(p)

\* What a run counts as done it has a result of, or found in the checkpoint.
DoneAccounted ==
  phase \in Ending \cup {"working"} =>
    \A p \in Paths : IsDone(marked, p) =>
      HasPath(results, p) \/ (run.resume /\ (Unspoilt => RowIn(p)))

\* A path of the input is to be processed, on its way, or done, unless
\* fail_fast has dropped it.
InputAccounted ==
  /\ phase = "working" /\ ~stop =>
       \A p \in Paths : run.input[p] > 0 =>
         pending[p] > 0 \/ HasPath(channel, p) \/ IsDone(marked, p)
  /\ phase \in Ending /\ ~stop =>
       \A p \in Paths : run.input[p] > 0 => IsDone(marked, p)

IInv ==
  Typed /\ CheckpointHasRows /\ ResultsHeld /\ DoneAccounted /\ InputAccounted
        /\ CatalogCoversInput

Above(S, i) == {k \in S : i <= k}

\* The further on a position is, the fewer are above it.
LEMMA AboveOrder ==
  ASSUME NEW S \in SUBSET Nat, IsFiniteSet(S), NEW i \in S, NEW j \in S, i < j
  PROVE  Cardinality(Above(S, i)) # Cardinality(Above(S, j))
<1>1. /\ Above(S, i) \in SUBSET S /\ Above(S, j) \in SUBSET Above(S, i)
      /\ i \in Above(S, i) /\ i \notin Above(S, j)
  <2>1. i \in Nat /\ j \in Nat /\ \A k \in S : k \in Nat
    OBVIOUS
  <2>2. i <= i /\ ~(j <= i) /\ \A k \in S : j <= k => i <= k
    BY <2>1
  <2> QED BY <2>2 DEF Above
<1>2. IsFiniteSet(Above(S, i))
  BY <1>1, FS_Subset
<1> QED BY <1>1, <1>2, FS_Subset

\* A finite set of positions has a first one: the numbers of positions above
\* each of them are pairwise different, so one of them is the size of the set.
LEMMA FirstPosition ==
  ASSUME NEW S \in SUBSET Nat, IsFiniteSet(S), S # {}
  PROVE  \E i \in S : \A k \in S : i <= k
<1> DEFINE n == Cardinality(S)
           f == [i \in S |-> Cardinality(Above(S, i))]
<1>1. n \in Nat /\ n # 0 /\ IsFiniteSet(1..n) /\ Cardinality(1..n) = n
  <2>1. n \in Nat /\ n # 0
    BY FS_CardinalityType, FS_EmptySet
  <2> QED BY <2>1, FS_Interval
<1>2. ASSUME NEW i \in S PROVE Cardinality(Above(S, i)) \in 1..n
  <2>1. Above(S, i) \in SUBSET S /\ i \in Above(S, i)
    BY DEF Above
  <2>2. IsFiniteSet(Above(S, i)) /\ Cardinality(Above(S, i)) <= n
    BY <2>1, FS_Subset
  <2>3. Cardinality(Above(S, i)) \in Nat /\ Cardinality(Above(S, i)) # 0
    BY <2>1, <2>2, FS_CardinalityType, FS_EmptySet
  <2> QED BY <1>1, <2>2, <2>3
<1>3. ASSUME NEW i \in S, NEW j \in S, f[i] = f[j] PROVE i = j
  <2>1. i \in Nat /\ j \in Nat
    OBVIOUS
  <2> QED BY <1>3, <2>1, AboveOrder
<1>4. f \in Injection(S, 1..n)
  BY <1>2, <1>3 DEF Injection, IsInjective
<1>5. f \in Surjection(S, 1..n)
  BY <1>1, <1>4, FS_Injection
<1>6. PICK i \in S : Cardinality(Above(S, i)) = n
  <2>1. n \in 1..n
    BY <1>1
  <2> QED BY <1>5, <2>1 DEF Surjection
<1>7. Above(S, i) \in SUBSET S
  BY DEF Above
<1>8. Above(S, i) = S
  BY <1>6, <1>7, FS_Subset
<1> QED BY <1>8 DEF Above

\* A path that the run has no result of enters the catalog from the file.
LEMMA EarlierCovers ==
  ASSUME NEW rows \in Seq(Row), NEW l \in Seq(Row), NEW i \in DOMAIN l
  PROVE  \/ HasPath(rows, l[i].path)
         \/ \E entry \in Earlier(rows, l) : entry.path = l[i].path
<1> DEFINE S == {k \in DOMAIN l : l[k].path = l[i].path}
<1>1. S \in SUBSET Nat /\ i \in S /\ IsFiniteSet(S)
  <2>1. IsFiniteSet(1..Len(l)) /\ S \in SUBSET (1..Len(l))
    BY FS_Interval
  <2> QED BY <2>1, FS_Subset
<1>2. PICK k \in S : \A n \in S : k <= n
  BY <1>1, FirstPosition
<1>3. k \in DOMAIN l /\ l[k].path = l[i].path
  BY <1>2
<1>4. \A n \in 1..(k-1) : l[n].path # l[k].path
  <2> SUFFICES ASSUME NEW n \in 1..(k-1), l[n].path = l[k].path PROVE FALSE
    OBVIOUS
  <2>1. k \in Nat /\ k <= Len(l) /\ n \in DOMAIN l
    BY <1>3
  <2>2. n \in S /\ n < k
    BY <1>3, <2>1
  <2> QED BY <1>2, <2>1, <2>2
<1> QED BY <1>3, <1>4 DEF Earlier

\* Writing rows keeps what the file had of each path, unless it spoils a line.
LEMMA AppendingKeeps ==
  ASSUME TypeOK, NEW rows \in Seq(Row \cup {Cut}), lines' = AppendRows(lines, rows), Unspoilt'
  PROVE  /\ Unspoilt /\ \A p \in Paths : RowIn(p) => RowIn(p)'
         /\ \A i \in DOMAIN rows : rows[i] \in Row => RowIn(rows[i].path)'
<1>1. lines \in Seq(Line)
  BY DEF TypeOK, Line
<1>2. /\ \A i \in DOMAIN lines : i \in DOMAIN lines' /\ lines'[i] = lines[i]
      /\ \A i \in DOMAIN rows : rows[i] # Cut => \E n \in DOMAIN lines' : lines'[n] = rows[i]
  BY <1>1, Appending DEF Unspoilt
<1>3. Unspoilt /\ \A p \in Paths : RowIn(p) => RowIn(p)'
  BY <1>2 DEF Unspoilt, RowIn
<1>4. \A i \in DOMAIN rows : rows[i] \in Row => RowIn(rows[i].path)'
  BY <1>2, BatchAssumption DEF RowIn
<1> QED BY <1>3, <1>4

\* Where the files and the marks of the run stay, so do the facts about them.
LEMMA SameLines ==
  ASSUME lines' = lines
  PROVE  (Unspoilt' <=> Unspoilt) /\ \A p \in Paths : RowIn(p)' <=> RowIn(p)
BY DEF Unspoilt, RowIn

\* An empty directory promises nothing.
LEMMA InitIInv == Init => IInv
<1> SUFFICES ASSUME Init PROVE IInv
  OBVIOUS
<1> QED
  BY InitTyped DEF Init, IInv, CheckpointHasRows, ResultsHeld, DoneAccounted,
     InputAccounted, CatalogCoversInput, Ending, EmptyCheckpoint, IsDone

\* A new run counts as done what the checkpoint says, if it resumes.
LEMMA BeginKeeps ==
  ASSUME IInv, Begin
  PROVE  CheckpointHasRows' /\ ResultsHeld' /\ DoneAccounted' /\ InputAccounted'
         /\ CatalogCoversInput'
<1> USE DEF files
<1>1. PICK input \in Inputs, resume \in BOOLEAN, failFast \in BOOLEAN :
        /\ run' = [input |-> input, resume |-> resume, failFast |-> failFast]
        /\ \/ Return("error")
           \/ LET start == IF resume THEN checkpoint ELSE EmptyCheckpoint IN
              /\ start # Cut
              /\ phase' = "working" /\ outcome' = "none"
              /\ marked' = start /\ UNCHANGED <<channel, buffer, results>>
              /\ pending' = [p \in Paths |-> IF resume /\ IsDone(start, p) THEN 0 ELSE input[p]]
  BY DEF Begin
<1>2. phase = "idle" /\ UNCHANGED <<lines, checkpoint, catalog>>
  BY DEF Begin
<1>3. CheckpointHasRows'
  BY <1>2, SameLines DEF IInv, CheckpointHasRows
<1>4. CASE Return("error")
  BY <1>3, <1>4 DEF Return, ResultsHeld, DoneAccounted, InputAccounted, CatalogCoversInput, Ending
<1>5. CASE ~Return("error")
  <2> DEFINE start == IF resume THEN checkpoint ELSE EmptyCheckpoint
  <2>1. /\ start # Cut /\ phase' = "working" /\ marked' = start
        /\ UNCHANGED <<channel, buffer, results>>
        /\ pending' = [p \in Paths |-> IF resume /\ IsDone(start, p) THEN 0 ELSE input[p]]
    BY <1>1, <1>5
  <2>2. run'.input = input /\ run'.resume = resume
    BY <1>1
  <2>3. ASSUME ~resume PROVE \A p \in Paths : ~IsDone(start, p)
    BY <2>3 DEF EmptyCheckpoint, IsDone
  <2>4. ASSUME resume, Unspoilt', NEW p \in Paths, IsDone(start, p) PROVE RowIn(p)'
    BY <1>2, <2>1, <2>4, SameLines DEF IInv, CheckpointHasRows
  <2>5. input \in [Paths -> Nat]
    BY BatchAssumption
  <2> HIDE DEF start
  <2>6. DoneAccounted'
    BY <2>1, <2>2, <2>3, <2>4 DEF DoneAccounted
  <2>7. InputAccounted'
    BY <2>1, <2>2, <2>3, <2>5 DEF InputAccounted, Ending
  <2>8. ResultsHeld'
    BY <1>2, <2>1 DEF IInv, ResultsHeld, Ending
  <2> QED BY <1>3, <2>1, <2>6, <2>7, <2>8 DEF CatalogCoversInput
<1> QED BY <1>4, <1>5

\* A result on its way replaces a pending path.
LEMMA ProcessKeeps ==
  ASSUME IInv, Process
  PROVE  CheckpointHasRows' /\ ResultsHeld' /\ DoneAccounted' /\ InputAccounted'
         /\ CatalogCoversInput'
<1> USE DEF files
<1>1. PICK p \in Paths, status \in Statuses :
        /\ pending[p] > 0 /\ pending' = [pending EXCEPT ![p] = @ - 1]
        /\ channel' = IF phase = "working"
                      THEN Append(channel, [path |-> p, status |-> status]) ELSE channel
  BY DEF Process
<1>2. /\ phase \in {"working", "writer failed"}
      /\ UNCHANGED <<lines, checkpoint, catalog, phase, run, buffer, marked, results, stop, outcome>>
  BY DEF Process
<1>3. pending \in [Paths -> Nat] /\ channel \in Seq(Row)
  BY DEF IInv, Typed, TypeOK
<1>4. ASSUME phase = "working", NEW q \in Paths,
             pending[q] > 0 \/ HasPath(channel, q)
      PROVE  pending'[q] > 0 \/ HasPath(channel', q)
  <2> DEFINE row == [path |-> p, status |-> status]
  <2>1. row \in Row /\ row.path = p
    BY StatusTyped
  <2>2. channel' = Append(channel, row)
    BY <1>1, <1>4
  <2> HIDE DEF row
  <2>3. /\ Len(channel') = Len(channel) + 1 /\ channel' \in Seq(Row)
        /\ channel'[Len(channel) + 1] = row
        /\ \A i \in 1..Len(channel) : channel'[i] = channel[i]
    BY <1>3, <2>1, <2>2, AppendProperties
  <2>4. CASE HasPath(channel, q)
    BY <1>3, <2>3, <2>4 DEF HasPath
  <2>5. CASE q = p
    BY <1>3, <2>1, <2>3, <2>5 DEF HasPath
  <2>6. CASE pending[q] > 0 /\ q # p
    BY <1>1, <1>3, <2>6
  <2> QED BY <1>4, <2>4, <2>5, <2>6
<1>5. InputAccounted'
  BY <1>2, <1>4 DEF IInv, InputAccounted, Ending
<1>6. CheckpointHasRows' /\ ResultsHeld' /\ DoneAccounted' /\ CatalogCoversInput'
  BY <1>2, SameLines DEF IInv, CheckpointHasRows, ResultsHeld, DoneAccounted,
                         CatalogCoversInput, Ending
<1> QED BY <1>5, <1>6

\* A result that is received is marked and kept, or dropped by fail_fast.
LEMMA ReceiveKeeps ==
  ASSUME IInv, Receive
  PROVE  CheckpointHasRows' /\ ResultsHeld' /\ DoneAccounted' /\ InputAccounted'
         /\ CatalogCoversInput'
<1> USE DEF files
<1>1. /\ phase = "working" /\ channel # <<>> /\ channel' = Tail(channel)
      /\ UNCHANGED <<lines, checkpoint, catalog, phase, run, pending, outcome>>
  BY DEF Receive
<1>2. /\ channel \in Seq(Row) /\ results \in Seq(Row) /\ buffer = results
      /\ marked \in Checkpoint /\ Lists(marked)
  BY <1>1 DEF IInv, Typed, TypeOK, ResultsHeld
<1>3. Head(channel) \in Row /\ Head(channel).path \in Paths /\ Head(channel) = channel[1]
  <2>1. Head(channel) \in Row /\ Head(channel) = channel[1]
    BY <1>1, <1>2, HeadTailProperties
  <2> QED BY <2>1 DEF Row
<1>4. \A i \in 2..Len(channel) : i - 1 \in DOMAIN channel' /\ channel'[i - 1] = channel[i]
  BY <1>1, <1>2
<1>5. \A p \in Paths : HasPath(channel, p) => HasPath(channel', p) \/ p = Head(channel).path
  <2> SUFFICES ASSUME NEW p \in Paths, NEW i \in DOMAIN channel, channel[i].path = p
               PROVE  HasPath(channel', p) \/ p = Head(channel).path
    BY DEF HasPath
  <2>1. i = 1 \/ i \in 2..Len(channel)
    BY <1>2
  <2> QED BY <1>3, <1>4, <2>1 DEF HasPath
<1>6. CASE stop
  <2>1. UNCHANGED <<buffer, marked, results, stop>>
    BY <1>6 DEF Receive
  <2> QED BY <1>1, <1>6, <2>1, SameLines
          DEF IInv, CheckpointHasRows, ResultsHeld, DoneAccounted, InputAccounted,
              CatalogCoversInput, Ending
<1>7. CASE ~stop
  <2> DEFINE row == Head(channel)
  <2>1. /\ buffer' = Append(buffer, row) /\ results' = Append(results, row)
        /\ marked' = Mark(marked, row)
    BY <1>7 DEF Receive
  <2>2. \A p \in Paths : IsDone(marked', p) <=> IsDone(marked, p) \/ p = row.path
    BY <1>2, <1>3, <2>1, MarkTyped
  <2> HIDE DEF row
  <2>3. \A p \in Paths : HasPath(results', p) <=> HasPath(results, p) \/ p = row.path
    <3>1. row \in Row
      BY <1>3 DEF row
    <3>2. /\ Len(results') = Len(results) + 1 /\ results' \in Seq(Row)
          /\ results'[Len(results) + 1] = row
          /\ \A i \in 1..Len(results) : results'[i] = results[i]
      BY <1>2, <2>1, <3>1, AppendProperties
    <3> QED BY <1>2, <3>2 DEF HasPath
  <2>4. DoneAccounted'
    BY <1>1, <2>2, <2>3, SameLines DEF IInv, DoneAccounted, Ending
  <2>5. InputAccounted'
    BY <1>1, <1>5, <1>7, <2>2 DEF IInv, InputAccounted, Ending, row
  <2>6. CheckpointHasRows' /\ ResultsHeld' /\ CatalogCoversInput'
    BY <1>1, <1>2, <2>1, SameLines
       DEF IInv, CheckpointHasRows, ResultsHeld, CatalogCoversInput, Ending
  <2> QED BY <2>4, <2>5, <2>6
<1> QED BY <1>6, <1>7

\* The flush puts every result of the run in the file.
LEMMA FlushKeeps ==
  ASSUME IInv, Flush
  PROVE  CheckpointHasRows' /\ ResultsHeld' /\ DoneAccounted' /\ InputAccounted'
         /\ CatalogCoversInput'
<1>1. /\ phase = "working" /\ Closed /\ phase' = "flushed"
      /\ lines' = AppendRows(lines, buffer) /\ buffer' = <<>>
      /\ UNCHANGED <<checkpoint, catalog, run, pending, channel, marked, results, stop, outcome>>
  BY DEF Flush
<1>2. results \in Seq(Row) /\ buffer = results /\ TypeOK
  BY <1>1 DEF IInv, Typed, TypeOK, ResultsHeld
<1>3. PICK rows \in Seq(Row \cup {Cut}) : rows = buffer
  BY <1>2, RowsTyped
<1>4. ASSUME Unspoilt'
      PROVE  /\ Unspoilt /\ \A p \in Paths : RowIn(p) => RowIn(p)'
             /\ \A i \in DOMAIN rows : rows[i] \in Row => RowIn(rows[i].path)'
  BY <1>1, <1>2, <1>3, <1>4, AppendingKeeps
<1>5. CheckpointHasRows' /\ DoneAccounted'
  BY <1>1, <1>4 DEF IInv, CheckpointHasRows, DoneAccounted, Ending
<1>6. ResultsHeld'
  <2> SUFFICES ASSUME Unspoilt', NEW p \in Paths, NEW i \in DOMAIN results, results[i].path = p
               PROVE  RowIn(p)'
    BY <1>1 DEF ResultsHeld, HasPath
  <2>1. i \in DOMAIN rows /\ rows[i] \in Row /\ rows[i].path = p
    BY <1>2, <1>3
  <2> QED BY <1>4, <2>1
<1>7. InputAccounted'
  <2>1. \A p \in Paths : ~(pending[p] > 0) /\ ~HasPath(channel, p)
    BY <1>1 DEF Closed, HasPath
  <2> QED BY <1>1, <2>1 DEF IInv, InputAccounted, Ending
<1> QED BY <1>1, <1>5, <1>6, <1>7 DEF CatalogCoversInput

\* The checkpoint is saved when the file has the rows of all it records.
LEMMA SaveKeeps ==
  ASSUME IInv, CreateCheckpoint \/ SaveCheckpoint \/ CreateCatalog
  PROVE  CheckpointHasRows' /\ ResultsHeld' /\ DoneAccounted' /\ InputAccounted'
         /\ CatalogCoversInput'
<1>1. /\ phase \in Ending /\ phase' \in Ending
      /\ UNCHANGED <<lines, run, pending, channel, buffer, marked, results, stop, outcome>>
  BY DEF CreateCheckpoint, SaveCheckpoint, CreateCatalog, Ending
<1>2. checkpoint' \in {Cut, marked, checkpoint}
  BY DEF CreateCheckpoint, SaveCheckpoint, CreateCatalog
<1>3. ASSUME Unspoilt, NEW p \in Paths, IsDone(marked, p) PROVE RowIn(p)
  BY <1>1, <1>3 DEF IInv, DoneAccounted, ResultsHeld
<1>4. CheckpointHasRows'
  BY <1>1, <1>2, <1>3, SameLines DEF IInv, CheckpointHasRows
<1> QED
  BY <1>1, <1>4, SameLines
     DEF IInv, ResultsHeld, DoneAccounted, InputAccounted, CatalogCoversInput, Ending

\* The catalog has the results of the run and of the file.
LEMMA WriteCatalogKeeps ==
  ASSUME IInv, WriteCatalog
  PROVE  CheckpointHasRows' /\ ResultsHeld' /\ DoneAccounted' /\ InputAccounted'
         /\ CatalogCoversInput'
<1>1. /\ phase = "cataloging" /\ Return("ok")
      /\ catalog' = Entries(results, lines, run.resume)
      /\ UNCHANGED <<lines, checkpoint, run, stop>>
  BY DEF WriteCatalog
<1>2. CheckpointHasRows' /\ ResultsHeld' /\ DoneAccounted' /\ InputAccounted'
  BY <1>1, SameLines
     DEF IInv, Return, CheckpointHasRows, ResultsHeld, DoneAccounted, InputAccounted, Ending
<1>3. ASSUME ~stop, NEW p \in Paths, run.input[p] > 0
      PROVE  \E entry \in catalog' : entry.path = p
  <2>1. IsDone(marked, p)
    BY <1>1, <1>3 DEF IInv, InputAccounted, Ending
  <2>2. HasPath(results, p) \/ (run.resume /\ (Unspoilt => RowIn(p)))
    BY <1>1, <2>1 DEF IInv, DoneAccounted, Ending
  <2>3. CASE HasPath(results, p)
    BY <1>1, <2>3 DEF Entries, RowsOf, HasPath
  <2>4. CASE run.resume /\ (Unspoilt => RowIn(p)) /\ ~HasPath(results, p)
    <3>1. Readable(lines)
      BY <1>1, <2>4 DEF IInv, Typed, MergeReadable
    <3>2. Unspoilt
      BY <3>1, BatchAssumption DEF Readable, Unspoilt
    <3>3. PICK i \in DOMAIN lines : lines[i].path = p
      BY <2>4, <3>2 DEF RowIn
    <3>4. lines \in Seq(Row) /\ results \in Seq(Row)
      <4>1. lines \in Seq(Line) /\ results \in Seq(Row)
        BY DEF IInv, Typed, TypeOK, Line
      <4>2. Len(lines) \in Nat /\ \A k \in 1..Len(lines) : lines[k] \in Row
        BY <3>1, <4>1 DEF Readable
      <4>3. SubSeq(lines, 1, Len(lines)) \in Seq(Row)
        BY <4>2, SubSeqProperties
      <4> QED BY <4>1, <4>3, SubSeqFull
    <3>5. \E entry \in Earlier(results, lines) : entry.path = p
      BY <2>4, <3>3, <3>4, EarlierCovers
    <3> QED BY <1>1, <2>4, <3>5 DEF Entries
  <2> QED BY <2>2, <2>3, <2>4
<1>4. CatalogCoversInput'
  BY <1>1, <1>3 DEF CatalogCoversInput
<1> QED BY <1>2, <1>4

\* A failure ends the run, or leaves a writer that marks nothing any more.
LEMMA FailureKeeps ==
  ASSUME IInv, CannotMerge \/ JoinFailed \/ SaveFails \/ WriterFails \/ Kill
  PROVE  CheckpointHasRows' /\ ResultsHeld' /\ DoneAccounted' /\ InputAccounted'
         /\ CatalogCoversInput'
<1> USE DEF files
<1>1. CASE CannotMerge \/ JoinFailed \/ SaveFails
  <2>1. Return("error") /\ UNCHANGED <<lines, checkpoint>>
    BY <1>1 DEF CannotMerge, JoinFailed, SaveFails
  <2> QED BY <2>1, SameLines
          DEF IInv, Return, CheckpointHasRows, ResultsHeld, DoneAccounted, InputAccounted,
              CatalogCoversInput, Ending
<1>2. CASE WriterFails \/ Kill
  <2>1. PICK rows \in CutRows : lines' = AppendRows(lines, rows)
    BY <1>2 DEF WriterFails, Kill
  <2>2. TypeOK /\ rows \in Seq(Row \cup {Cut}) /\ checkpoint' = checkpoint
    BY <1>2, CutRowsTyped DEF IInv, Typed, TypeOK, WriterFails, Kill
  <2>3. Unspoilt' => Unspoilt /\ \A p \in Paths : RowIn(p) => RowIn(p)'
    BY <2>1, <2>2, AppendingKeeps
  <2>4. CheckpointHasRows'
    BY <2>2, <2>3 DEF IInv, CheckpointHasRows
  <2>5. CASE WriterFails
    BY <2>4, <2>5 DEF WriterFails, ResultsHeld, DoneAccounted, InputAccounted,
                      CatalogCoversInput, Ending
  <2>6. CASE Kill
    BY <2>4, <2>6 DEF Kill, Return, ResultsHeld, DoneAccounted, InputAccounted,
                      CatalogCoversInput, Ending
  <2> QED BY <1>2, <2>5, <2>6
<1> QED BY <1>1, <1>2

\* Each step keeps the facts that account for every path of the input.
LEMMA NextIInv == IInv /\ [Next]_vars => IInv'
<1> SUFFICES ASSUME IInv, [Next]_vars
             PROVE  CheckpointHasRows' /\ ResultsHeld' /\ DoneAccounted' /\ InputAccounted'
                    /\ CatalogCoversInput'
  BY NextTyped DEF IInv
<1>1. CASE UNCHANGED vars
  BY <1>1, SameLines
     DEF vars, IInv, CheckpointHasRows, ResultsHeld, DoneAccounted, InputAccounted,
         CatalogCoversInput, Ending
<1>2. CASE Next
  BY <1>2, BeginKeeps, ProcessKeeps, ReceiveKeeps, FlushKeeps, SaveKeeps,
     WriteCatalogKeeps, FailureKeeps DEF Next, RunStep
<1> QED BY <1>1, <1>2

\* A run that succeeds has every path of its input in its catalog, for any
\* number of paths, of runs before it and of failures in them.
THEOREM CatalogCovers == Spec => []CatalogCoversInput
<1>1. IInv => CatalogCoversInput
  BY DEF IInv
<1> QED BY <1>1, InitIInv, NextIInv, PTL DEF Spec

-----------------------------------------------------------------------------
(* What the checkpoint records has its row.                                *)

RowStatuses == {"ok", "error", "skipped"}

\* The paths done in cp with no row of their status in l or in rows.
Missing(cp, l, rows) ==
  {p \in Paths : /\ IsDone(cp, p)
                 /\ ~Occurs(l, p, StatusIn(cp, p)) /\ ~Occurs(rows, p, StatusIn(cp, p))}

SpoiltLines(l) == {i \in DOMAIN l : l[i] = Spoilt}

Backed(cp, l, rows) ==
  Cardinality(Missing(cp, l, rows)) <= Cardinality(SpoiltLines(l))

\* Both sets are finite.
LEMMA FiniteSets ==
  ASSUME NEW cp, NEW l \in Seq(Line), NEW rows
  PROVE  /\ IsFiniteSet(Missing(cp, l, rows)) /\ Cardinality(Missing(cp, l, rows)) \in Nat
         /\ IsFiniteSet(SpoiltLines(l)) /\ Cardinality(SpoiltLines(l)) \in Nat
<1>1. IsFiniteSet(Missing(cp, l, rows))
  BY BatchAssumption, FS_Subset DEF Missing
<1>2. Len(l) \in Nat /\ DOMAIN l = 1..Len(l)
  OBVIOUS
<1>3. IsFiniteSet(DOMAIN l)
  BY <1>2, FS_Interval
<1>4. IsFiniteSet(SpoiltLines(l))
  BY <1>3, FS_Subset DEF SpoiltLines
<1> QED BY <1>1, <1>4, FS_CardinalityType

\* Fewer missing paths, or more spoilt lines, keep a checkpoint backed.
LEMMA BackedMonotone ==
  ASSUME NEW cp, NEW l \in Seq(Line), NEW rows, Backed(cp, l, rows),
         NEW dp, NEW m \in Seq(Line), NEW more,
         Missing(dp, m, more) \subseteq Missing(cp, l, rows),
         SpoiltLines(l) \subseteq SpoiltLines(m)
  PROVE  Backed(dp, m, more)
<1>1. Cardinality(Missing(dp, m, more)) <= Cardinality(Missing(cp, l, rows))
  BY FiniteSets, FS_Subset
<1>2. Cardinality(SpoiltLines(l)) <= Cardinality(SpoiltLines(m))
  BY FiniteSets, FS_Subset
<1>3. /\ Cardinality(Missing(cp, l, rows)) \in Nat /\ Cardinality(Missing(dp, m, more)) \in Nat
      /\ Cardinality(SpoiltLines(l)) \in Nat /\ Cardinality(SpoiltLines(m)) \in Nat
  BY FiniteSets
<1> QED BY <1>1, <1>2, <1>3 DEF Backed

\* One path more may be missing when one line more is spoilt.
LEMMA BackedSpoilt ==
  ASSUME NEW cp, NEW l \in Seq(Line), NEW rows, Backed(cp, l, rows),
         NEW m \in Seq(Line), NEW more, NEW p, NEW i,
         Missing(cp, m, more) \subseteq Missing(cp, l, rows) \cup {p},
         SpoiltLines(l) \cup {i} \subseteq SpoiltLines(m), i \notin SpoiltLines(l)
  PROVE  Backed(cp, m, more)
<1> DEFINE M == Missing(cp, l, rows)
           S == SpoiltLines(l)
           N == Missing(cp, m, more)
           T == SpoiltLines(m)
<1>1. /\ IsFiniteSet(M) /\ Cardinality(M) \in Nat /\ IsFiniteSet(S) /\ Cardinality(S) \in Nat
      /\ IsFiniteSet(T) /\ Cardinality(T) \in Nat
      /\ IsFiniteSet(N) /\ Cardinality(N) \in Nat
      /\ Cardinality(M) <= Cardinality(S)
  BY FiniteSets DEF Backed
<1>2. N \in SUBSET (M \cup {p}) /\ S \cup {i} \in SUBSET T /\ i \notin S
  OBVIOUS
<1> HIDE DEF M, S, N, T
<1>3. /\ IsFiniteSet(M \cup {p})
      /\ Cardinality(M \cup {p}) = IF p \in M THEN Cardinality(M) ELSE Cardinality(M) + 1
  BY <1>1, FS_AddElement
<1>4. Cardinality(S \cup {i}) = Cardinality(S) + 1
  BY <1>1, <1>2, FS_AddElement
<1>5. Cardinality(N) <= Cardinality(M \cup {p})
  BY <1>2, <1>3, FS_Subset
<1>6. Cardinality(S \cup {i}) <= Cardinality(T)
  BY <1>1, <1>2, FS_Subset
<1>7. Cardinality(M \cup {p}) <= Cardinality(S) + 1 /\ Cardinality(M \cup {p}) \in Nat
  BY <1>1, <1>3
<1>8. Cardinality(N) <= Cardinality(T)
  BY <1>1, <1>4, <1>5, <1>6, <1>7
<1> QED BY <1>8 DEF N, T, Backed

\* What an append does to the rows of a file: it keeps them and adds its own,
\* or it spoils one line more and loses the first of its own.
LEMMA AppendSpoils ==
  ASSUME NEW l \in Seq(Line), NEW rows \in Seq(Row \cup {Cut})
  PROVE  LET m == AppendRows(l, rows) IN
         /\ m \in Seq(Line) /\ SpoiltLines(l) \subseteq SpoiltLines(m)
         /\ \A p \in Paths, status \in RowStatuses :
              Occurs(l, p, status) => Occurs(m, p, status)
         /\ \/ \A p \in Paths, status \in RowStatuses :
                 Occurs(rows, p, status) => Occurs(m, p, status)
            \/ /\ Len(l) \notin SpoiltLines(l) /\ Len(l) \in SpoiltLines(m)
               /\ \A p \in Paths, status \in RowStatuses :
                    Occurs(rows, p, status) /\ p # rows[1].path => Occurs(m, p, status)
<1> DEFINE m == AppendRows(l, rows)
<1>0. Len(l) \in Nat /\ Len(rows) \in Nat
  OBVIOUS
<1>a. \A p \in Paths, status \in RowStatuses : [path |-> p, status |-> status] # Cut
  BY BatchAssumption DEF Row, RowStatuses
<1>1. CASE rows # <<>> /\ l # <<>> /\ l[Len(l)] = Cut
  <2>1. /\ m \in Seq(Line) /\ Len(m) = Len(l) + Len(rows) - 1
        /\ \A i \in 1..(Len(l) - 1) : m[i] = l[i]
        /\ m[Len(l)] = IF rows[1] = Cut THEN Cut ELSE Spoilt
        /\ \A i \in 2..Len(rows) : m[Len(l) + i - 1] = rows[i]
    BY <1>1, AppendToCut
  <2> HIDE DEF m
  <2>2. Len(l) > 0 /\ Len(rows) > 0
    BY <1>1
  <2>3. \A i \in DOMAIN l : i \in DOMAIN m /\ (l[i] # Cut => m[i] = l[i])
    BY <1>1, <2>1, <2>2
  <2>4. SpoiltLines(l) \subseteq SpoiltLines(m)
    BY <2>3, BatchAssumption DEF SpoiltLines
  <2>5. \A p \in Paths, status \in RowStatuses : Occurs(l, p, status) => Occurs(m, p, status)
    BY <1>a, <2>3 DEF Occurs
  <2>6. \A i \in DOMAIN rows : i # 1 => Len(l) + i - 1 \in DOMAIN m /\ m[Len(l) + i - 1] = rows[i]
    <3> SUFFICES ASSUME NEW i \in DOMAIN rows, i # 1
                 PROVE  Len(l) + i - 1 \in DOMAIN m /\ m[Len(l) + i - 1] = rows[i]
      OBVIOUS
    <3>1. i \in 2..Len(rows)
      OBVIOUS
    <3>2. DOMAIN m = 1..Len(m) /\ Len(l) + i - 1 \in 1..Len(m)
      BY <1>0, <2>1, <2>2, <3>1
    <3> QED BY <2>1, <3>1, <3>2
  <2>7. ASSUME NEW p \in Paths, NEW status \in RowStatuses, Occurs(rows, p, status),
               rows[1] = Cut \/ p # rows[1].path
        PROVE  Occurs(m, p, status)
    <3>1. PICK i \in DOMAIN rows : rows[i] = [path |-> p, status |-> status]
      BY <2>7 DEF Occurs
    <3>2. i # 1
      BY <1>a, <2>7, <3>1
    <3> QED BY <2>6, <3>1, <3>2 DEF Occurs
  <2>8. CASE rows[1] = Cut
    BY <2>1, <2>4, <2>5, <2>7, <2>8 DEF m
  <2>9. CASE rows[1] # Cut
    <3>1. Len(l) \notin SpoiltLines(l)
      BY <1>1, BatchAssumption DEF SpoiltLines
    <3>2. Len(l) \in SpoiltLines(m)
      BY <2>1, <2>2, <2>9 DEF SpoiltLines
    <3> QED BY <2>1, <2>4, <2>5, <2>7, <3>1, <3>2 DEF m
  <2> QED BY <2>8, <2>9
<1>2. CASE ~(rows # <<>> /\ l # <<>> /\ l[Len(l)] = Cut)
  <2>1. /\ m \in Seq(Line) /\ Len(m) = Len(l) + Len(rows)
        /\ \A i \in 1..Len(l) : m[i] = l[i]
        /\ \A i \in 1..Len(rows) : m[Len(l) + i] = rows[i]
    BY <1>2, AppendToRows
  <2> HIDE DEF m
  <2>2. \A i \in DOMAIN l : i \in DOMAIN m /\ m[i] = l[i]
    BY <1>0, <2>1
  <2>3. \A i \in DOMAIN rows : Len(l) + i \in DOMAIN m /\ m[Len(l) + i] = rows[i]
    BY <1>0, <2>1
  <2> QED BY <2>1, <2>2, <2>3 DEF m, SpoiltLines, Occurs
<1> QED BY <1>1, <1>2

\* A recorded status is one of a row.
LEMMA StatusInTyped == \A cp, p : StatusIn(cp, p) \in RowStatuses
BY DEF StatusIn, RowStatuses

\* Appending keeps a checkpoint backed, with the appended rows counted before
\* or not.
LEMMA BackedAppend ==
  ASSUME NEW cp, NEW l \in Seq(Line), NEW rows \in Seq(Row \cup {Cut}),
         Backed(cp, l, <<>>) \/ Backed(cp, l, rows)
  PROVE  Backed(cp, AppendRows(l, rows), <<>>)
<1> DEFINE m == AppendRows(l, rows)
<1>1. /\ m \in Seq(Line) /\ SpoiltLines(l) \subseteq SpoiltLines(m)
      /\ \A p \in Paths, status \in RowStatuses :
           Occurs(l, p, status) => Occurs(m, p, status)
      /\ \/ \A p \in Paths, status \in RowStatuses :
              Occurs(rows, p, status) => Occurs(m, p, status)
         \/ /\ Len(l) \notin SpoiltLines(l) /\ Len(l) \in SpoiltLines(m)
            /\ \A p \in Paths, status \in RowStatuses :
                 Occurs(rows, p, status) /\ p # rows[1].path => Occurs(m, p, status)
  BY AppendSpoils
<1> HIDE DEF m
<1>2. CASE Backed(cp, l, <<>>)
  <2>1. Missing(cp, m, <<>>) \subseteq Missing(cp, l, <<>>)
    BY <1>1, StatusInTyped DEF Missing
  <2> QED BY <1>1, <1>2, <2>1, BackedMonotone DEF m
<1>3. CASE Backed(cp, l, rows)
  <2>0. \A p, status : ~Occurs(<<>>, p, status)
    BY DEF Occurs
  <2>1. CASE \A p \in Paths, status \in RowStatuses : Occurs(rows, p, status) => Occurs(m, p, status)
    <3>1. Missing(cp, m, <<>>) \subseteq Missing(cp, l, rows)
      BY <1>1, <2>1, StatusInTyped DEF Missing
    <3> QED BY <1>1, <1>3, <3>1, BackedMonotone DEF m
  <2>2. CASE /\ Len(l) \notin SpoiltLines(l) /\ Len(l) \in SpoiltLines(m)
             /\ \A p \in Paths, status \in RowStatuses :
                  Occurs(rows, p, status) /\ p # rows[1].path => Occurs(m, p, status)
    <3>1. Missing(cp, m, <<>>) \subseteq Missing(cp, l, rows) \cup {rows[1].path}
      BY <1>1, <2>2, StatusInTyped DEF Missing
    <3>2. SpoiltLines(l) \cup {Len(l)} \subseteq SpoiltLines(m)
      BY <1>1, <2>2
    <3> QED BY <1>1, <1>3, <2>2, <3>1, <3>2, BackedSpoilt DEF m
  <2> QED BY <1>1, <2>1, <2>2
<1> QED BY <1>2, <1>3 DEF m

\* A result that is marked and buffered leaves no other path missing.
LEMMA BackedReceive ==
  ASSUME NEW cp \in Checkpoint, Lists(cp), NEW l \in Seq(Line), NEW rows \in Seq(Row),
         NEW row \in Row, Backed(cp, l, rows)
  PROVE  Backed(Mark(cp, row), l, Append(rows, row))
<1>1. /\ row.path \in Paths /\ row.status \in RowStatuses
      /\ row = [path |-> row.path, status |-> row.status]
  BY DEF Row, RowStatuses
<1>2. \A p, status : Occurs(rows, p, status) => Occurs(Append(rows, row), p, status)
  BY AppendProperties DEF Occurs
<1>3. Occurs(Append(rows, row), row.path, row.status)
  <2>1. /\ Len(rows) + 1 \in DOMAIN Append(rows, row)
        /\ Append(rows, row)[Len(rows) + 1] = row
    BY AppendProperties
  <2> QED BY <1>1, <2>1 DEF Occurs
<1>4. StatusIn(Mark(cp, row), row.path) = row.status
  BY <1>1 DEF StatusIn, Mark, RowStatuses
<1>5. \A p \in Paths : p # row.path =>
        /\ IsDone(Mark(cp, row), p) <=> IsDone(cp, p)
        /\ StatusIn(Mark(cp, row), p) = StatusIn(cp, p)
  BY <1>1 DEF StatusIn, IsDone, Mark, RowStatuses
<1>6. Missing(Mark(cp, row), l, Append(rows, row)) \subseteq Missing(cp, l, rows)
  <2> SUFFICES ASSUME NEW p \in Missing(Mark(cp, row), l, Append(rows, row))
               PROVE  p \in Missing(cp, l, rows)
    OBVIOUS
  <2>1. p # row.path
    BY <1>3, <1>4 DEF Missing
  <2> QED BY <1>2, <1>5, <2>1 DEF Missing
<1> QED BY <1>6, BackedMonotone

\* The rows of what a run has done are in the file, in the buffer, or spoilt.
Promised ==
  /\ checkpoint # Cut => Backed(checkpoint, lines, <<>>)
  /\ phase = "working" => Backed(marked, lines, buffer)
  /\ phase \in Ending => Backed(marked, lines, <<>>)

\* Nothing is missing from a checkpoint that records nothing.
LEMMA EmptyBacked ==
  ASSUME NEW l \in Seq(Line), NEW rows
  PROVE  Backed(EmptyCheckpoint, l, rows)
<1>1. Missing(EmptyCheckpoint, l, rows) = {}
  BY DEF Missing, EmptyCheckpoint, IsDone
<1> QED BY <1>1, FS_EmptySet, FiniteSets DEF Backed

\* Each step keeps what is done accounted for.
LEMMA NextPromised == IInv /\ Promised /\ [Next]_vars => Promised'
<1> SUFFICES ASSUME IInv, Promised, [Next]_vars PROVE Promised'
  OBVIOUS
<1>0. /\ TypeOK /\ lines \in Seq(Line) /\ marked \in Checkpoint /\ Lists(marked)
      /\ buffer \in Seq(Row) /\ channel \in Seq(Row)
  BY DEF IInv, Typed, TypeOK, Line
<1> USE DEF files
<1>1. CASE Begin
  <2>1. lines' = lines /\ checkpoint' = checkpoint /\ phase = "idle" /\ buffer = <<>>
    BY <1>1 DEF Begin, IInv, ResultsHeld
  <2>2. CASE phase' = "working"
    <3>1. (marked' = checkpoint /\ checkpoint # Cut) \/ marked' = EmptyCheckpoint
      BY <1>1, <2>2 DEF Begin, Return
    <3>2. buffer' = buffer
      BY <1>1, <2>2 DEF Begin, Return
    <3>3. Backed(marked', lines, <<>>)
      BY <1>0, <3>1, EmptyBacked DEF Promised
    <3> QED BY <2>1, <2>2, <3>2, <3>3 DEF Promised, Ending
  <2>3. CASE phase' # "working"
    BY <1>1, <2>1, <2>3 DEF Begin, Return, Promised, Ending
  <2> QED BY <2>2, <2>3
<1>2. CASE Process
  BY <1>2 DEF Process, Promised, Ending
<1>3. CASE Receive
  <2>1. CASE stop
    BY <1>3, <2>1 DEF Receive, Promised, Ending
  <2>2. CASE ~stop
    <3>1. Head(channel) \in Row
      BY <1>0, <1>3, HeadTailProperties DEF Receive
    <3>2. Backed(Mark(marked, Head(channel)), lines, Append(buffer, Head(channel)))
      BY <1>0, <1>3, <3>1, BackedReceive DEF Receive, Promised
    <3> QED BY <1>3, <2>2, <3>2 DEF Receive, Promised, Ending
  <2> QED BY <2>1, <2>2
<1>4. CASE Flush
  <2>1. /\ lines' = AppendRows(lines, buffer) /\ phase' = "flushed" /\ phase = "working"
        /\ marked' = marked /\ checkpoint' = checkpoint
    BY <1>4 DEF Flush
  <2>2. buffer \in Seq(Row \cup {Cut})
    BY <1>0, RowsTyped
  <2>3. checkpoint # Cut => Backed(checkpoint, lines', <<>>)
    BY <1>0, <2>1, <2>2, BackedAppend DEF Promised
  <2>4. Backed(marked, lines', <<>>)
    BY <1>0, <2>1, <2>2, BackedAppend DEF Promised
  <2> QED BY <2>1, <2>3, <2>4 DEF Promised
<1>5. CASE CreateCheckpoint \/ SaveCheckpoint \/ CreateCatalog
  <2>1. /\ phase \in Ending /\ phase' \in Ending /\ lines' = lines /\ marked' = marked
        /\ checkpoint' \in {Cut, marked, checkpoint}
    BY <1>5 DEF CreateCheckpoint, SaveCheckpoint, CreateCatalog, Ending
  <2> QED BY <2>1 DEF Promised, Ending
<1>6. CASE WriteCatalog \/ CannotMerge \/ JoinFailed \/ SaveFails
  BY <1>6 DEF WriteCatalog, CannotMerge, JoinFailed, SaveFails, Return, Promised, Ending
<1>7. CASE WriterFails \/ Kill
  <2>1. PICK rows \in CutRows : lines' = AppendRows(lines, rows)
    BY <1>7 DEF WriterFails, Kill
  <2>2. /\ rows \in Seq(Row \cup {Cut}) /\ checkpoint' = checkpoint
        /\ phase' \notin Ending \cup {"working"}
    BY <1>0, <1>7, CutRowsTyped DEF WriterFails, Kill, Return, Ending
  <2>3. checkpoint # Cut => Backed(checkpoint, lines', <<>>)
    BY <1>0, <2>1, <2>2, BackedAppend DEF Promised
  <2> QED BY <2>2, <2>3 DEF Promised
<1>8. CASE UNCHANGED vars
  BY <1>8 DEF vars, Promised
<1> QED BY <1>1, <1>2, <1>3, <1>4, <1>5, <1>6, <1>7, <1>8 DEF Next, RunStep

\* Of the results a checkpoint records at most as many are missing from
\* results.jsonl as lines were spoilt, for any number of paths, runs and
\* failures.
THEOREM DoneIsThere == Spec => []DoneHasRow
<1>1. Init => Promised
  <2> SUFFICES ASSUME Init PROVE Promised
    OBVIOUS
  <2>1. lines \in Seq(Line) /\ checkpoint = EmptyCheckpoint /\ phase = "idle"
    BY DEF Init
  <2> QED BY <2>1, EmptyBacked DEF Promised, Ending
<1>2. Promised => DoneHasRow
  <2>1. \A cp, l : Missing(cp, l, <<>>) =
          {p \in Paths : IsDone(cp, p) /\ ~Occurs(l, p, StatusIn(cp, p))}
    BY DEF Missing, Occurs
  <2> QED BY <2>1 DEF Promised, Backed, DoneHasRow, SpoiltLines
<1> QED BY <1>1, <1>2, InitIInv, NextIInv, NextPromised, PTL DEF Spec

-----------------------------------------------------------------------------
(* A run comes to its end.                                                 *)

\* What is still to be processed, each listing of a path by itself.
ToProcess == UNION {{p} \X (1..pending[p]) : p \in Paths}

\* The steps a run has left after the writer is done.
Stage ==
  IF phase = "working" THEN 5 ELSE IF phase = "flushed" THEN 4
  ELSE IF phase = "saving" THEN 3 ELSE IF phase = "saved" THEN 2
  ELSE IF phase = "idle" THEN 0 ELSE 1

\* A path is to be processed and its result to be received, then the files are
\* to be written.
Work == 2 * Cardinality(ToProcess) + Len(channel) + Stage

\* There is finitely much to process, and nothing when nothing is pending.
LEMMA ToProcessFinite ==
  ASSUME NEW f \in [Paths -> Nat]
  PROVE  /\ IsFiniteSet(UNION {{p} \X (1..f[p]) : p \in Paths})
         /\ f = NothingPending => UNION {{p} \X (1..f[p]) : p \in Paths} = {}
<1> DEFINE part == [p \in Paths |-> {p} \X (1..f[p])]
           parts == {part[p] : p \in Paths}
<1>1. IsFiniteSet(parts)
  <2>1. part \in Surjection(Paths, parts)
    BY DEF Surjection
  <2> QED BY <2>1, BatchAssumption, FS_Surjection
<1>2. ASSUME NEW p \in Paths PROVE IsFiniteSet(part[p])
  <2>1. f[p] \in Nat
    OBVIOUS
  <2>2. IsFiniteSet(1..f[p])
    BY <2>1, FS_Interval
  <2>3. IsFiniteSet({p} \X (1..f[p]))
    BY <2>2, FS_Singleton, FS_Product
  <2> QED BY <2>3
<1>3. IsFiniteSet(UNION parts)
  <2>1. \A S \in parts : IsFiniteSet(S)
    BY <1>2
  <2> HIDE DEF parts
  <2> QED BY <1>1, <2>1, FS_UNION
<1>4. parts = {{p} \X (1..f[p]) : p \in Paths}
  OBVIOUS
<1>5. f = NothingPending => UNION parts = {}
  BY DEF NothingPending
<1> QED BY <1>3, <1>4, <1>5

\* The work left is a number, and a run that has returned has none.
LEMMA WorkTyped ==
  ASSUME TypeOK
  PROVE  /\ IsFiniteSet(ToProcess) /\ Cardinality(ToProcess) \in Nat
         /\ Len(channel) \in Nat /\ Stage \in Nat /\ Work \in Nat
         /\ phase # "idle" => Stage > 0
<1>1. IsFiniteSet(ToProcess) /\ Cardinality(ToProcess) \in Nat
  <2>1. IsFiniteSet(ToProcess)
    BY ToProcessFinite DEF TypeOK, ToProcess
  <2> QED BY <2>1, FS_CardinalityType
<1>2. Len(channel) \in Nat
  <2>1. channel \in Seq(Row)
    BY DEF TypeOK
  <2> QED BY <2>1
<1>3. Stage \in Nat /\ (phase # "idle" => Stage > 0)
  BY DEF Stage
<1> QED BY <1>1, <1>2, <1>3 DEF Work

\* The end of a run leaves no work.
LEMMA ReturnWork ==
  ASSUME TypeOK, phase # "idle", NEW how, Return(how)
  PROVE  Work' < Work
<1>1. pending' = NothingPending /\ channel' = <<>> /\ phase' = "idle"
  BY DEF Return, NothingPending
<1>2. ToProcess' = {}
  BY <1>1, NothingPendingTyped, ToProcessFinite DEF ToProcess
<1>3. Work' = 0
  BY <1>1, <1>2, FS_EmptySet DEF Work, Stage
<1> QED BY <1>3, WorkTyped DEF Work

\* A step that leaves what is to be processed alone.
LEMMA SameProcess ==
  ASSUME TypeOK, pending' = pending, Len(channel') \in Nat, Stage' \in Nat,
         Len(channel') + Stage' < Len(channel) + Stage
  PROVE  Work' < Work
<1>1. ToProcess' = ToProcess
  BY DEF ToProcess
<1> QED BY <1>1, WorkTyped DEF Work

\* Every step of a run, a failed write too, leaves less to do: a run of any
\* input is over after at most 2 steps per listed path and 5 more, whatever the
\* order of its threads, and cannot go round in a circle (run_batch).
THEOREM RunsAreFinite == Spec => [][phase # "idle" => Work' < Work]_vars
<1>1. Typed /\ [Next]_vars => [phase # "idle" => Work' < Work]_vars
  <2> SUFFICES ASSUME TypeOK, Next, phase # "idle"
               PROVE  Work' < Work
    BY DEF Typed
  <2>1. CASE Process
    <3>1. PICK p \in Paths, status \in Statuses :
            /\ pending[p] > 0 /\ pending' = [pending EXCEPT ![p] = @ - 1]
            /\ channel' = IF phase = "working"
                          THEN Append(channel, [path |-> p, status |-> status]) ELSE channel
      BY <2>1 DEF Process
    <3>2. pending[p] \in Nat \ {0} /\ channel \in Seq(Row) /\ phase' = phase
      <4>1. pending[p] \in Nat /\ channel \in Seq(Row)
        BY DEF TypeOK
      <4>2. phase' = phase
        BY <2>1 DEF Process
      <4>3. pending[p] # 0
        BY <3>1, <4>1
      <4> QED BY <4>1, <4>2, <4>3
    <3>3. ToProcess' = ToProcess \ {<<p, pending[p]>>} /\ <<p, pending[p]>> \in ToProcess
      <4>1. 1..(pending[p] - 1) = (1..pending[p]) \ {pending[p]}
        BY <3>2
      <4>2. \A q \in Paths : pending'[q] = IF q = p THEN pending[p] - 1 ELSE pending[q]
        BY <3>1 DEF TypeOK
      <4>3. \A q \in Paths : {q} \X (1..pending'[q]) = ({q} \X (1..pending[q])) \ {<<p, pending[p]>>}
        BY <4>1, <4>2
      <4>4. ToProcess' = UNION {({q} \X (1..pending[q])) \ {<<p, pending[p]>>} : q \in Paths}
        BY <4>3 DEF ToProcess
      <4>5. <<p, pending[p]>> \in {p} \X (1..pending[p])
        BY <3>2
      <4> QED BY <4>4, <4>5 DEF ToProcess
    <3>4. Cardinality(ToProcess') = Cardinality(ToProcess) - 1
      BY <3>3, WorkTyped, FS_RemoveElement
    <3>5. Len(channel') <= Len(channel) + 1 /\ Len(channel') \in Nat
      <4>1. [path |-> p, status |-> status] \in Row
        BY StatusTyped
      <4>2. Len(Append(channel, [path |-> p, status |-> status])) = Len(channel) + 1
        BY <3>2, <4>1, AppendProperties
      <4> QED BY <3>1, <3>2, <4>2, WorkTyped
    <3>6. Stage' = Stage
      BY <3>2 DEF Stage
    <3> QED BY <3>4, <3>5, <3>6, WorkTyped DEF Work
  <2>2. CASE Receive
    <3>1. channel \in Seq(Row) /\ channel # <<>> /\ channel' = Tail(channel)
          /\ UNCHANGED <<pending, phase>>
      BY <2>2 DEF TypeOK, Receive
    <3>2. Len(channel') = Len(channel) - 1 /\ Len(channel') \in Nat
      BY <3>1
    <3>3. Stage' = Stage
      BY <3>1 DEF Stage
    <3> QED BY <3>1, <3>2, <3>3, WorkTyped, SameProcess
  <2>3. CASE Flush \/ CreateCheckpoint \/ SaveCheckpoint \/ CreateCatalog
    <3>1. UNCHANGED <<pending, channel>>
      BY <2>3 DEF Flush, CreateCheckpoint, SaveCheckpoint, CreateCatalog
    <3>2. Stage' \in Nat /\ Stage' < Stage
      BY <2>3 DEF Flush, CreateCheckpoint, SaveCheckpoint, CreateCatalog, Stage
    <3> QED BY <3>1, <3>2, WorkTyped, SameProcess
  <2>4. CASE CannotMerge \/ WriteCatalog \/ JoinFailed \/ SaveFails \/ Kill
    <3>1. PICK how \in {"ok", "error", "killed"} : Return(how)
      BY <2>4 DEF CannotMerge, WriteCatalog, JoinFailed, SaveFails, Kill
    <3> QED BY <3>1, ReturnWork
  <2>5. CASE WriterFails
    <3>1. pending' = pending /\ channel' = <<>> /\ phase = "working" /\ phase' = "writer failed"
      BY <2>5 DEF WriterFails
    <3>2. Len(channel') = 0
      BY <3>1
    <3>3. Stage = 5 /\ Stage' = 1
      BY <3>1 DEF Stage
    <3>4. Len(channel') + Stage' < Len(channel) + Stage
      BY <3>2, <3>3, WorkTyped
    <3>5. Len(channel') \in Nat /\ Stage' \in Nat
      BY <3>2, <3>3
    <3> QED BY <3>1, <3>4, <3>5, SameProcess
  <2>6. CASE Begin
    BY <2>6 DEF Begin
  <2> QED BY <2>1, <2>2, <2>3, <2>4, <2>5, <2>6 DEF Next, RunStep
<1> QED BY <1>1, InitTyped, NextTyped, PTL DEF Spec

=============================================================================
