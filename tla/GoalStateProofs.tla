--------------------------- MODULE GoalStateProofs ---------------------------
(***************************************************************************)
(* Proofs about GoalState and the TaskLedger under it: type correctness,   *)
(* the drive contract, the task pointers, the evidence index and its       *)
(* ledger, and the goal lifecycle.                                         *)
(*                                                                         *)
(* First come facts about ledgers: rows taken at a set of positions keep   *)
(* their order, compaction keeps the last row of every type, and replay    *)
(* finds the same goal in a ledger and in its compaction.                  *)
(*                                                                         *)
(* Every goal operation has the shape GoalStep: it commits one goal of one *)
(* task with one transaction, or commits nothing, and moves the pointers   *)
(* in one of four ways.  The invariants are proved over that shape and the *)
(* few actions that are not goal operations.                               *)
(***************************************************************************)
EXTENDS GoalState, FiniteSetTheorems, FunctionTheorems, TLAPS

-----------------------------------------------------------------------------
(* Ranks.                                                                  *)

\* The positions of a sequence are finitely many natural numbers.
LEMMA PositionsFinite ==
  ASSUME NEW X, NEW l \in Seq(X), NEW S \in SUBSET DOMAIN l
  PROVE  IsFiniteSet(S) /\ S \subseteq Nat /\ Cardinality(S) \in Nat
<1>1. DOMAIN l = 1..Len(l) /\ Len(l) \in Nat
  OBVIOUS
<1>2. IsFiniteSet(1..Len(l))
  BY <1>1, FS_Interval
<1>3. IsFiniteSet(S)
  BY <1>1, <1>2, FS_Subset
<1> QED
  BY <1>1, <1>3, FS_CardinalityType

\* A rank lies between 1 and the number of positions.
LEMMA RankInRange ==
  ASSUME NEW S \in SUBSET Nat, IsFiniteSet(S), NEW i \in S
  PROVE  Rank(S, i) \in 1..Cardinality(S)
<1> DEFINE T == {k \in S : k <= i}
<1>1. T \in SUBSET S /\ i \in T
  OBVIOUS
<1>2. IsFiniteSet(T) /\ Cardinality(T) <= Cardinality(S)
  BY <1>1, FS_Subset
<1>3. Cardinality(T) \in Nat /\ Cardinality(S) \in Nat
  BY <1>2, FS_CardinalityType
<1>4. Cardinality(T) # 0
  BY <1>1, <1>2, FS_EmptySet
<1> QED
  BY <1>2, <1>3, <1>4 DEF Rank

\* Ranks are ordered as the positions are.
LEMMA RankOrder ==
  ASSUME NEW S \in SUBSET Nat, IsFiniteSet(S), NEW i \in S, NEW j \in S, i < j
  PROVE  Rank(S, i) < Rank(S, j)
<1> DEFINE T == {k \in S : k <= i}
           U == {k \in S : k <= j}
<1>1. U \in SUBSET S /\ T \in SUBSET U /\ j \in U /\ j \notin T
  <2>1. i \in Nat /\ j \in Nat /\ \A k \in S : k \in Nat
    OBVIOUS
  <2>2. \A k \in S : k <= i => k <= j
    BY <2>1
  <2>3. j <= j /\ ~(j <= i)
    BY <2>1
  <2> QED
    BY <2>2, <2>3
<1>2. IsFiniteSet(U)
  BY <1>1, FS_Subset
<1>3. IsFiniteSet(T) /\ Cardinality(T) <= Cardinality(U) /\ Cardinality(T) # Cardinality(U)
  BY <1>1, <1>2, FS_Subset
<1>4. Cardinality(T) \in Nat /\ Cardinality(U) \in Nat
  BY <1>2, <1>3, FS_CardinalityType
<1> QED
  BY <1>3, <1>4 DEF Rank

\* Two positions of the same rank are one.
LEMMA RankInjective ==
  ASSUME NEW S \in SUBSET Nat, IsFiniteSet(S), NEW i \in S, NEW j \in S,
         Rank(S, i) = Rank(S, j)
  PROVE  i = j
<1>1. Rank(S, i) \in Nat /\ Rank(S, j) \in Nat
  BY RankInRange
<1>2. i \in Nat /\ j \in Nat
  OBVIOUS
<1>3. ~(i < j) /\ ~(j < i)
  BY <1>1, RankOrder
<1> QED
  BY <1>2, <1>3

\* Every rank is taken.
LEMMA RankTaken ==
  ASSUME NEW S \in SUBSET Nat, IsFiniteSet(S), NEW n \in 1..Cardinality(S)
  PROVE  \E i \in S : Rank(S, i) = n
<1> DEFINE T == 1..Cardinality(S)
           f == [i \in S |-> Rank(S, i)]
<1>1. Cardinality(S) \in Nat
  BY FS_CardinalityType
<1>2. IsFiniteSet(T) /\ Cardinality(T) = Cardinality(S)
  BY <1>1, FS_Interval
<1>3. f \in Injection(S, T)
  BY RankInRange, RankInjective DEF Injection, IsInjective
<1>4. f \in Surjection(S, T)
  BY <1>2, <1>3, FS_Injection
<1> QED
  BY <1>4 DEF Surjection

\* A finite set of positions that is not empty has a last one.
LEMMA LastPosition ==
  ASSUME NEW S \in SUBSET Nat, IsFiniteSet(S), S # {}
  PROVE  \E i \in S : \A k \in S : k <= i
<1>1. Cardinality(S) \in Nat /\ Cardinality(S) # 0
  BY FS_CardinalityType, FS_EmptySet
<1>2. PICK i \in S : Rank(S, i) = Cardinality(S)
  BY <1>1, RankTaken
<1> DEFINE T == {k \in S : k <= i}
<1>3. T \in SUBSET S /\ Cardinality(T) = Cardinality(S)
  BY <1>2 DEF Rank
<1>4. T = S
  BY <1>3, FS_Subset
<1> QED
  BY <1>4

-----------------------------------------------------------------------------
(* Rows taken at positions.                                                *)

\* The row at a chosen position is found again at the rank of the position.
LEMMA RowAtRank ==
  ASSUME NEW X, NEW l \in Seq(X), NEW S \in SUBSET DOMAIN l, NEW i \in S
  PROVE  /\ Rank(S, i) \in DOMAIN RowsAt(l, S)
         /\ RowsAt(l, S)[Rank(S, i)] = l[i]
<1>1. S \in SUBSET Nat /\ IsFiniteSet(S)
  BY PositionsFinite
<1>2. Rank(S, i) \in 1..Cardinality(S)
  BY <1>1, RankInRange
<1> DEFINE j == CHOOSE k \in S : Rank(S, k) = Rank(S, i)
<1>3. j \in S /\ Rank(S, j) = Rank(S, i)
  OBVIOUS
<1>4. j = i
  BY <1>1, <1>3, RankInjective
<1> QED
  BY <1>2, <1>4 DEF RowsAt

\* Every row taken is the row of a chosen position, whose rank is its place.
LEMMA RowOrigin ==
  ASSUME NEW X, NEW l \in Seq(X), NEW S \in SUBSET DOMAIN l,
         NEW n \in DOMAIN RowsAt(l, S)
  PROVE  \E i \in S : Rank(S, i) = n /\ RowsAt(l, S)[n] = l[i]
<1>1. S \in SUBSET Nat /\ IsFiniteSet(S)
  BY PositionsFinite
<1>2. n \in 1..Cardinality(S)
  BY DEF RowsAt
<1>3. PICK i \in S : Rank(S, i) = n
  BY <1>1, <1>2, RankTaken
<1> QED
  BY <1>3, RowAtRank

\* The rows taken are a sequence of rows of the same kind.
LEMMA RowsAtSeq ==
  ASSUME NEW X, NEW l \in Seq(X), NEW S \in SUBSET DOMAIN l
  PROVE  RowsAt(l, S) \in Seq(X) /\ Len(RowsAt(l, S)) = Cardinality(S)
<1>1. Cardinality(S) \in Nat
  BY PositionsFinite
<1>2. DOMAIN RowsAt(l, S) = 1..Cardinality(S)
  BY DEF RowsAt
<1>3. ASSUME NEW n \in 1..Cardinality(S) PROVE RowsAt(l, S)[n] \in X
  <2>0. n \in DOMAIN RowsAt(l, S)
    BY <1>2
  <2>1. PICK i \in S : Rank(S, i) = n /\ RowsAt(l, S)[n] = l[i]
    BY <2>0, RowOrigin
  <2>2. i \in 1..Len(l)
    OBVIOUS
  <2> QED
    BY <2>1, <2>2
<1>4. RowsAt(l, S) = [n \in 1..Cardinality(S) |-> RowsAt(l, S)[n]]
  BY DEF RowsAt
<1>5. [n \in 1..Cardinality(S) |-> RowsAt(l, S)[n]] \in Seq(X)
  BY <1>1, <1>3
<1>6. RowsAt(l, S) \in Seq(X)
  BY <1>4, <1>5
<1>7. Len(RowsAt(l, S)) = Cardinality(S)
  <2>1. DOMAIN RowsAt(l, S) = 1..Len(RowsAt(l, S)) /\ Len(RowsAt(l, S)) \in Nat
    BY <1>6
  <2> HIDE DEF RowsAt
  <2> QED
    BY <1>1, <1>2, <2>1
<1> QED
  BY <1>6, <1>7

-----------------------------------------------------------------------------
(* The last row of a type.                                                 *)

IsLastOf(l, type, i) ==
  /\ i \in 0..Len(l)
  /\ i # 0 => l[i].type = type
  /\ \A k \in (i+1)..Len(l) : l[k].type # type

\* LastOf is the last row of the type, or 0.
LEMMA LastOfIsLast ==
  ASSUME NEW X, NEW l \in Seq(X), NEW type
  PROVE  IsLastOf(l, type, LastOf(l, type))
<1> DEFINE P == {k \in DOMAIN l : l[k].type = type}
<1>1. Len(l) \in Nat /\ DOMAIN l = 1..Len(l)
  OBVIOUS
<1>2. P \in SUBSET Nat /\ IsFiniteSet(P)
  BY PositionsFinite
<1>3. \E i \in 0..Len(l) : IsLastOf(l, type, i)
  <2>1. CASE P = {}
    <3>1. IsLastOf(l, type, 0)
      BY <1>1, <2>1 DEF IsLastOf
    <3> QED
      BY <1>1, <3>1
  <2>2. CASE P # {}
    <3>1. PICK i \in P : \A k \in P : k <= i
      BY <1>2, <2>2, LastPosition
    <3>2. i \in 1..Len(l) /\ l[i].type = type
      BY <1>1, <3>1
    <3>3. ASSUME NEW k \in (i+1)..Len(l) PROVE l[k].type # type
      BY <1>1, <3>1, <3>2
    <3>4. IsLastOf(l, type, i)
      BY <1>1, <3>2, <3>3 DEF IsLastOf
    <3> QED
      BY <1>1, <3>2, <3>4
  <2> QED
    BY <2>1, <2>2
<1>4. LastOf(l, type) = CHOOSE i \in 0..Len(l) : (i # 0 => l[i].type = type)
                           /\ \A k \in (i+1)..Len(l) : l[k].type # type
  BY DEF LastOf
<1> QED
  BY <1>3, <1>4 DEF IsLastOf

\* There is only one such row.
LEMMA LastOfUnique ==
  ASSUME NEW X, NEW l \in Seq(X), NEW type, NEW i, IsLastOf(l, type, i)
  PROVE  LastOf(l, type) = i
<1> DEFINE j == LastOf(l, type)
<1>1. IsLastOf(l, type, j)
  BY LastOfIsLast
<1>2. i \in 0..Len(l) /\ j \in 0..Len(l) /\ Len(l) \in Nat
  BY <1>1 DEF IsLastOf
<1>3. ~(i < j)
  <2>1. SUFFICES ASSUME i < j PROVE FALSE
    OBVIOUS
  <2>2. j \in (i+1)..Len(l) /\ j # 0
    BY <1>2, <2>1
  <2> QED
    BY <1>1, <2>2 DEF IsLastOf
<1>4. ~(j < i)
  <2>1. SUFFICES ASSUME j < i PROVE FALSE
    OBVIOUS
  <2>2. i \in (j+1)..Len(l) /\ i # 0
    BY <1>2, <2>1
  <2> QED
    BY <1>1, <2>2 DEF IsLastOf
<1> QED
  BY <1>2, <1>3, <1>4

-----------------------------------------------------------------------------
(* Compaction.                                                             *)

\* Compacting a ledger gives a ledger.
LEMMA CompactedSeq ==
  ASSUME NEW X, NEW l \in Seq(X)
  PROVE  Compacted(l) \in Seq(X)
BY RowsAtSeq DEF Compacted, Kept

\* The last row of a type is kept, and is still the last of its type.
LEMMA CompactedLast ==
  ASSUME NEW X, NEW l \in Seq(X), NEW type
  PROVE  LET i == LastOf(l, type)
             n == LastOf(Compacted(l), type)
         IN IF i = 0 THEN n = 0
            ELSE i \in Kept(l) /\ n = Rank(Kept(l), i) /\ Compacted(l)[n] = l[i]
<1> DEFINE i == LastOf(l, type)
           c == Compacted(l)
           S == Kept(l)
<1>1. Len(l) \in Nat /\ DOMAIN l = 1..Len(l)
  OBVIOUS
<1>2. S \in SUBSET DOMAIN l
  BY DEF Kept
<1>3. S \in SUBSET Nat /\ IsFiniteSet(S) /\ Cardinality(S) \in Nat
  BY <1>2, PositionsFinite
<1>4. c \in Seq(X) /\ Len(c) = Cardinality(S) /\ c = RowsAt(l, S)
  BY <1>2, RowsAtSeq DEF Compacted
<1>5. IsLastOf(l, type, i)
  BY LastOfIsLast
<1>6. CASE i = 0
  <2>1. ASSUME NEW m \in 1..Len(c) PROVE c[m].type # type
    <3>1. m \in DOMAIN RowsAt(l, S)
      BY <1>4
    <3>2. PICK k \in S : Rank(S, k) = m /\ RowsAt(l, S)[m] = l[k]
      BY <1>2, <3>1, RowOrigin
    <3>3. k \in (i+1)..Len(l)
      BY <1>1, <1>2, <1>6
    <3> QED
      BY <1>4, <1>5, <3>2, <3>3 DEF IsLastOf
  <2>2. IsLastOf(c, type, 0)
    BY <1>3, <1>4, <2>1 DEF IsLastOf
  <2>3. LastOf(c, type) = 0
    BY <1>4, <2>2, LastOfUnique
  <2> QED
    BY <1>6, <2>3
<1>7. CASE i # 0
  <2> DEFINE n == Rank(S, i)
  <2>1. i \in DOMAIN l /\ l[i].type = type /\ i \in Nat
    BY <1>1, <1>5, <1>7 DEF IsLastOf
  <2>2. i \in S
    BY <1>5, <2>1 DEF Kept, IsLastOf
  <2>3. n \in 1..Len(c) /\ c[n] = l[i]
    BY <1>2, <1>4, <2>2, RowAtRank
  <2>4. ASSUME NEW m \in (n+1)..Len(c) PROVE c[m].type # type
    <3>0. m \in 1..Len(c) /\ n < m /\ m \in Nat /\ n \in Nat
      BY <1>3, <1>4, <2>3
    <3>1. m \in DOMAIN RowsAt(l, S)
      BY <1>4, <3>0
    <3>2. PICK k \in S : Rank(S, k) = m /\ RowsAt(l, S)[m] = l[k]
      BY <1>2, <3>1, RowOrigin
    <3>3. ~(k < i) /\ k # i
      BY <1>3, <2>2, <3>0, <3>2, RankOrder
    <3>4. k \in (i+1)..Len(l)
      BY <1>1, <1>2, <2>1, <3>3
    <3> QED
      BY <1>4, <1>5, <3>2, <3>4 DEF IsLastOf
  <2>5. IsLastOf(c, type, n)
    BY <1>3, <1>4, <2>1, <2>3, <2>4 DEF IsLastOf
  <2>6. LastOf(c, type) = n
    BY <1>4, <2>5, LastOfUnique
  <2> QED
    BY <1>7, <2>2, <2>3, <2>6
<1> QED
  BY <1>6, <1>7

\* Replay finds the same goal in a ledger and in its compaction.
THEOREM CompactionKeepsReplay ==
  ASSUME NEW X, NEW l \in Seq(X), NEW file
  PROVE  HydratedGoal(Compacted(l), file) = HydratedGoal(l, file)
<1> DEFINE c  == Compacted(l)
           S  == Kept(l)
           i  == LastOf(l, "state_checkpoint")
           j  == LastOf(l, "goal_state")
           ci == LastOf(c, "state_checkpoint")
           cj == LastOf(c, "goal_state")
<1>1. S \in SUBSET DOMAIN l /\ S \in SUBSET Nat /\ IsFiniteSet(S)
  <2>1. S \in SUBSET DOMAIN l
    BY DEF Kept
  <2> QED
    BY <2>1, PositionsFinite
<1>2. IF i = 0 THEN ci = 0 ELSE i \in S /\ ci = Rank(S, i) /\ c[ci] = l[i]
  BY CompactedLast
<1>3. IF j = 0 THEN cj = 0 ELSE j \in S /\ cj = Rank(S, j) /\ c[cj] = l[j]
  BY CompactedLast
<1>4. i \in Nat /\ j \in Nat
  BY LastOfIsLast DEF IsLastOf
<1>5. (i # 0 => ci \in Nat \ {0}) /\ (j # 0 => cj \in Nat \ {0})
  BY <1>1, <1>2, <1>3, RankInRange
<1>6. j > i <=> cj > ci
  <2>1. CASE i = 0 \/ j = 0
    BY <1>2, <1>3, <1>4, <1>5, <2>1
  <2>2. CASE i # 0 /\ j # 0
    <3>1. i < j => ci < cj
      BY <1>1, <1>2, <1>3, <2>2, RankOrder
    <3>2. j < i => cj < ci
      BY <1>1, <1>2, <1>3, <2>2, RankOrder
    <3>3. i = j => ci = cj
      BY <1>2, <1>3, <2>2
    <3> QED
      BY <1>4, <1>5, <2>2, <3>1, <3>2, <3>3
  <2> QED
    BY <2>1, <2>2
<1>7. j > i => j # 0 /\ c[cj] = l[j]
  BY <1>3, <1>4
<1>8. (i > 0 <=> ci > 0) /\ (i > 0 => c[ci] = l[i])
  BY <1>2, <1>4, <1>5
<1> QED
  BY <1>6, <1>7, <1>8 DEF HydratedGoal

\* A type with a row in a ledger has one in its compaction.
LEMMA CompactionKeepsTypes ==
  ASSUME NEW X, NEW l \in Seq(X), NEW i \in DOMAIN l
  PROVE  \E n \in DOMAIN Compacted(l) : Compacted(l)[n].type = l[i].type
<1> DEFINE j == LastOf(l, l[i].type)
           n == LastOf(Compacted(l), l[i].type)
<1>1. i \in 1..Len(l) /\ Len(l) \in Nat
  OBVIOUS
<1>2. IsLastOf(l, l[i].type, j)
  BY LastOfIsLast
<1>3. j # 0 /\ l[j].type = l[i].type
  BY <1>1, <1>2 DEF IsLastOf
<1>4. Compacted(l)[n] = l[j] /\ n = Rank(Kept(l), j) /\ j \in Kept(l)
  BY <1>3, CompactedLast
<1>5. Kept(l) \in SUBSET DOMAIN l
  BY DEF Kept
<1>6. n \in DOMAIN Compacted(l)
  BY <1>4, <1>5, RowAtRank DEF Compacted
<1> QED
  BY <1>3, <1>4, <1>6

-----------------------------------------------------------------------------
(* Appends.                                                                *)

\* However far an append gets, the ledger is one of transactions, and a type
\* that had a row, or that is the type of the new row, has one.
LEMMA AppendKeepsTypes ==
  ASSUME NEW X, NEW l \in Seq(X), NEW tx \in X, NEW cp \in X,
         NEW m \in AfterAppend(l, tx, cp)
  PROVE  /\ m \in Seq(X)
         /\ \A i \in DOMAIN l : \E n \in DOMAIN m : m[n].type = l[i].type
         /\ \E n \in DOMAIN m : m[n].type = tx.type
<1> DEFINE row == Append(l, tx)
           OK(a) == /\ a \in Seq(X)
                    /\ \A i \in DOMAIN row : \E n \in DOMAIN a : a[n].type = row[i].type
<1>1. /\ row \in Seq(X) /\ DOMAIN row = 1..Len(row) /\ Len(row) = Len(l) + 1
      /\ Len(l) \in Nat /\ DOMAIN l = 1..Len(l)
      /\ row[Len(l) + 1] = tx /\ \A i \in DOMAIN l : row[i] = l[i]
  OBVIOUS
<1>2. OK(row)
  BY <1>1
<1>3. OK(Checkpointed(l, tx, cp))
  <2>1. CASE AtCheckpoint(l)
    <3>1. Checkpointed(l, tx, cp) = Append(row, cp)
      BY <2>1 DEF Checkpointed
    <3>2. /\ Append(row, cp) \in Seq(X)
          /\ \A i \in DOMAIN row : i \in DOMAIN Append(row, cp) /\ Append(row, cp)[i] = row[i]
      BY <1>1
    <3> QED
      BY <3>1, <3>2
  <2>2. CASE ~AtCheckpoint(l)
    BY <1>2, <2>2 DEF Checkpointed
  <2> QED
    BY <2>1, <2>2
<1>4. OK(Appended(l, tx, cp))
  <2>1. CASE NeedsCompaction(row)
    <3>1. Appended(l, tx, cp) = Compacted(row)
      BY <2>1 DEF Appended
    <3>2. Compacted(row) \in Seq(X)
      BY <1>1, CompactedSeq
    <3>3. \A i \in DOMAIN row :
            \E n \in DOMAIN Compacted(row) : Compacted(row)[n].type = row[i].type
      BY <1>1, CompactionKeepsTypes
    <3> QED
      BY <3>1, <3>2, <3>3
  <2>2. CASE ~NeedsCompaction(row)
    BY <1>3, <2>2 DEF Appended
  <2> QED
    BY <2>1, <2>2
<1>5. OK(m)
  <2>1. m \in {row, Checkpointed(l, tx, cp), Appended(l, tx, cp)}
    BY DEF AfterAppend
  <2>2. m = row \/ m = Checkpointed(l, tx, cp) \/ m = Appended(l, tx, cp)
    BY <2>1
  <2> HIDE DEF OK, row
  <2> QED
    BY <1>2, <1>3, <1>4, <2>2
<1>6. Len(l) + 1 \in DOMAIN row /\ \A i \in DOMAIN l : i \in DOMAIN row
  BY <1>1
<1> QED
  BY <1>1, <1>5, <1>6

-----------------------------------------------------------------------------
(* Types.                                                                  *)

AnyGoal == Goal \cup {NoGoal}

Labels == {"goal_failed", "goal_quality_gate_blocked", "goal_iteration_completed",
           "goal_cleared", "task_created", "task_completed"}

Tx == [type: {"goal_state"}, goal: Goal] \cup [type: {"evidence"}, row: RowKinds]
        \cup [type: {"note"}, label: Labels]
        \cup [type: {"state_checkpoint"}, goal: AnyGoal, verified: BOOLEAN]

Indexes == Seq(RowKinds)

Pointers == [written: BOOLEAN, active: Tasks \cup {None}, focus: Tasks \cup {None},
             listed: SUBSET Tasks]

Copies == [task: Tasks, goal: Goal]

AtMostOne(S) == S = {} \/ \E x \in S : S = {x}

TypeInv ==
  /\ goal \in [Tasks -> AnyGoal]
  /\ ledger \in [Tasks -> Seq(Tx)]
  /\ evidence \in [Tasks -> Indexes]
  /\ appending \in [Tasks -> SUBSET Indexes]
  /\ \A t \in Tasks : AtMostOne(appending[t])
  /\ \A t \in Tasks : Len(evidence[t]) <= MaxRows
  /\ \A t \in Tasks : \A rows \in appending[t] : Len(rows) <= MaxRows
  /\ pointers \in Pointers
  /\ dirs \subseteq Tasks /\ completing \subseteq Tasks
  /\ syncing \subseteq Copies /\ AtMostOne(syncing)

\* A set of at most one element has at most one element.
LEMMA AtMostOneCardinality ==
  ASSUME NEW S, AtMostOne(S)
  PROVE  Cardinality(S) <= 1
<1>1. CASE S = {}
  BY <1>1, FS_EmptySet
<1>2. CASE \E x \in S : S = {x}
  <2>1. PICK x \in S : S = {x}
    BY <1>2
  <2>2. Cardinality({x}) = 1
    BY FS_Singleton
  <2> QED
    BY <2>1, <2>2
<1> QED
  BY <1>1, <1>2 DEF AtMostOne

\* The invariant below is stronger than the type invariant the runs check.
LEMMA TypeInvImpliesTypeOK == TypeInv => TypeOK
<1> SUFFICES ASSUME TypeInv PROVE TypeOK
  OBVIOUS
<1>1. goal \in [Tasks -> Goal \cup {NoGoal}]
  BY DEF TypeInv, AnyGoal
<1>2. ASSUME NEW t \in Tasks, NEW i \in DOMAIN ledger[t]
      PROVE ledger[t][i].type \in {"goal_state", "evidence", "state_checkpoint", "note"}
  <2>1. ledger[t] \in Seq(Tx)
    BY DEF TypeInv
  <2>2. ledger[t][i] \in Tx
    BY <2>1
  <2> QED
    BY <2>2 DEF Tx
<1>3. ASSUME NEW t \in Tasks, NEW i \in DOMAIN evidence[t]
      PROVE evidence[t][i] \in RowKinds
  <2>1. evidence[t] \in Seq(RowKinds)
    BY DEF TypeInv, Indexes
  <2> QED
    BY <2>1
<1>4. \A t \in Tasks : Len(evidence[t]) <= MaxRows /\ Cardinality(appending[t]) <= 1
  BY AtMostOneCardinality DEF TypeInv
<1>5. syncing \in SUBSET [task: Tasks, goal: Goal] /\ Cardinality(syncing) <= 1
  BY AtMostOneCardinality DEF TypeInv, Copies
<1> QED
  BY <1>1, <1>2, <1>3, <1>4, <1>5 DEF TypeOK, TypeInv, Pointers

-----------------------------------------------------------------------------
(* The evidence index.                                                     *)

\* No more than n positions are among the last n.
LEMMA NewestSize ==
  ASSUME NEW S \in SUBSET Nat, IsFiniteSet(S), NEW n \in Nat
  PROVE  /\ Newest(S, n) \in SUBSET S
         /\ Cardinality(Newest(S, n)) \in 0..n
<1> DEFINE T == Newest(S, n)
           From(i) == {k \in S : k >= i}
           f == [i \in T |-> Cardinality(From(i))]
<1>1. T \in SUBSET S
  BY DEF Newest
<1>2. ASSUME NEW i \in T PROVE /\ IsFiniteSet(From(i)) /\ Cardinality(From(i)) \in 1..n
  <2>1. From(i) \in SUBSET S /\ i \in From(i) /\ Cardinality(From(i)) <= n
    BY DEF Newest
  <2>2. IsFiniteSet(From(i)) /\ Cardinality(From(i)) \in Nat
    BY <2>1, FS_Subset, FS_CardinalityType
  <2>3. Cardinality(From(i)) # 0
    BY <2>1, <2>2, FS_EmptySet
  <2> QED
    BY <2>1, <2>2, <2>3
<1>3. ASSUME NEW i \in T, NEW j \in T, i < j PROVE Cardinality(From(j)) # Cardinality(From(i))
  <2>1. i \in Nat /\ j \in Nat /\ \A k \in S : k \in Nat
    BY <1>1
  <2>2. \A k \in S : k >= j => k >= i
    BY <1>3, <2>1
  <2>3. From(j) \in SUBSET From(i)
    BY <2>2
  <2>4. i >= i /\ ~(i >= j)
    BY <1>3, <2>1
  <2>5. i \in From(i) /\ i \notin From(j)
    BY <1>1, <2>4
  <2> QED
    BY <1>2, <2>3, <2>5, FS_Subset
<1>4. f \in [T -> 1..n]
  BY <1>2
<1>5. \A i, j \in T : f[i] = f[j] => i = j
  <2>1. \A i \in T : i \in Nat
    BY <1>1
  <2> QED
    BY <1>3, <2>1
<1>6. f \in Injection(T, 1..n)
  BY <1>4, <1>5 DEF Injection, IsInjective
<1>7. IsFiniteSet(1..n) /\ Cardinality(1..n) = n
  BY FS_Interval
<1>8. IsFiniteSet(T) /\ Cardinality(T) <= n
  BY <1>6, <1>7, FS_Injection
<1> QED
  BY <1>1, <1>8, FS_CardinalityType

\* Trimming gives an index of at most MaxRows rows, with a success=true row if
\* there was one.
LEMMA TrimmedIndex ==
  ASSUME NEW rows \in Indexes
  PROVE  /\ Trimmed(rows) \in Indexes
         /\ Len(Trimmed(rows)) <= MaxRows
         /\ Has(rows, "success") => Has(Trimmed(rows), "success")
<1> DEFINE success == {i \in DOMAIN rows : rows[i] = "success"}
           share   == (MaxRows * 2) \div 3
           kept    == Newest(success, share)
           others  == Newest(DOMAIN rows \ success, MaxRows - Cardinality(kept))
           a == RowsAt(rows, kept)
           b == RowsAt(rows, others)
<1>1. MaxRows \in Nat /\ share \in Nat /\ share \in 1..MaxRows
  BY GoalAssumption
<1>2. rows \in Seq(RowKinds) /\ Len(rows) \in Nat /\ DOMAIN rows = 1..Len(rows)
  BY DEF Indexes
<1>3. CASE Len(rows) <= MaxRows
  BY <1>3 DEF Trimmed
<1>4. CASE ~(Len(rows) <= MaxRows)
  <2>1. Trimmed(rows) = a \o b
    BY <1>4 DEF Trimmed
  <2>2. success \in SUBSET DOMAIN rows /\ success \in SUBSET Nat /\ IsFiniteSet(success)
    BY <1>2, PositionsFinite
  <2>3. DOMAIN rows \ success \in SUBSET Nat /\ IsFiniteSet(DOMAIN rows \ success)
    BY <1>2, PositionsFinite
  <2>4. kept \in SUBSET success /\ Cardinality(kept) \in 0..share
    <3> HIDE DEF success, share
    <3> QED
      BY <1>1, <2>2, NewestSize
  <2>5. MaxRows - Cardinality(kept) \in Nat
    BY <1>1, <2>4
  <2>6. /\ others \in SUBSET (DOMAIN rows \ success)
        /\ Cardinality(others) \in 0..(MaxRows - Cardinality(kept))
    BY <2>3, <2>5, NewestSize
  <2>7. a \in Seq(RowKinds) /\ Len(a) = Cardinality(kept)
    BY <1>2, <2>2, <2>4, RowsAtSeq
  <2>8. b \in Seq(RowKinds) /\ Len(b) = Cardinality(others)
    BY <1>2, <2>6, RowsAtSeq
  <2>9. a \o b \in Seq(RowKinds) /\ Len(a \o b) <= MaxRows
    BY <1>1, <2>4, <2>6, <2>7, <2>8
  <2>10. ASSUME Has(rows, "success") PROVE Has(a \o b, "success")
    <3>1. success # {}
      BY <2>10 DEF Has
    <3>2. PICK i \in success : \A k \in success : k <= i
      BY <2>2, <3>1, LastPosition
    <3>3. {k \in success : k >= i} = {i}
      BY <2>2, <3>2
    <3>4. i \in kept
      <4> HIDE DEF success, share
      <4>1. Cardinality({i}) = 1
        BY FS_Singleton
      <4>2. 1 <= share
        BY <1>1
      <4>3. Cardinality({k \in success : k >= i}) <= share
        BY <3>3, <4>1, <4>2
      <4> QED
        BY <4>3 DEF Newest
    <3>5. Rank(kept, i) \in DOMAIN a /\ a[Rank(kept, i)] = "success"
      BY <1>2, <2>2, <2>4, <3>4, RowAtRank
    <3>6. Rank(kept, i) \in DOMAIN (a \o b) /\ (a \o b)[Rank(kept, i)] = "success"
      BY <2>7, <2>8, <3>5
    <3> QED
      BY <3>6 DEF Has
  <2> QED
    BY <2>1, <2>9, <2>10 DEF Indexes
<1> QED
  BY <1>3, <1>4

\* What an evidence append prepares for the index.
LEMMA IndexAfterIndex ==
  ASSUME NEW rows \in Indexes, NEW row \in RowKinds, NEW duplicate \in BOOLEAN
  PROVE  /\ IndexAfter(rows, row, duplicate) \in Indexes
         /\ Len(IndexAfter(rows, row, duplicate)) <= MaxRows
         /\ Has(rows, "success") => Has(IndexAfter(rows, row, duplicate), "success")
<1>1. Append(rows, row) \in Indexes
  BY DEF Indexes
<1>2. Has(rows, "success") => Has(Append(rows, row), "success")
  <2>1. SUFFICES ASSUME NEW i \in DOMAIN rows, rows[i] = "success"
                 PROVE  Has(Append(rows, row), "success")
    BY DEF Has
  <2>2. i \in DOMAIN Append(rows, row) /\ Append(rows, row)[i] = "success"
    BY <2>1 DEF Indexes
  <2> QED
    BY <2>2 DEF Has
<1> QED
  BY <1>1, <1>2, TrimmedIndex DEF IndexAfter

-----------------------------------------------------------------------------
(* The shape of a step.                                                    *)

HasEvidence(l) == \E i \in DOMAIN l : l[i].type = "evidence"

\* The ledgers keep their types, and evidence where they had some.
LedgersGrow ==
  /\ ledger' \in [Tasks -> Seq(Tx)]
  /\ \A u \in Tasks : HasEvidence(ledger[u]) => HasEvidence(ledger'[u])

PointersMove ==
  \/ UNCHANGED pointers
  \/ \E u \in Tasks : pointers' = Neutralized(u)
  \/ \E u \in Tasks, focus \in BOOLEAN : pointers' = Pointed(u, focus)

\* What every operation does around the goal.
Around == LedgersGrow /\ PointersMove /\ Quiet /\ dirs' \subseteq Tasks /\ completing' \subseteq Tasks

Contracted(g) == g # NoGoal /\ g.drive => g.contract

StatusOf(g) == IF g = NoGoal THEN "none" ELSE g.status

Allowed == Lifecycle!Matrix \cup Lifecycle!Revivals

\* A goal begins, ends, keeps its status or moves along the matrix.
Lawful(old, new) ==
  \/ new = NoGoal \/ old = NoGoal
  \/ old.status = new.status \/ <<old.status, new.status>> \in Allowed

\* A goal operation: g replaces the goal of t.
GoalStep(t, g) ==
  /\ Around
  /\ goal' = [goal EXCEPT ![t] = g]
  /\ Contracted(goal[t]) => Contracted(g)
  /\ Lawful(goal[t], g)

\* A task operation: no goal changes.
TaskStep == Around /\ UNCHANGED goal

\* What an append may leave of t's ledger.
LEMMA WrittenLedger ==
  ASSUME TypeInv, NEW t \in Tasks, NEW tx \in Tx, NEW g \in AnyGoal, Written(t, tx, g)
  PROVE  /\ LedgersGrow
         /\ tx.type = "evidence" => HasEvidence(ledger'[t])
<1> DEFINE cp == CheckpointOf(t, g)
<1>1. ledger[t] \in Seq(Tx) /\ ledger \in [Tasks -> Seq(Tx)]
  BY DEF TypeInv
<1>2. cp \in Tx
  BY DEF CheckpointOf, CheckpointTx, AnyOk, Tx
<1>3. PICK l \in AfterAppend(ledger[t], tx, cp) : ledger' = [ledger EXCEPT ![t] = l]
  BY DEF Written, AfterAppend
<1>4. /\ l \in Seq(Tx)
      /\ \A i \in DOMAIN ledger[t] : \E n \in DOMAIN l : l[n].type = ledger[t][i].type
      /\ \E n \in DOMAIN l : l[n].type = tx.type
  <2> DEFINE old == ledger[t]
  <2>1. l \in AfterAppend(old, tx, cp) /\ old \in Seq(Tx) /\ cp \in Tx
    BY <1>1, <1>2, <1>3
  <2> HIDE DEF cp, old
  <2>2. /\ l \in Seq(Tx)
        /\ \A i \in DOMAIN old : \E n \in DOMAIN l : l[n].type = old[i].type
        /\ \E n \in DOMAIN l : l[n].type = tx.type
    BY <2>1, AppendKeepsTypes
  <2> QED
    BY <2>2 DEF old
<1>5. HasEvidence(ledger[t]) => HasEvidence(l)
  BY <1>4 DEF HasEvidence
<1>6. ledger'[t] = l /\ \A u \in Tasks \ {t} : ledger'[u] = ledger[u]
  BY <1>1, <1>3
<1>7. ledger' \in [Tasks -> Seq(Tx)]
  BY <1>1, <1>3, <1>4
<1> QED
  BY <1>4, <1>5, <1>6, <1>7 DEF LedgersGrow, HasEvidence

\* A ledger that is not written keeps what it has.
LEMMA UnwrittenLedger ==
  ASSUME TypeInv, UNCHANGED ledger
  PROVE  LedgersGrow
BY DEF TypeInv, LedgersGrow

\* What a best-effort append leaves.
LEMMA LoggedLedger ==
  ASSUME TypeInv, NEW t \in Tasks, NEW tx \in Tx, NEW g \in AnyGoal, Logged(t, tx, g)
  PROVE  LedgersGrow
BY WrittenLedger, UnwrittenLedger DEF Logged

\* The transactions the operations append.
LEMMA TransactionTypes ==
  /\ \A g \in Goal : GoalTx(g) \in Tx
  /\ \A row \in RowKinds : EvidenceTx(row) \in Tx
  /\ \A label \in Labels : NoteTx(label) \in Tx
BY DEF GoalTx, EvidenceTx, NoteTx, Tx

\* The two best-effort pointer writes.
LEMMA PointersSyncedMove ==
  ASSUME NEW t \in Tasks, PointersSynced(t)
  PROVE  PointersMove
BY DEF PointersSynced, PointersMove

\* The pointer write that takes a task out.
LEMMA PointersNeutralizedMove ==
  ASSUME NEW t \in Tasks, PointersNeutralized(t)
  PROVE  PointersMove
BY DEF PointersNeutralized, PointersMove

\* Commit, with a lawful goal, is what a goal step does to goal and ledger.
LEMMA CommitShape ==
  ASSUME TypeInv, NEW t \in Tasks, NEW g \in AnyGoal, NEW tx \in Tx, Commit(t, g, tx),
         PointersMove, Quiet, dirs' \subseteq Tasks, completing' \subseteq Tasks,
         Contracted(goal[t]) => Contracted(g), Lawful(goal[t], g)
  PROVE  GoalStep(t, g)
BY LoggedLedger DEF Commit, GoalStep, Around

\* An operation that leaves the pointers alone.
LEMMA ChangedShape ==
  ASSUME TypeInv, NEW t \in Tasks, NEW g \in Goal, Changed(t, g),
         Contracted(goal[t]) => Contracted(g), Lawful(goal[t], g)
  PROVE  GoalStep(t, g)
<1>1. PointersMove
  BY DEF Changed, PointersMove
<1>2. dirs' \subseteq Tasks /\ completing' \subseteq Tasks
  BY DEF Changed, TypeInv
<1> QED
  BY <1>1, <1>2, CommitShape, TransactionTypes DEF Changed, AnyGoal

\* An operation that points at its task again.
LEMMA RerunShape ==
  ASSUME TypeInv, NEW t \in Tasks, NEW g \in Goal, Rerun(t, g),
         Contracted(goal[t]) => Contracted(g), Lawful(goal[t], g)
  PROVE  GoalStep(t, g)
<1>1. PointersMove
  BY PointersSyncedMove DEF Rerun
<1>2. dirs' \subseteq Tasks /\ completing' \subseteq Tasks
  BY DEF Rerun, TypeInv
<1> QED
  BY <1>1, <1>2, CommitShape, TransactionTypes DEF Rerun, AnyGoal

\* A goal with the fields an amendment writes.
LEMMA AmendedGoal ==
  ASSUME NEW old \in Goal, NEW drive \in BOOLEAN, NEW contract \in BOOLEAN,
         NEW gate \in BOOLEAN, NEW proof \in BOOLEAN, NEW progress \in Nat
  PROVE  [old EXCEPT !.drive = drive, !.contract = contract, !.gated = gate,
                     !.evidence = proof, !.checkpoints = progress] \in Goal
<1>1. [old EXCEPT !.drive = drive] \in Goal
  BY DEF Goal
<1>2. \A a \in Goal : [a EXCEPT !.contract = contract] \in Goal
  BY DEF Goal
<1>3. \A a \in Goal : [a EXCEPT !.gated = gate] \in Goal
  BY DEF Goal
<1>4. \A a \in Goal : [a EXCEPT !.evidence = proof] \in Goal
  BY DEF Goal
<1>5. \A a \in Goal : [a EXCEPT !.checkpoints = progress] \in Goal
  BY DEF Goal
<1> QED
  BY <1>1, <1>2, <1>3, <1>4, <1>5

\* A goal that runs again.
LEMMA ResumedGoal ==
  ASSUME NEW old \in Goal, NEW drive \in BOOLEAN
  PROVE  [old EXCEPT !.status = "running", !.drive = drive] \in Goal
<1>1. "running" \in Statuses
  BY DEF Statuses
<1> HIDE DEF Statuses
<1> QED
  BY <1>1 DEF Goal

\* The goal an operation owns is a goal.
LEMMA OwnedGoal ==
  ASSUME TypeInv, NEW t \in Tasks, NEW s, Owned(s, t)
  PROVE  goal[t] \in Goal /\ goal[t] # NoGoal
BY DEF TypeInv, Owned, AnyGoal

\* Every operation of framework_goal_drive is a goal step.
LEMMA GoalOperationShape ==
  ASSUME TypeInv, NEW t \in Tasks, NEW s \in Sessions \cup {None},
         Guarded(s, t) \/ Clear(s, t, TRUE) \/ Start(t)
  PROVE  \E g \in AnyGoal : GoalStep(t, g)
<1> USE DEF Contracted, Lawful, Allowed, Lifecycle!Matrix, Lifecycle!Revivals
<1> SUFFICES ASSUME \A g \in AnyGoal : ~GoalStep(t, g) PROVE FALSE
  OBVIOUS
<1>1. CASE Checkpoint(s, t)
  <2> DEFINE g == [goal[t] EXCEPT !.checkpoints = @ + 1]
  <2>1. g \in Goal /\ g # NoGoal /\ Changed(t, g)
    BY <1>1, OwnedGoal, GoalAssumption DEF Checkpoint, Goal
  <2>2. g.status = goal[t].status /\ g.drive = goal[t].drive /\ g.contract = goal[t].contract
    BY <1>1, OwnedGoal DEF Checkpoint, Goal
  <2> HIDE DEF g
  <2> QED
    BY <1>1, <2>1, <2>2, ChangedShape, OwnedGoal DEF Checkpoint, AnyGoal
<1>2. CASE Pause(s, t)
  <2> DEFINE g == [goal[t] EXCEPT !.status = "paused"]
  <2>1. g \in Goal /\ g # NoGoal /\ Changed(t, g)
    BY <1>2, OwnedGoal, GoalAssumption DEF Pause, Goal, Statuses
  <2>2. /\ <<goal[t].status, g.status>> \in Allowed
        /\ g.drive = goal[t].drive /\ g.contract = goal[t].contract
    BY <1>2, OwnedGoal DEF Pause, Goal, ValidTransition
  <2> HIDE DEF g
  <2> QED
    BY <1>2, <2>1, <2>2, ChangedShape, OwnedGoal DEF Pause, AnyGoal
<1>3. CASE Block(s, t)
  <2> DEFINE g == [goal[t] EXCEPT !.status = "blocked", !.drive = FALSE]
  <2>1. g \in Goal /\ g # NoGoal /\ Changed(t, g)
    BY <1>3, OwnedGoal, GoalAssumption DEF Block, Goal, Statuses
  <2>2. <<goal[t].status, g.status>> \in Allowed /\ ~g.drive
    BY <1>3, OwnedGoal DEF Block, Goal, ValidTransition
  <2> HIDE DEF g
  <2> QED
    BY <1>3, <2>1, <2>2, ChangedShape, OwnedGoal DEF Block, AnyGoal
<1>4. CASE Unblock(s, t)
  <2> DEFINE g == [goal[t] EXCEPT !.status = "running"]
  <2>1. g \in Goal /\ g # NoGoal /\ Changed(t, g)
    BY <1>4, OwnedGoal, GoalAssumption DEF Unblock, Goal, Statuses
  <2>2. /\ <<goal[t].status, g.status>> \in Allowed
        /\ g.drive = goal[t].drive /\ g.contract = goal[t].contract
    BY <1>4, OwnedGoal DEF Unblock, Goal, ValidTransition
  <2> HIDE DEF g
  <2> QED
    BY <1>4, <2>1, <2>2, ChangedShape, OwnedGoal DEF Unblock, AnyGoal
<1>5. CASE Amend(s, t)
  <2>1. PICK p \in Amends :
          LET g == [goal[t] EXCEPT !.drive = Over(p.drive, @),
                                   !.contract = Over(p.contract, @),
                                   !.gated = Over(p.gated, @),
                                   !.evidence = @ \/ p.drive = "on",
                                   !.checkpoints = IF p.keepProgress THEN @ ELSE 0]
          IN ContractHolds(g.drive, g.contract) /\ Changed(t, g)
    BY <1>5 DEF Amend
  <2> DEFINE g == [goal[t] EXCEPT !.drive = Over(p.drive, @),
                                  !.contract = Over(p.contract, @),
                                  !.gated = Over(p.gated, @),
                                  !.evidence = @ \/ p.drive = "on",
                                  !.checkpoints = IF p.keepProgress THEN @ ELSE 0]
  <2>2. goal[t] \in Goal /\ goal[t] # NoGoal /\ p \in AmendPayload
    BY <1>5, OwnedGoal, GoalAssumption DEF Amend
  <2>3. g \in Goal /\ g # NoGoal
    <3> DEFINE drive == Over(p.drive, goal[t].drive)
               contract == Over(p.contract, goal[t].contract)
               gate == Over(p.gated, goal[t].gated)
               proof == goal[t].evidence \/ p.drive = "on"
               progress == IF p.keepProgress THEN goal[t].checkpoints ELSE 0
    <3>1. drive \in BOOLEAN /\ contract \in BOOLEAN /\ gate \in BOOLEAN
      BY <2>2 DEF Goal, Over
    <3>2. proof \in BOOLEAN
      OBVIOUS
    <3>3. progress \in Nat
      BY <2>2 DEF Goal
    <3>4. g = [goal[t] EXCEPT !.drive = drive, !.contract = contract, !.gated = gate,
                              !.evidence = proof, !.checkpoints = progress]
      OBVIOUS
    <3> HIDE DEF drive, contract, gate, proof, progress, g
    <3>5. g \in Goal
      BY <2>2, <3>1, <3>2, <3>3, <3>4, AmendedGoal
    <3> QED
      BY <3>5, GoalAssumption
  <2>4. g.status = goal[t].status
    BY <2>2 DEF Goal
  <2>5. (g.drive => g.contract) /\ Changed(t, g)
    BY <2>1 DEF ContractHolds
  <2> HIDE DEF g
  <2> QED
    BY <2>3, <2>4, <2>5, ChangedShape DEF AnyGoal
<1>6. CASE Resume(s, t)
  <2>1. PICK field \in {"keep", "on", "off"} :
          LET g == [goal[t] EXCEPT !.status = "running", !.drive = Over(field, @)]
          IN ContractHolds(g.drive, g.contract) /\ Rerun(t, g)
    BY <1>6 DEF Resume
  <2> DEFINE g == [goal[t] EXCEPT !.status = "running", !.drive = Over(field, @)]
  <2>2. goal[t] \in Goal /\ goal[t] # NoGoal /\ goal[t].status \in {"paused", "failed", "completed"}
    BY <1>6, OwnedGoal DEF Resume
  <2>3. g \in Goal /\ g # NoGoal
    <3>1. Over(field, goal[t].drive) \in BOOLEAN
      BY <2>2 DEF Goal, Over
    <3>2. g \in Goal
      BY <2>2, <3>1, ResumedGoal
    <3> QED
      BY <3>2, GoalAssumption
  <2>4. <<goal[t].status, g.status>> \in Allowed
    BY <2>2 DEF Goal
  <2>5. (g.drive => g.contract) /\ Rerun(t, g)
    BY <2>1 DEF ContractHolds
  <2> HIDE DEF g
  <2> QED
    BY <2>3, <2>4, <2>5, RerunShape DEF AnyGoal
<1>7. CASE Retry(s, t)
  <2> DEFINE g == [goal[t] EXCEPT !.status = "running"]
  <2>1. g \in Goal /\ g # NoGoal /\ Rerun(t, g)
    BY <1>7, OwnedGoal, GoalAssumption DEF Retry, Goal, Statuses
  <2>2. /\ <<goal[t].status, g.status>> \in Allowed
        /\ g.drive = goal[t].drive /\ g.contract = goal[t].contract
    BY <1>7, OwnedGoal DEF Retry, Goal
  <2> HIDE DEF g
  <2> QED
    BY <1>7, <2>1, <2>2, RerunShape, OwnedGoal DEF Retry, AnyGoal
<1>8. CASE Fail(s, t)
  <2> DEFINE g == [goal[t] EXCEPT !.status = "failed"]
  <2>1. g \in Goal /\ g # NoGoal /\ Commit(t, g, NoteTx("goal_failed"))
    BY <1>8, OwnedGoal, GoalAssumption DEF Fail, Goal, Statuses
  <2>2. /\ <<goal[t].status, g.status>> \in Allowed
        /\ g.drive = goal[t].drive /\ g.contract = goal[t].contract
    BY <1>8, OwnedGoal DEF Fail, CanFail, Goal, Statuses
  <2>3. PointersMove
    BY <1>8, PointersNeutralizedMove DEF Fail
  <2>4. Quiet /\ dirs' \subseteq Tasks /\ completing' \subseteq Tasks
    BY <1>8 DEF Fail, TypeInv
  <2> HIDE DEF g
  <2>5. (Contracted(goal[t]) => Contracted(g)) /\ Lawful(goal[t], g)
    BY <1>8, <2>1, <2>2, OwnedGoal DEF Fail
  <2>6. NoteTx("goal_failed") \in Tx /\ g \in AnyGoal
    BY <2>1 DEF NoteTx, Tx, Labels, AnyGoal
  <2> HIDE DEF Contracted, Lawful, Allowed
  <2> QED
    BY <2>1, <2>3, <2>4, <2>5, <2>6, CommitShape
<1>9. CASE Complete(s, t)
  <2>1. /\ goal[t] \in Goal /\ goal[t] # NoGoal /\ goal[t].status \in {"running", "review_pending"}
        /\ PointersMove /\ Quiet /\ dirs' \subseteq Tasks /\ completing' \subseteq Tasks
    BY <1>9, OwnedGoal DEF Complete, TypeInv, PointersMove
  <2>2. CASE LET g == [goal[t] EXCEPT !.status = "review_pending"]
             IN Commit(t, g, NoteTx("goal_quality_gate_blocked"))
    <3> DEFINE g == [goal[t] EXCEPT !.status = "review_pending"]
    <3>1. g \in Goal /\ g # NoGoal
      BY <2>1, GoalAssumption DEF Goal, Statuses
    <3>2. /\ g.status = goal[t].status \/ <<goal[t].status, g.status>> \in Allowed
          /\ g.drive = goal[t].drive /\ g.contract = goal[t].contract
      BY <2>1 DEF Goal
    <3>3. Commit(t, g, NoteTx("goal_quality_gate_blocked"))
      BY <2>2
    <3> HIDE DEF g
    <3>4. (Contracted(goal[t]) => Contracted(g)) /\ Lawful(goal[t], g)
      BY <2>1, <3>1, <3>2
    <3>5. NoteTx("goal_quality_gate_blocked") \in Tx /\ g \in AnyGoal
      BY <3>1 DEF NoteTx, Tx, Labels, AnyGoal
    <3> HIDE DEF Contracted, Lawful, Allowed
    <3> QED
      BY <2>1, <3>3, <3>4, <3>5, CommitShape
  <2>3. CASE LET g == [goal[t] EXCEPT !.iterations = @ + 1]
             IN Commit(t, g, NoteTx("goal_iteration_completed"))
    <3> DEFINE g == [goal[t] EXCEPT !.iterations = @ + 1]
    <3>1. g \in Goal /\ g # NoGoal
      BY <2>1, GoalAssumption DEF Goal
    <3>2. g.status = goal[t].status /\ g.drive = goal[t].drive /\ g.contract = goal[t].contract
      BY <2>1 DEF Goal
    <3>3. Commit(t, g, NoteTx("goal_iteration_completed"))
      BY <2>3
    <3> HIDE DEF g
    <3>4. (Contracted(goal[t]) => Contracted(g)) /\ Lawful(goal[t], g)
      BY <2>1, <3>1, <3>2
    <3>5. NoteTx("goal_iteration_completed") \in Tx /\ g \in AnyGoal
      BY <3>1 DEF NoteTx, Tx, Labels, AnyGoal
    <3> HIDE DEF Contracted, Lawful, Allowed
    <3> QED
      BY <2>1, <3>3, <3>4, <3>5, CommitShape
  <2> QED
    BY <1>9, <2>2, <2>3 DEF Complete
<1>10. CASE Clear(s, t, FALSE) \/ Clear(s, t, TRUE)
  <2>1. PointersMove /\ Quiet /\ dirs' \subseteq Tasks /\ completing' \subseteq Tasks
    BY <1>10, PointersNeutralizedMove DEF Clear, TypeInv
  <2>2. CASE goal[t] = NoGoal
    <3>1. UNCHANGED <<goal, ledger>>
      BY <1>10, <2>2 DEF Clear
    <3>2. goal' = [goal EXCEPT ![t] = NoGoal]
      BY <2>2, <3>1 DEF TypeInv
    <3> QED
      BY <2>1, <3>1, <3>2, UnwrittenLedger DEF GoalStep, Around, AnyGoal
  <2>3. CASE goal[t] # NoGoal
    <3>1. Commit(t, NoGoal, NoteTx("goal_cleared"))
      BY <1>10, <2>3 DEF Clear
    <3>2. (Contracted(goal[t]) => Contracted(NoGoal)) /\ Lawful(goal[t], NoGoal)
      OBVIOUS
    <3>3. NoteTx("goal_cleared") \in Tx /\ NoGoal \in AnyGoal
      BY DEF NoteTx, Tx, Labels, AnyGoal
    <3> HIDE DEF Contracted, Lawful, Allowed
    <3> QED
      BY <2>1, <3>1, <3>2, <3>3, CommitShape
  <2> QED
    BY <2>2, <2>3
<1>11. CASE Start(t)
  <2>1. PICK p \in Starts, owner \in Sessions \cup {None} :
          LET g == [status |-> p.status, drive |-> p.drive,
                    evidence |-> p.drive \/ p.evidence, contract |-> p.contract,
                    gated |-> p.gated, checkpoints |-> 0, iterations |-> 0,
                    session |-> owner]
          IN ContractHolds(p.drive, p.contract) /\ Commit(t, g, GoalTx(g))
    BY <1>11 DEF Start
  <2> DEFINE g == [status |-> p.status, drive |-> p.drive,
                   evidence |-> p.drive \/ p.evidence, contract |-> p.contract,
                   gated |-> p.gated, checkpoints |-> 0, iterations |-> 0,
                   session |-> owner]
  <2>2. g \in Goal
    BY GoalAssumption DEF Goal, StartPayload
  <2>3. g.drive => g.contract
    BY <2>1 DEF ContractHolds
  <2>4. Commit(t, g, GoalTx(g))
    BY <2>1
  <2>5. PointersMove /\ goal[t] = NoGoal
    BY <1>11, PointersSyncedMove DEF Start
  <2>6. Quiet /\ dirs' \subseteq Tasks /\ completing' \subseteq Tasks
    BY <1>11 DEF Start, TypeInv
  <2> HIDE DEF g
  <2> QED
    BY <2>2, <2>3, <2>4, <2>5, <2>6, CommitShape, TransactionTypes DEF AnyGoal
<1> QED
  BY <1>1, <1>2, <1>3, <1>4, <1>5, <1>6, <1>7, <1>8, <1>9, <1>10, <1>11 DEF Guarded

\* The task tools and the promotion leave the goals alone.
LEMMA TaskOperationShape ==
  ASSUME TypeInv, NEW t \in Tasks,
         TaskCreate(t) \/ TaskFocus(t) \/ FindNoGoal(t) \/ CompleteTask(t) \/ Promote
  PROVE  TaskStep
<1> USE DEF TaskStep, Around
<1> USE UnwrittenLedger
<1>1. goal[t] \in AnyGoal /\ dirs \subseteq Tasks /\ completing \subseteq Tasks
  BY DEF TypeInv
<1>2. CASE TaskCreate(t)
  <2>1. NoteTx("task_created") \in Tx
    BY DEF NoteTx, Tx, Labels
  <2>2. LedgersGrow
    BY <1>1, <1>2, <2>1, LoggedLedger DEF TaskCreate
  <2>3. PointersMove
    BY <1>2 DEF TaskCreate, PointersMove
  <2> QED
    BY <1>1, <1>2, <2>2, <2>3 DEF TaskCreate
<1>3. CASE TaskFocus(t)
  <2>1. PointersMove
    BY <1>3 DEF TaskFocus, PointersMove
  <2> QED
    BY <1>1, <1>3, <2>1 DEF TaskFocus
<1>4. CASE FindNoGoal(t)
  <2>1. PointersMove
    BY <1>4 DEF FindNoGoal, PointersMove
  <2> QED
    BY <1>1, <1>4, <2>1 DEF FindNoGoal
<1>5. CASE CompleteTask(t)
  <2>1. PICK u \in {t, pointers.active} \ {None} :
          \/ UNCHANGED <<pointers, ledger, dirs>>
          \/ /\ pointers' = Neutralized(u)
             /\ UNCHANGED ledger \/ Logged(u, NoteTx("task_completed"), goal[u])
             /\ dirs' = dirs \cup {u}
    BY <1>5 DEF CompleteTask
  <2>2. u \in Tasks
    BY <2>1 DEF TypeInv, Pointers
  <2>3. NoteTx("task_completed") \in Tx /\ goal[u] \in AnyGoal
    BY <2>2 DEF NoteTx, Tx, Labels, TypeInv
  <2>4. LedgersGrow
    BY <2>1, <2>2, <2>3, LoggedLedger
  <2>5. PointersMove
    BY <2>1, <2>2 DEF PointersMove
  <2>6. dirs' \subseteq Tasks
    BY <1>1, <2>1, <2>2
  <2> QED
    BY <1>1, <1>5, <2>4, <2>5, <2>6 DEF CompleteTask
<1>6. CASE Promote
  <2>1. PointersMove
    BY <1>6 DEF Promote, PointersMove
  <2> QED
    BY <1>1, <1>6, <2>1 DEF Promote, Quiet
<1> QED
  BY <1>2, <1>3, <1>4, <1>5, <1>6

\* A step is a goal step, a task step, a step of an evidence append or of a
\* runner's write-back.
Shape ==
  \/ \E t \in Tasks, g \in AnyGoal : GoalStep(t, g)
  \/ TaskStep
  \/ \E t \in Tasks : LogEvidence(t) \/ WriteIndex(t) \/ ReadForSync(t)
  \/ WriteSync

\* Every step has one of those shapes.
LEMMA StepShape ==
  ASSUME TypeInv, Next
  PROVE  Shape
<1>1. CASE \E t \in Tasks, s \in Sessions \cup {None} : Guarded(s, t) \/ Clear(s, t, TRUE)
  BY <1>1, GoalOperationShape DEF Shape
<1>2. ASSUME NEW t \in Tasks, Start(t) PROVE Shape
  <2>1. None \in Sessions \cup {None}
    OBVIOUS
  <2> QED
    BY <1>2, <2>1, GoalOperationShape DEF Shape
<1>3. ASSUME NEW t \in Tasks, TaskCreate(t) \/ TaskFocus(t) \/ FindNoGoal(t) \/ CompleteTask(t)
      PROVE Shape
  BY <1>3, TaskOperationShape DEF Shape
<1>4. CASE Promote
  <2>1. pointers.active \in Tasks
    BY <1>4 DEF Promote
  <2> QED
    BY <1>4, <2>1, TaskOperationShape DEF Shape
<1>5. CASE \E t \in Tasks : LogEvidence(t) \/ WriteIndex(t) \/ ReadForSync(t)
  BY <1>5 DEF Shape
<1>6. CASE WriteSync
  BY <1>6 DEF Shape
<1> QED
  BY <1>1, <1>2, <1>3, <1>4, <1>5, <1>6 DEF Next

-----------------------------------------------------------------------------
(* The inductive invariant.                                                *)

\* The copy a runner holds is contracted too, or its write-back would undo an
\* amendment.
DriveInv ==
  /\ \A t \in Tasks : Contracted(goal[t])
  /\ \A copy \in syncing : Contracted(copy.goal)

\* An index, written or about to be, has evidence in the ledger.
EvidenceInv ==
  \A t \in Tasks : evidence[t] # <<>> \/ appending[t] # {} => HasEvidence(ledger[t])

\* An index about to be written keeps a success=true row of the one it replaces.
PreparedInv ==
  \A t \in Tasks : \A rows \in appending[t] :
    Has(evidence[t], "success") => Has(rows, "success")

IInv == TypeInv /\ DriveInv /\ EvidenceInv /\ PreparedInv /\ PointersListed

\* The invariant holds of an empty repository.
LEMMA InitInv == Init => IInv
<1> SUFFICES ASSUME Init PROVE IInv
  OBVIOUS
<1>1. TypeInv
  BY GoalAssumption DEF Init, TypeInv, AnyGoal, Indexes, Pointers, Copies, AtMostOne
<1>2. DriveInv
  BY DEF Init, DriveInv, Contracted
<1>3. EvidenceInv
  BY DEF Init, EvidenceInv
<1>4. PreparedInv
  BY DEF Init, PreparedInv
<1>5. PointersListed
  BY DEF Init, PointersListed
<1> QED
  BY <1>1, <1>2, <1>3, <1>4, <1>5 DEF IInv

\* However the pointers move, they point at tasks, and at listed ones.
LEMMA PointersMoved ==
  ASSUME pointers \in Pointers, PointersListed, PointersMove
  PROVE  pointers' \in Pointers /\ PointersListed'
<1>1. CASE UNCHANGED pointers
  BY <1>1 DEF PointersListed
<1>2. CASE \E u \in Tasks : pointers' = Neutralized(u)
  <2>1. PICK u \in Tasks : pointers' = Neutralized(u)
    BY <1>2
  <2>2. /\ pointers'.active = IF pointers.active = u THEN None ELSE pointers.active
        /\ pointers'.focus = IF pointers.focus = u THEN None ELSE pointers.focus
        /\ pointers'.listed = pointers.listed \ {u}
        /\ pointers' \in Pointers
    BY <2>1 DEF Neutralized, Pointers
  <2>3. \A v \in {pointers'.active, pointers'.focus} \ {None} : v \in pointers'.listed
    BY <2>2 DEF PointersListed
  <2> QED
    BY <2>2, <2>3 DEF PointersListed
<1>3. CASE \E u \in Tasks, focus \in BOOLEAN : pointers' = Pointed(u, focus)
  BY <1>3, GoalAssumption DEF PointersListed, Pointed, Pointers
<1> QED
  BY <1>1, <1>2, <1>3 DEF PointersMove

\* A goal or task step.
LEMMA AroundStep ==
  ASSUME IInv, Around, goal' \in [Tasks -> AnyGoal], \A t \in Tasks : Contracted(goal'[t])
  PROVE  IInv'
<1>1. UNCHANGED <<evidence, appending, syncing>>
  BY DEF Around, Quiet
<1>2. LedgersGrow /\ PointersMove /\ dirs' \subseteq Tasks /\ completing' \subseteq Tasks
  BY DEF Around
<1>3. pointers' \in Pointers /\ PointersListed'
  BY <1>2, PointersMoved DEF IInv, TypeInv
<1>4. TypeInv'
  BY <1>1, <1>2, <1>3 DEF IInv, TypeInv, LedgersGrow
<1>5. DriveInv'
  BY <1>1 DEF IInv, DriveInv
<1>6. EvidenceInv'
  BY <1>1, <1>2 DEF IInv, EvidenceInv, LedgersGrow
<1>7. PreparedInv'
  BY <1>1 DEF IInv, PreparedInv
<1> QED
  BY <1>3, <1>4, <1>5, <1>6, <1>7 DEF IInv

\* The first half of an evidence append.
LEMMA LogEvidenceStep ==
  ASSUME IInv, NEW t \in Tasks, LogEvidence(t)
  PROVE  IInv'
<1>1. PICK row \in Rows, duplicate \in BOOLEAN :
        /\ Written(t, EvidenceTx(row), goal[t])
        /\ appending' = [appending EXCEPT ![t] = {IndexAfter(evidence[t], row, duplicate)}]
  BY DEF LogEvidence
<1> DEFINE next == IndexAfter(evidence[t], row, duplicate)
<1>2. UNCHANGED <<goal, evidence, pointers, syncing, completing>> /\ dirs' = dirs \cup {t}
  BY DEF LogEvidence
<1>3. row \in RowKinds /\ evidence[t] \in Indexes /\ goal[t] \in AnyGoal
  BY GoalAssumption DEF IInv, TypeInv
<1>4. LedgersGrow /\ HasEvidence(ledger'[t])
  <2>1. EvidenceTx(row) \in Tx /\ EvidenceTx(row).type = "evidence"
    BY <1>3, TransactionTypes DEF EvidenceTx
  <2> QED
    BY <1>1, <1>3, <2>1, WrittenLedger DEF IInv
<1>5. /\ next \in Indexes /\ Len(next) <= MaxRows
      /\ Has(evidence[t], "success") => Has(next, "success")
  BY <1>3, IndexAfterIndex
<1> HIDE DEF next
<1>6. /\ appending \in [Tasks -> SUBSET Indexes] /\ appending' = [appending EXCEPT ![t] = {next}]
      /\ appending'[t] = {next} /\ \A u \in Tasks \ {t} : appending'[u] = appending[u]
  BY <1>1 DEF IInv, TypeInv, next
<1>7. TypeInv'
  <2>1. appending' \in [Tasks -> SUBSET Indexes]
    BY <1>5, <1>6
  <2>2. \A u \in Tasks : AtMostOne(appending'[u])
    BY <1>6 DEF IInv, TypeInv, AtMostOne
  <2>3. \A u \in Tasks : \A rows \in appending'[u] : Len(rows) <= MaxRows
    BY <1>5, <1>6 DEF IInv, TypeInv
  <2>4. dirs' \subseteq Tasks
    BY <1>2 DEF IInv, TypeInv
  <2> QED
    BY <1>2, <1>4, <2>1, <2>2, <2>3, <2>4 DEF IInv, TypeInv, LedgersGrow
<1>8. DriveInv'
  BY <1>2 DEF IInv, DriveInv
<1>9. EvidenceInv'
  BY <1>2, <1>4, <1>6 DEF IInv, EvidenceInv, LedgersGrow
<1>10. PreparedInv'
  BY <1>2, <1>5, <1>6 DEF IInv, PreparedInv
<1>11. PointersListed'
  BY <1>2 DEF IInv, PointersListed
<1> QED
  BY <1>7, <1>8, <1>9, <1>10, <1>11 DEF IInv

\* The second half: a success=true row of the index stays.
LEMMA WriteIndexStep ==
  ASSUME IInv, NEW t \in Tasks, WriteIndex(t)
  PROVE  /\ IInv'
         /\ \A u \in Tasks : Has(evidence[u], "success") => Has(evidence'[u], "success")
<1>1. /\ UNCHANGED <<goal, ledger, pointers, dirs, syncing, completing>>
      /\ appending' = [appending EXCEPT ![t] = {}] /\ appending[t] # {}
  BY DEF WriteIndex
<1>2. \/ UNCHANGED evidence
      \/ \E rows \in appending[t] : evidence' = [evidence EXCEPT ![t] = rows]
  BY DEF WriteIndex
<1>3. /\ evidence \in [Tasks -> Indexes] /\ appending \in [Tasks -> SUBSET Indexes]
      /\ appending'[t] = {} /\ \A u \in Tasks \ {t} : appending'[u] = appending[u]
  BY <1>1 DEF IInv, TypeInv
<1>4. /\ evidence' \in [Tasks -> Indexes]
      /\ \A u \in Tasks \ {t} : evidence'[u] = evidence[u]
      /\ evidence'[t] = evidence[t] \/ evidence'[t] \in appending[t]
  BY <1>2, <1>3
<1>5. TypeInv'
  <2>1. appending' \in [Tasks -> SUBSET Indexes]
    BY <1>1, <1>3
  <2>2. \A u \in Tasks : AtMostOne(appending'[u])
    BY <1>3 DEF IInv, TypeInv, AtMostOne
  <2>3. \A u \in Tasks : \A rows \in appending'[u] : Len(rows) <= MaxRows
    BY <1>3 DEF IInv, TypeInv
  <2>4. \A u \in Tasks : Len(evidence'[u]) <= MaxRows
    BY <1>4 DEF IInv, TypeInv
  <2> QED
    BY <1>1, <1>4, <2>1, <2>2, <2>3, <2>4 DEF IInv, TypeInv
<1>6. DriveInv'
  BY <1>1 DEF IInv, DriveInv
<1>7. EvidenceInv'
  BY <1>1, <1>3, <1>4 DEF IInv, EvidenceInv
<1>8. PreparedInv'
  BY <1>3, <1>4 DEF IInv, PreparedInv
<1>9. PointersListed'
  BY <1>1 DEF IInv, PointersListed
<1>10. \A u \in Tasks : Has(evidence[u], "success") => Has(evidence'[u], "success")
  BY <1>4 DEF IInv, PreparedInv
<1> QED
  BY <1>5, <1>6, <1>7, <1>8, <1>9, <1>10 DEF IInv

\* A runner reads a goal.
LEMMA ReadForSyncStep ==
  ASSUME IInv, NEW t \in Tasks, ReadForSync(t)
  PROVE  IInv'
<1>1. /\ UNCHANGED <<goal, ledger, evidence, pointers, dirs, appending, completing>>
      /\ syncing' = {[task |-> t, goal |-> goal[t]]} /\ goal[t] # NoGoal
  BY DEF ReadForSync
<1>2. goal[t] \in Goal
  BY <1>1 DEF IInv, TypeInv, AnyGoal
<1>3. syncing' \subseteq Copies /\ AtMostOne(syncing')
  BY <1>1, <1>2 DEF Copies, AtMostOne
<1>4. TypeInv'
  BY <1>1, <1>3 DEF IInv, TypeInv
<1>5. DriveInv'
  BY <1>1 DEF IInv, DriveInv
<1>6. EvidenceInv' /\ PreparedInv' /\ PointersListed'
  BY <1>1 DEF IInv, EvidenceInv, PreparedInv, PointersListed
<1> QED
  BY <1>4, <1>5, <1>6 DEF IInv

\* A runner writes back the goal it read.
LEMMA WriteSyncStep ==
  ASSUME IInv, WriteSync
  PROVE  IInv'
<1>1. UNCHANGED <<ledger, evidence, pointers, dirs, appending, completing>> /\ syncing' = {}
  BY DEF WriteSync
<1>2. UNCHANGED goal \/ \E copy \in syncing : goal' = [goal EXCEPT ![copy.task] = copy.goal]
  BY DEF WriteSync
<1>3. \A copy \in syncing : copy.task \in Tasks /\ copy.goal \in AnyGoal /\ Contracted(copy.goal)
  BY DEF IInv, TypeInv, DriveInv, Copies, AnyGoal
<1>4. goal' \in [Tasks -> AnyGoal] /\ \A t \in Tasks : Contracted(goal'[t])
  BY <1>2, <1>3 DEF IInv, TypeInv, DriveInv
<1>5. TypeInv'
  BY <1>1, <1>4 DEF IInv, TypeInv, AtMostOne
<1>6. DriveInv'
  BY <1>1, <1>4 DEF DriveInv
<1>7. EvidenceInv' /\ PreparedInv' /\ PointersListed'
  BY <1>1 DEF IInv, EvidenceInv, PreparedInv, PointersListed
<1> QED
  BY <1>5, <1>6, <1>7 DEF IInv

\* Every step keeps the invariant.
LEMMA StepInv == IInv /\ [Next]_vars => IInv'
<1> SUFFICES ASSUME IInv, [Next]_vars PROVE IInv'
  OBVIOUS
<1>1. goal \in [Tasks -> AnyGoal] /\ TypeInv
  BY DEF IInv, TypeInv
<1>2. CASE UNCHANGED vars
  BY <1>2 DEF vars, IInv, TypeInv, DriveInv, EvidenceInv, PreparedInv, PointersListed
<1>3. ASSUME NEW t \in Tasks, NEW g \in AnyGoal, GoalStep(t, g) PROVE IInv'
  <2>1. Around /\ goal' = [goal EXCEPT ![t] = g] /\ Contracted(g)
    BY <1>3 DEF GoalStep, IInv, DriveInv
  <2>2. goal' \in [Tasks -> AnyGoal] /\ \A u \in Tasks : Contracted(goal'[u])
    BY <1>1, <2>1 DEF IInv, DriveInv
  <2> QED
    BY <2>1, <2>2, AroundStep
<1>4. CASE TaskStep
  BY <1>1, <1>4, AroundStep DEF TaskStep, IInv, DriveInv
<1>5. CASE Next
  BY <1>1, <1>3, <1>4, <1>5, StepShape, LogEvidenceStep, WriteIndexStep, ReadForSyncStep,
     WriteSyncStep DEF Shape
<1> QED
  BY <1>2, <1>5

\* The invariant holds in every reachable state.
LEMMA Invariance == Spec => []IInv
BY InitInv, StepInv, PTL DEF Spec

-----------------------------------------------------------------------------
(* Theorems.                                                               *)

\* Every variable has its type in every reachable state; the index never
\* exceeds its limit.
THEOREM TypeCorrect == Spec => []TypeOK
<1>1. IInv => TypeOK
  BY TypeInvImpliesTypeOK DEF IInv
<1> QED
  BY Invariance, <1>1, PTL

\* A driving goal carries the deep contract, whichever operations and runner
\* write-backs led to it.
THEOREM DrivingIsContracted == Spec => []DrivingGoalHasContract
<1>1. IInv => DrivingGoalHasContract
  BY DEF IInv, DriveInv, Contracted, DrivingGoalHasContract
<1> QED
  BY Invariance, <1>1, PTL

\* The pointers point at listed tasks.
THEOREM PointersAreListed == Spec => []PointersListed
<1>1. IInv => PointersListed
  BY DEF IInv
<1> QED
  BY Invariance, <1>1, PTL

\* Compaction at any moment leaves replay the same goal.
THEOREM CompactionIsFaithful == Spec => []CompactionKeepsGoal
<1>1. ASSUME IInv PROVE CompactionKeepsGoal
  <2>1. \A t \in Tasks : ledger[t] \in Seq(Tx)
    BY <1>1 DEF IInv, TypeInv
  <2>2. ASSUME NEW t \in Tasks
        PROVE HydratedGoal(Compacted(ledger[t]), goal[t]) = HydratedGoal(ledger[t], goal[t])
    BY <2>1, CompactionKeepsReplay
  <2> QED
    BY <2>2 DEF CompactionKeepsGoal
<1> QED
  BY Invariance, <1>1, PTL

\* What the index holds, the ledger has a row of.
THEOREM IndexIsLogged == Spec => []EvidenceIsLogged
<1>1. IInv => EvidenceIsLogged
  BY DEF IInv, EvidenceInv, HasEvidence, EvidenceIsLogged
<1> QED
  BY Invariance, <1>1, PTL

\* No step loses the last success=true row of an index.
THEOREM SuccessSurvives == Spec => SuccessKept
<1> DEFINE Kept1 == \A t \in Tasks : Has(evidence[t], "success") => Has(evidence'[t], "success")
<1>1. ASSUME IInv, [Next]_vars PROVE [Kept1]_vars
  <2>1. CASE UNCHANGED vars
    BY <2>1
  <2>2. CASE Next
    <3>1. CASE UNCHANGED evidence
      BY <3>1
    <3>2. CASE \E t \in Tasks : WriteIndex(t)
      BY <1>1, <3>2, WriteIndexStep
    <3>3. UNCHANGED evidence \/ \E t \in Tasks : WriteIndex(t)
      BY <1>1, <2>2, StepShape
         DEF IInv, Shape, GoalStep, TaskStep, Around, Quiet, LogEvidence, ReadForSync, WriteSync
    <3> QED
      BY <3>1, <3>2, <3>3
  <2> QED
    BY <1>1, <2>1, <2>2
<1>2. IInv /\ [Next]_vars => [Kept1]_vars
  BY <1>1
<1> QED
  BY Invariance, <1>2, PTL DEF Spec, SuccessKept


\* The status and the held copies of the lifecycle.
AbsStatus == [t \in Tasks |-> IF goal[t] = NoGoal THEN "none" ELSE goal[t].status]

AbsHeld == {[task |-> c.task, status |-> c.goal.status] : c \in syncing}

\* A goal step is a lifecycle step of that task, or changes no status.
LEMMA GoalStepRefines ==
  ASSUME IInv, NEW t \in Tasks, NEW g \in AnyGoal, GoalStep(t, g)
  PROVE  [Lifecycle!Next]_<<AbsStatus, AbsHeld>>
<1>1. /\ goal \in [Tasks -> AnyGoal] /\ goal' = [goal EXCEPT ![t] = g]
      /\ Lawful(goal[t], g) /\ UNCHANGED syncing
  BY DEF GoalStep, Around, Quiet, IInv, TypeInv
<1>2. AbsStatus' = [AbsStatus EXCEPT ![t] = StatusOf(g)] /\ AbsStatus[t] = StatusOf(goal[t])
  BY <1>1 DEF AbsStatus, StatusOf
<1>3. UNCHANGED AbsHeld
  BY <1>1 DEF AbsHeld
<1>4. /\ goal[t] # NoGoal => StatusOf(goal[t]) = goal[t].status /\ StatusOf(goal[t]) \in Lifecycle!Named
      /\ g # NoGoal => StatusOf(g) = g.status /\ StatusOf(g) \in Lifecycle!Named
  BY <1>1 DEF StatusOf, AnyGoal, Goal, Statuses, Lifecycle!Named
<1>5. CASE g = NoGoal
  <2>1. Lifecycle!Clear(t)
    BY <1>2, <1>3, <1>5 DEF Lifecycle!Clear, Lifecycle!Set, StatusOf, AbsStatus, AbsHeld
  <2> QED
    BY <2>1 DEF Lifecycle!Next
<1>6. CASE g # NoGoal /\ goal[t] = NoGoal
  <2>1. Lifecycle!Begin(t)
    BY <1>2, <1>3, <1>4, <1>6 DEF Lifecycle!Begin, Lifecycle!Set, StatusOf, AbsStatus, AbsHeld
  <2> QED
    BY <2>1 DEF Lifecycle!Next
<1>7. CASE g # NoGoal /\ goal[t] # NoGoal
  <2>1. CASE goal[t].status = g.status
    <3>1. UNCHANGED AbsStatus
      BY <1>2, <1>4, <1>7, <2>1 DEF AbsStatus
    <3> QED
      BY <1>3, <3>1
  <2>2. CASE <<goal[t].status, g.status>> \in Allowed
    <3>1. Lifecycle!Move(t)
      BY <1>2, <1>3, <1>4, <1>7, <2>2
         DEF Allowed, Lifecycle!Move, Lifecycle!Set, AbsStatus, AbsHeld
    <3> QED
      BY <3>1 DEF Lifecycle!Next
  <2> QED
    BY <1>1, <1>7, <2>1, <2>2 DEF Lawful
<1> QED
  BY <1>5, <1>6, <1>7

\* Reading a goal for a write-back holds its status.
LEMMA ReadForSyncRefines ==
  ASSUME IInv, NEW t \in Tasks, ReadForSync(t)
  PROVE  Lifecycle!Next
<1>1. /\ syncing = {} /\ goal[t] # NoGoal /\ UNCHANGED goal
      /\ syncing' = {[task |-> t, goal |-> goal[t]]}
  BY DEF ReadForSync
<1>2. AbsHeld = {} /\ AbsStatus[t] = goal[t].status /\ UNCHANGED AbsStatus
  BY <1>1 DEF AbsHeld, AbsStatus
<1>3. AbsHeld' = {[task |-> t, status |-> AbsStatus[t]]}
  BY <1>1, <1>2 DEF AbsHeld
<1>4. goal[t] \in Goal
  BY <1>1 DEF IInv, TypeInv, AnyGoal
<1>5. goal[t].status # "none"
  BY <1>4 DEF Goal, Statuses
<1>6. Lifecycle!Hold(t)
  BY <1>2, <1>3, <1>5 DEF Lifecycle!Hold, AbsStatus, AbsHeld
<1> QED
  BY <1>6 DEF Lifecycle!Next

\* The write-back releases it, restored or not.
LEMMA WriteSyncRefines ==
  ASSUME IInv, WriteSync
  PROVE  Lifecycle!Next
<1>1. AbsHeld' = {}
  BY DEF WriteSync, AbsHeld
<1>2. CASE UNCHANGED goal
  <2>1. UNCHANGED AbsStatus
    BY <1>2 DEF AbsStatus
  <2> QED
    BY <1>1, <2>1 DEF Lifecycle!Release, Lifecycle!Next, AbsHeld, AbsStatus
<1>3. CASE \E copy \in syncing : goal' = [goal EXCEPT ![copy.task] = copy.goal]
  <2>1. PICK copy \in syncing : goal' = [goal EXCEPT ![copy.task] = copy.goal]
    BY <1>3
  <2>2. copy.task \in Tasks /\ copy.goal \in Goal /\ copy.goal # NoGoal
    BY GoalAssumption DEF IInv, TypeInv, Copies
  <2> DEFINE h == [task |-> copy.task, status |-> copy.goal.status]
  <2>3. h \in AbsHeld
    BY DEF AbsHeld
  <2>4. AbsStatus' = [AbsStatus EXCEPT ![h.task] = h.status]
    BY <2>1, <2>2 DEF AbsStatus, IInv, TypeInv
  <2>5. Lifecycle!Release
    BY <1>1, <2>3, <2>4 DEF Lifecycle!Release, Lifecycle!Set, AbsHeld, AbsStatus
  <2> QED
    BY <2>5 DEF Lifecycle!Next
<1> QED
  BY <1>2, <1>3 DEF WriteSync

\* Every step of the goals is a step or a stutter of the lifecycle, whichever
\* operation, lost write or runner takes it.
THEOREM GoalsFollowLifecycle == Spec => LifecycleSpec
<1>1. Init => Lifecycle!Init
  BY DEF Init, Lifecycle!Init
<1>2. ASSUME IInv, [Next]_vars PROVE [Lifecycle!Next]_<<AbsStatus, AbsHeld>>
  <2>1. CASE UNCHANGED <<goal, syncing>>
    BY <2>1 DEF AbsStatus, AbsHeld
  <2>2. CASE \E t \in Tasks, g \in AnyGoal : GoalStep(t, g)
    BY <1>2, <2>2, GoalStepRefines
  <2>3. CASE \E t \in Tasks : ReadForSync(t)
    BY <1>2, <2>3, ReadForSyncRefines
  <2>4. CASE WriteSync
    BY <1>2, <2>4, WriteSyncRefines
  <2>5. Next => \/ \E t \in Tasks, g \in AnyGoal : GoalStep(t, g)
                \/ \E t \in Tasks : ReadForSync(t)
                \/ WriteSync \/ UNCHANGED <<goal, syncing>>
    BY <1>2, StepShape
       DEF IInv, Shape, TaskStep, Around, Quiet, LogEvidence, WriteIndex
  <2>6. UNCHANGED vars => UNCHANGED <<goal, syncing>>
    BY DEF vars
  <2> QED
    BY <1>2, <2>1, <2>2, <2>3, <2>4, <2>5, <2>6
<1>3. IInv /\ [Next]_vars => [Lifecycle!Next]_<<AbsStatus, AbsHeld>>
  BY <1>2
<1>4. (Lifecycle!Init /\ [][Lifecycle!Next]_<<AbsStatus, AbsHeld>>) => LifecycleSpec
  BY DEF LifecycleSpec, Lifecycle!Spec, AbsStatus, AbsHeld
<1> QED
  BY Invariance, <1>1, <1>3, <1>4, PTL DEF Spec

=============================================================================
