---------------------------- MODULE ChainScheduling ----------------------------
(***************************************************************************)
(* Two loops of the chain scheduler as they are written, each with what    *)
(* ChainEngine says of their results: the round-robin of advance_dag over  *)
(* the parallel groups, with Selection, and the depth-first search of      *)
(* has_cycle_iterative, with Acyclic.                                      *)
(*                                                                         *)
(* A queue q is what the round-robin looks at: the eligible and the running*)
(* tasks, the group of each task, and max_concurrent_tasks.  A graph lists *)
(* the dependencies of each task.                                          *)
(***************************************************************************)
EXTENDS Naturals, Sequences, FiniteSets

CONSTANT None  \* the group of a task that is in no group

-----------------------------------------------------------------------------
(* The round-robin: what it may select.                                    *)

IsQueue(q) ==
  /\ q.eligible \in SUBSET Nat /\ IsFiniteSet(q.eligible)
  /\ IsFiniteSet(q.running) /\ q.eligible \cap q.running = {}
  /\ q.eligible \cup q.running \subseteq DOMAIN q.group
  /\ q.limit \in Nat

Members(group, S, g) == {t \in S : group[t] = g}

AllGroups(group) == {group[t] : t \in DOMAIN group}

Cap(limit) == (limit + 1) \div 2

\* With R chosen, group g has no task left or may start none: a named group is
\* capped.
Spent(q, R, g) ==
  \/ Members(q.group, q.eligible, g) \subseteq R
  \/ g # None /\ Cardinality(Members(q.group, q.running \cup R, g)) >= Cap(q.limit)

\* Fault: only the tasks chosen now count against the limits.
FaultWithinLimits(q, R) ==
  /\ Cardinality(R) <= q.limit
  /\ \A g \in AllGroups(q.group) \ {None} :
       Cardinality(Members(q.group, R, g)) <= Cap(q.limit)

\* Starting R exceeds neither the chain's capacity nor that of a named group.
WithinLimits(q, R) ==
  /\ R # {} => Cardinality(q.running \cup R) <= q.limit
  /\ \A g \in AllGroups(q.group) \ {None} :
       Members(q.group, R, g) # {} =>
         Cardinality(Members(q.group, q.running \cup R, g)) <= Cap(q.limit)

\* Each group gives its tasks in the order of the chain, nothing that fits is
\* left out, and a group gets two more than another only if that one is spent.
Selection(q, R) ==
  /\ WithinLimits(q, R)
  /\ \A t \in R, u \in q.eligible : q.group[u] = q.group[t] /\ u < t => u \in R
  /\ \/ Cardinality(q.running \cup R) >= q.limit
     \/ \A g \in AllGroups(q.group) : Spent(q, R, g)
  /\ \A g, h \in AllGroups(q.group) :
       Cardinality(Members(q.group, R, g)) > Cardinality(Members(q.group, R, h)) + 1
         => Spent(q, R, h)

-----------------------------------------------------------------------------
(* The round-robin: what it does.                                          *)

First(S) == CHOOSE t \in S : \A u \in S : t <= u

\* Fault: the tasks that already run in the group are not counted.
FaultOffer(q, ready, g) ==
  LET left == Members(q.group, q.eligible, g) \ ready IN
  IF \/ Cardinality(q.running) + Cardinality(ready) >= q.limit
     \/ left = {}
     \/ g # None /\ Cardinality(Members(q.group, ready, g)) >= Cap(q.limit)
  THEN ready ELSE ready \cup {First(left)}

\* It is the turn of group g: with capacity left, and below the cap of a named
\* group, the first task it has left is ready too.
Offer(q, ready, g) ==
  LET left == Members(q.group, q.eligible, g) \ ready IN
  IF \/ Cardinality(q.running) + Cardinality(ready) >= q.limit
     \/ left = {}
     \/ g # None /\ Cardinality(Members(q.group, q.running, g))
                      + Cardinality(Members(q.group, ready, g)) >= Cap(q.limit)
  THEN ready ELSE ready \cup {First(left)}

\* One pass over the groups, in the order of the HashMap.
Pass(q, order, ready) ==
  LET after[n \in 0..Len(order)] ==
        IF n = 0 THEN ready ELSE Offer(q, after[n - 1], order[n])
  IN after[Len(order)]

\* The groups with an eligible task, in an order a HashMap may hold them.
Offered(q) == {q.group[t] : t \in q.eligible}

Orders(q) ==
  {order \in [1..Cardinality(Offered(q)) -> Offered(q)] :
     /\ \A i, j \in DOMAIN order : order[i] = order[j] => i = j
     /\ \A g \in Offered(q) : \E i \in DOMAIN order : order[i] = g}

\* Passes until one adds nothing: no more than there are tasks.
RoundRobin(q, order) ==
  LET passes == Cardinality(q.eligible)
      after[n \in 0..passes] == IF n = 0 THEN {} ELSE Pass(q, order, after[n - 1])
  IN after[passes]

-----------------------------------------------------------------------------
(* The search for a cycle.                                                 *)

\* Dependencies are tasks of the chain.
IsGraph(graph) == graph \in Seq(Seq(1..Len(graph)))

Depends(graph) == [t \in DOMAIN graph |-> {graph[t][i] : i \in DOMAIN graph[t]}]

\* No set of tasks in which each depends on another of them.
Acyclic(depends) ==
  \A S \in (SUBSET DOMAIN depends) \ {{}} : \E t \in S : depends[t] \cap S = {}

Pushed(s, t) ==
  [s EXCEPT !.stack = Append(@, [node |-> t, index |-> 1]),
            !.visited = @ \cup {t}, !.onStack = @ \cup {t}]

\* Fault: a task that was left still counts as one on the stack.
FaultPopped(s) == [s EXCEPT !.stack = SubSeq(@, 1, Len(@) - 1)]

Popped(s) ==
  [s EXCEPT !.stack = SubSeq(@, 1, Len(@) - 1),
            !.onStack = @ \ {s.stack[Len(s.stack)].node}]

\* The dependency that the task on top is at counts as looked at.
Counted(s) == [s EXCEPT !.stack[Len(s.stack)].index = @ + 1]

\* One turn of the loop: leave the task on top when all its dependencies were
\* looked at, else look at the next one.
Turn(graph, s) ==
  LET top == s.stack[Len(s.stack)]
      dep == graph[top.node][top.index]
  IN IF top.index > Len(graph[top.node]) THEN Popped(s)
     ELSE IF dep \in s.onStack THEN [Counted(s) EXCEPT !.cycle = TRUE]
     ELSE IF dep \in s.visited THEN Counted(s)
     ELSE Pushed(Counted(s), dep)

\* What there is to do: to look at each dependency of each task, and to leave the
\* task, which is its place 0.
Places(graph) == UNION {{t} \X (0..Len(graph[t])) : t \in DOMAIN graph}

Ended(s) == s.cycle \/ s.stack = <<>>

\* The search from one task; each turn does something else.
Search(graph, start) ==
  LET nothing == [stack |-> <<>>, visited |-> {}, onStack |-> {}, cycle |-> FALSE]
      turns   == Cardinality(Places(graph))
      after[n \in 0..turns] ==
        IF n = 0 THEN Pushed(nothing, start)
        ELSE LET s == after[n - 1] IN IF Ended(s) THEN s ELSE Turn(graph, s)
  IN after[turns]

\* validate_dag: no search finds a cycle.
Accepted(graph) == \A t \in DOMAIN graph : ~Search(graph, t).cycle

=============================================================================
