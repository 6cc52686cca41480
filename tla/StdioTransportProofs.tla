------------------------- MODULE StdioTransportProofs -------------------------
(***************************************************************************)
(* What the transport keeps true for any number of lines, any limit,       *)
(* timeout and batch size: its variables are well typed, every request in  *)
(* flight is somewhere in the pool or its result is on the way, so that    *)
(* the drain after the end of the input never meets a closed channel, and  *)
(* each line is answered once (StdioService).                              *)
(***************************************************************************)
EXTENDS StdioTransport, FiniteSetTheorems, TLAPS

-----------------------------------------------------------------------------
(* Types.                                                                  *)

\* Writing an answer keeps the output well typed.
LEMMA WriteTyped ==
  ASSUME TypeOK, NEW l \in Lines, Write(l)
  PROVE  answers' \in [Lines -> Nat] /\ pending' \in 0..(Batch - 1)
<1>1. pending \in Nat /\ pending < Batch /\ Batch \in Nat
  BY TransportAssumption DEF TypeOK
<1>2. pending' \in 0..(Batch - 1)
  BY <1>1, TransportAssumption DEF Write, Buffered
<1> QED BY <1>2 DEF Write, TypeOK

\* So does forgetting a request.
LEMMA ForgetTyped ==
  ASSUME TypeOK, NEW l \in Lines, Forget(l)
  PROVE  /\ inFlight' \subseteq Lines /\ started' \subseteq inFlight'
         /\ age' \in [Lines -> 0..Timeout]
<1>1. 0 \in 0..Timeout
  BY TransportAssumption
<1> QED BY <1>1 DEF Forget, TypeOK

\* A report makes the result channel longer by one message.
LEMMA ReportTyped ==
  ASSUME TypeOK, NEW l \in Lines, NEW kind \in {"started", "finished"}, Report(l, kind)
  PROVE  /\ results' \in Seq(Message) /\ Len(results') = Len(results) + 1
         /\ results'[Len(results) + 1] = [line |-> l, kind |-> kind]
         /\ \A i \in 1..Len(results) : results'[i] = results[i]
<1>1. [line |-> l, kind |-> kind] \in Message
  BY DEF Message
<1> QED BY <1>1 DEF Report, TypeOK

\* Hearing a message takes the first one off the channel.
LEMMA HeardTyped ==
  ASSUME TypeOK, NEW kind, Heard(kind)
  PROVE  /\ results' \in Seq(Message) /\ Head(results).line \in Lines
         /\ Len(results) \in Nat \ {0} /\ Len(results') = Len(results) - 1
         /\ Head(results) = results[1] /\ results[1].kind = kind
         /\ \A i \in 2..Len(results) : results'[i - 1] = results[i]
<1>1. results \in Seq(Message) /\ results # <<>> /\ results' = Tail(results)
  BY DEF TypeOK, Heard
<1>2. Head(results) \in Message
  BY <1>1
<1> QED BY <1>1, <1>2 DEF Heard, Message

\* A line the reader holds is one of the lines.
Typed == TypeOK /\ (reader = "admit" => next \in Lines)

\* Well typed at first.
LEMMA InitTyped == Init => Typed
<1> SUFFICES ASSUME Init PROVE Typed
  OBVIOUS
<1>1. 1 \in Workers /\ 1 \in 1..(N + 1) /\ 0 \in 0..Timeout /\ 0 \in 0..(Batch - 1)
  BY TransportAssumption DEF Workers
<1>2. results \in Seq(Message)
  BY DEF Init
<1> QED BY <1>1, <1>2 DEF Init, Typed, TypeOK, Places, Idle

\* Every step keeps the types.
LEMMA NextTyped == Typed /\ [Next]_vars => Typed'
<1> SUFFICES ASSUME Typed, [Next]_vars PROVE Typed'
  OBVIOUS
<1>0. TypeOK /\ (reader = "admit" => next \in Lines)
  BY DEF Typed
<1> USE DEF Typed, requests, output, pool
<1>1. CASE ReadLine \/ EndOfInput \/ Join \/ Fail
  BY <1>0, <1>1 DEF ReadLine, EndOfInput, Join, Fail, TypeOK, Places, Ends
<1>2. CASE AnswerAtOnce \/ Submit
  <2>1. next \in Lines /\ next + 1 \in 1..(N + 1)
    BY <1>0, <1>2, TransportAssumption DEF AnswerAtOnce, Submit, Lines
  <2>2. CASE AnswerAtOnce
    BY <1>0, <2>1, <2>2, WriteTyped DEF AnswerAtOnce, TypeOK, Places
  <2>3. CASE Submit
    BY <1>0, <2>1, <2>3 DEF Submit, TypeOK, Places
  <2> QED BY <1>2, <2>2, <2>3
<1>3. CASE HearStarted
  <2>1. results' \in Seq(Message)
    BY <1>0, <1>3, HeardTyped DEF HearStarted
  <2>2. UNCHANGED <<reader, next, inFlight, age, answers, pending, tasks, turn, queue, busy>>
        /\ started' \subseteq inFlight'
    BY <1>0, <1>3 DEF HearStarted, TypeOK
  <2> QED BY <1>0, <2>1, <2>2 DEF TypeOK
<1>4. CASE HearFinished
  <2>1. results' \in Seq(Message) /\ Head(results).line \in Lines
    BY <1>0, <1>4, HeardTyped DEF HearFinished
  <2>2. UNCHANGED <<reader, next, tasks, turn, queue, busy>>
    BY <1>4 DEF HearFinished
  <2>3. CASE Awaited(Head(results).line)
    BY <1>0, <1>4, <2>1, <2>2, <2>3, WriteTyped, ForgetTyped DEF HearFinished, TypeOK
  <2>4. CASE ~Awaited(Head(results).line)
    BY <1>0, <1>4, <2>1, <2>2, <2>4 DEF HearFinished, TypeOK
  <2> QED BY <2>3, <2>4
<1>5. CASE TimeOut
  <2>1. PICK l \in Lines : Forget(l) /\ Write(l)
    BY <1>5 DEF TimeOut
  <2> QED BY <1>0, <1>5, <2>1, WriteTyped, ForgetTyped DEF TimeOut, TypeOK
<1>6. CASE Return
  <2>1. 0 \in 0..(Batch - 1)
    BY TransportAssumption
  <2> QED BY <1>0, <1>6, <2>1 DEF Return, Flushed, TypeOK, Places, Ends
<1>7. CASE HandOut
  <2>1. turn' \in Workers
    BY <1>0, <1>7, TransportAssumption DEF HandOut, TypeOK, Workers
  <2>2. PICK l \in Lines : tasks' = tasks \ {l} /\ queue' = [queue EXCEPT ![turn] = @ \cup {l}]
    BY <1>7 DEF HandOut
  <2> QED BY <1>0, <1>7, <2>1, <2>2 DEF HandOut, TypeOK
<1>8. ASSUME NEW w \in Workers, Start(w) PROVE Typed'
  <2>1. PICK l \in Lines : /\ busy' = [busy EXCEPT ![w] = l]
                           /\ queue' = [queue EXCEPT ![w] = @ \ {l}]
                           /\ Report(l, "started")
    BY <1>8 DEF Start
  <2>2. results' \in Seq(Message)
    BY <1>0, <2>1, ReportTyped
  <2> QED BY <1>0, <1>8, <2>1, <2>2 DEF Start, TypeOK
<1>9. ASSUME NEW w \in Workers, Finish(w) PROVE Typed'
  <2>1. busy[w] \in Lines
    BY <1>0, <1>9 DEF Finish, TypeOK
  <2>2. results' \in Seq(Message)
    BY <1>0, <1>9, <2>1, ReportTyped DEF Finish
  <2> QED BY <1>0, <1>9, <2>2 DEF Finish, TypeOK
<1>10. CASE Tick
  <2>1. age' \in [Lines -> 0..Timeout]
    BY <1>0, <1>10, TransportAssumption DEF Tick, TypeOK
  <2> QED BY <1>0, <1>10, <2>1 DEF Tick, TypeOK
<1>11. CASE UNCHANGED vars
  BY <1>0, <1>11 DEF vars, TypeOK
<1> QED
  BY <1>1, <1>2, <1>3, <1>4, <1>5, <1>6, <1>7, <1>8, <1>9, <1>10, <1>11 DEF Next, ReaderStep

\* The variables of the transport stay well typed: never more answers are
\* buffered than a batch holds (StdioResponseWriter), and every line index a
\* thread works on was submitted.
THEOREM TransportTypeCorrect == Spec => []TypeOK
<1>1. Typed => TypeOK
  BY DEF Typed
<1> QED BY <1>1, InitTyped, NextTyped, PTL DEF Spec

-----------------------------------------------------------------------------
(* Where a request is, and what has been answered.                         *)

\* A line in flight waits for the dispatcher or a worker, is executed, or its
\* result is in the channel.
ResultSent(l) == \E i \in 1..Len(results) : results[i] = [line |-> l, kind |-> "finished"]

InPool(l) == l \in tasks \/ \E w \in Workers : l \in queue[w] \/ busy[w] = l

NothingLost == \A l \in inFlight : InPool(l) \/ ResultSent(l)

\* The lines before next are answered once or in flight, the others neither.
Accounted ==
  /\ \A l \in inFlight : l < next
  /\ \A l \in Lines : answers[l] = IF l < next /\ l \notin inFlight THEN 1 ELSE 0

Bounded == IsFiniteSet(inFlight) /\ Cardinality(inFlight) <= Limit

\* The pool is empty once it is joined, and no end is reached before its time.
Ended ==
  /\ reader = "drain" => Joined
  /\ reader = "done" => inFlight = {}
  /\ reader # "lost"

IInv == Typed /\ NothingLost /\ Accounted /\ Bounded /\ Ended

\* The invariant holds at first: nothing was read.
LEMMA InitInv == Init => IInv
<1> SUFFICES ASSUME Init PROVE IInv
  OBVIOUS
<1>1. Cardinality({}) = 0 /\ IsFiniteSet({})
  BY FS_EmptySet
<1>2. NothingLost /\ Ended
  BY DEF Init, NothingLost, Ended
<1>3. Accounted
  BY DEF Init, Accounted, Lines
<1>4. Bounded
  BY <1>1, TransportAssumption DEF Init, Bounded
<1> QED BY <1>2, <1>3, <1>4, InitTyped DEF IInv

\* A report keeps the results that are on the way, and adds its own.
LEMMA ReportKeeps ==
  ASSUME TypeOK, NEW l \in Lines, NEW kind \in {"started", "finished"}, Report(l, kind)
  PROVE  /\ \A k : ResultSent(k) => ResultSent(k)'
         /\ kind = "finished" => ResultSent(l)'
<1>1. /\ Len(results') = Len(results) + 1
      /\ results'[Len(results) + 1] = [line |-> l, kind |-> kind]
      /\ \A i \in 1..Len(results) : results'[i] = results[i]
  BY ReportTyped
<1>2. Len(results) \in Nat
  BY DEF TypeOK
<1>3. ASSUME NEW k, ResultSent(k) PROVE ResultSent(k)'
  <2>1. PICK i \in 1..Len(results) : results[i] = [line |-> k, kind |-> "finished"]
    BY <1>3 DEF ResultSent
  <2>2. i \in 1..Len(results') /\ results'[i] = results[i]
    BY <1>1, <1>2
  <2> QED BY <2>1, <2>2 DEF ResultSent
<1>4. ASSUME kind = "finished" PROVE ResultSent(l)'
  <2>1. Len(results) + 1 \in 1..Len(results')
    BY <1>1, <1>2
  <2> QED BY <1>1, <1>4, <2>1 DEF ResultSent
<1> QED BY <1>3, <1>4

\* Hearing a message that is not the result of a line leaves that result.
LEMMA HeardKeeps ==
  ASSUME TypeOK, NEW kind, Heard(kind), NEW k, ResultSent(k),
         ~(kind = "finished" /\ Head(results).line = k)
  PROVE  ResultSent(k)'
<1>1. PICK i \in 1..Len(results) : results[i] = [line |-> k, kind |-> "finished"]
  BY DEF ResultSent
<1>2. i # 1
  BY <1>1, HeardTyped
<1>3. i - 1 \in 1..Len(results') /\ results'[i - 1] = results[i]
  BY <1>1, <1>2, HeardTyped
<1> QED BY <1>1, <1>3 DEF ResultSent

\* A request that is forgotten with its answer written is answered once, and
\* the others are as they were.
LEMMA AnswerAccounted ==
  ASSUME TypeOK, Accounted, Bounded, NEW l \in inFlight, Forget(l), Write(l), next' = next
  PROVE  Accounted' /\ Bounded'
<1>1. Accounted'
  BY DEF TypeOK, Accounted, Forget, Write
<1>2. Bounded'
  <2>1. IsFiniteSet(inFlight') /\ Cardinality(inFlight') <= Cardinality(inFlight)
    BY FS_Subset, FS_CardinalityType DEF Bounded, Forget
  <2> QED BY <2>1, FS_CardinalityType, TransportAssumption DEF Bounded
<1> QED BY <1>1, <1>2

\* The steps of the reader keep the account.
LEMMA ReaderInv == IInv /\ (ReaderStep \/ Fail) => IInv'
<1> SUFFICES ASSUME IInv, ReaderStep \/ Fail
             PROVE  NothingLost' /\ Accounted' /\ Bounded' /\ Ended'
  BY NextTyped DEF IInv, Next
<1>0. /\ TypeOK /\ NothingLost /\ Accounted /\ Bounded /\ Ended
      /\ reader = "admit" => next \in Lines
  BY DEF IInv, Typed
<1> USE DEF requests, output, pool
<1>1. CASE ReadLine \/ EndOfInput \/ Join \/ Fail
  <2>1. UNCHANGED <<next, inFlight, answers, tasks, queue, busy, results>>
    BY <1>1 DEF ReadLine, EndOfInput, Join, Fail
  <2>2. Ended'
    BY <1>0, <1>1, <2>1 DEF ReadLine, EndOfInput, Join, Fail, Ended, Joined
  <2> QED BY <1>0, <2>1, <2>2 DEF NothingLost, InPool, ResultSent, Accounted, Bounded
<1>2. CASE AnswerAtOnce
  <2>1. /\ next \in Lines /\ next' = next + 1 /\ reader' = "read" /\ inFlight' = inFlight
        /\ answers' = [answers EXCEPT ![next] = @ + 1]
        /\ UNCHANGED <<tasks, queue, busy, results>>
    BY <1>0, <1>2 DEF AnswerAtOnce, Write
  <2>2. Accounted'
    BY <1>0, <2>1 DEF TypeOK, Accounted, Lines
  <2> QED BY <1>0, <2>1, <2>2 DEF NothingLost, InPool, ResultSent, Bounded, Ended
<1>3. CASE Submit
  <2>1. /\ next \in Lines /\ next' = next + 1 /\ reader' = "read"
        /\ inFlight' = inFlight \cup {next} /\ tasks' = tasks \cup {next}
        /\ UNCHANGED <<answers, queue, busy, results>>
    BY <1>0, <1>3 DEF Submit
  <2>2. Accounted'
    BY <1>0, <2>1 DEF TypeOK, Accounted, Lines
  <2>3. Bounded'
    <3>1. Cardinality(inFlight) < Limit /\ Cardinality(inFlight) \in Nat
      BY <1>0, <1>3, FS_CardinalityType, TransportAssumption DEF Submit, Full, Bounded
    <3>2. IsFiniteSet(inFlight') /\ Cardinality(inFlight') <= Cardinality(inFlight) + 1
      BY <1>0, <2>1, <3>1, FS_AddElement DEF Bounded
    <3> QED BY <3>1, <3>2, FS_CardinalityType, TransportAssumption DEF Bounded
  <2>4. NothingLost'
    BY <1>0, <2>1 DEF NothingLost, InPool, ResultSent
  <2> QED BY <2>1, <2>2, <2>3, <2>4 DEF Ended
<1>4. CASE HearStarted
  <2>1. /\ Heard("started")
        /\ UNCHANGED <<reader, next, inFlight, answers, tasks, queue, busy>>
    BY <1>4 DEF HearStarted
  <2>2. \A k : ResultSent(k) => ResultSent(k)'
    BY <1>0, <2>1, HeardKeeps
  <2> QED BY <1>0, <2>1, <2>2 DEF NothingLost, InPool, Accounted, Bounded, Ended, Joined
<1>5. CASE HearFinished
  <2> DEFINE l == Head(results).line
  <2>1. Heard("finished") /\ UNCHANGED <<reader, next, tasks, queue, busy>>
    BY <1>5 DEF HearFinished
  <2>2. \A k : k # l /\ ResultSent(k) => ResultSent(k)'
    BY <1>0, <2>1, HeardKeeps
  <2>3. CASE l \in inFlight
    <3>1. Forget(l) /\ Write(l)
      BY <1>5, <2>3 DEF HearFinished, Awaited
    <3>2. Accounted' /\ Bounded'
      BY <1>0, <2>1, <2>3, <3>1, AnswerAccounted
    <3>3. NothingLost' /\ Ended'
      BY <1>0, <2>1, <2>2, <3>1 DEF Forget, NothingLost, InPool, Ended, Joined
    <3> QED BY <3>2, <3>3
  <2>4. CASE l \notin inFlight
    <3>1. UNCHANGED <<inFlight, answers>>
      BY <1>5, <2>4 DEF HearFinished, Awaited
    <3> QED
      BY <1>0, <2>1, <2>2, <2>4, <3>1
         DEF NothingLost, InPool, Accounted, Bounded, Ended, Joined
  <2> QED BY <2>3, <2>4
<1>6. CASE TimeOut
  <2>1. PICK l \in Lines : l \in inFlight /\ Forget(l) /\ Write(l)
    BY <1>0, <1>6 DEF TimeOut, IsFirst, Overdue, TypeOK
  <2>2. UNCHANGED <<reader, next, tasks, queue, busy, results>> /\ reader = "admit"
    BY <1>6 DEF TimeOut
  <2>3. Accounted' /\ Bounded'
    BY <1>0, <2>1, <2>2, AnswerAccounted
  <2> QED BY <1>0, <2>1, <2>2, <2>3 DEF Forget, NothingLost, InPool, ResultSent, Ended
<1>7. CASE Return
  <2>1. /\ reader = "drain" /\ UNCHANGED <<next, inFlight, answers, tasks, queue, busy, results>>
        /\ inFlight # {} => results = <<>>
        /\ reader' = IF inFlight = {} THEN "done" ELSE "lost"
    BY <1>7 DEF Return
  <2>2. \A l \in inFlight : ResultSent(l)
    <3>1. \A l \in inFlight : ~InPool(l)
      BY <1>0, <2>1 DEF Ended, Joined, InPool, TypeOK, Idle, Lines
    <3> QED BY <1>0, <3>1 DEF NothingLost
  <2>3. inFlight = {}
    <3>1. results = <<>> => Len(results) = 0
      OBVIOUS
    <3>2. results = <<>> => \A l : ~ResultSent(l)
      BY <3>1 DEF ResultSent
    <3> QED BY <2>1, <2>2, <3>2
  <2> QED BY <1>0, <2>1, <2>3 DEF NothingLost, Accounted, Bounded, Ended
<1> QED BY <1>1, <1>2, <1>3, <1>4, <1>5, <1>6, <1>7 DEF ReaderStep

\* The dispatcher and the workers pass a request on; none is dropped.
LEMMA PoolInv == IInv /\ (HandOut \/ \E w \in Workers : Start(w) \/ Finish(w)) => IInv'
<1> SUFFICES ASSUME IInv, HandOut \/ \E w \in Workers : Start(w) \/ Finish(w)
             PROVE  NothingLost' /\ Accounted' /\ Bounded' /\ Ended'
  BY NextTyped DEF IInv, Next
<1>0. TypeOK /\ NothingLost /\ Accounted /\ Bounded /\ Ended
  BY DEF IInv, Typed
<1> USE DEF requests, output, pool
<1>1. UNCHANGED <<reader, next, inFlight, answers>> /\ ~Joined
  BY <1>0 DEF HandOut, Start, Finish, Joined, IsFirst
<1>2. Accounted' /\ Bounded' /\ Ended'
  BY <1>0, <1>1 DEF Accounted, Bounded, Ended
<1>3. CASE HandOut
  <2>1. PICK l \in Lines : tasks' = tasks \ {l} /\ queue' = [queue EXCEPT ![turn] = @ \cup {l}]
    BY <1>3 DEF HandOut
  <2>2. turn \in Workers /\ UNCHANGED <<busy, results>>
    BY <1>0, <1>3 DEF HandOut, TypeOK
  <2>3. \A k : InPool(k) => InPool(k)'
    BY <1>0, <2>1, <2>2 DEF InPool, TypeOK
  <2> QED BY <1>0, <1>1, <1>2, <2>2, <2>3 DEF NothingLost, ResultSent
<1>4. ASSUME NEW w \in Workers, Start(w) PROVE NothingLost'
  <2>1. PICK l \in Lines : /\ busy' = [busy EXCEPT ![w] = l]
                           /\ queue' = [queue EXCEPT ![w] = @ \ {l}]
                           /\ Report(l, "started")
    BY <1>4 DEF Start
  <2>2. \A k : ResultSent(k) => ResultSent(k)'
    BY <1>0, <2>1, ReportKeeps
  <2>3. \A k \in Lines : InPool(k) => InPool(k)'
    BY <1>0, <1>4, <2>1 DEF Start, InPool, TypeOK, Idle, Lines
  <2> QED BY <1>0, <1>1, <2>2, <2>3 DEF NothingLost, TypeOK
<1>5. ASSUME NEW w \in Workers, Finish(w) PROVE NothingLost'
  <2>1. PICK l \in Lines : l = busy[w]
    BY <1>0, <1>5 DEF Finish, TypeOK
  <2>2. Report(l, "finished") /\ UNCHANGED <<tasks, queue>> /\ busy' = [busy EXCEPT ![w] = Idle]
    BY <1>5, <2>1 DEF Finish
  <2>3. (\A k : ResultSent(k) => ResultSent(k)') /\ ResultSent(l)'
    BY <1>0, <2>2, ReportKeeps
  <2>4. \A k : InPool(k) => InPool(k)' \/ k = l
    BY <1>0, <2>1, <2>2 DEF InPool, TypeOK
  <2> QED BY <1>0, <1>1, <2>3, <2>4 DEF NothingLost
<1> QED BY <1>2, <1>3, <1>4, <1>5

\* Every step keeps the invariant.
LEMMA NextInv == IInv /\ [Next]_vars => IInv'
<1>1. ASSUME IInv, Tick \/ UNCHANGED vars PROVE IInv'
  <2>1. UNCHANGED <<reader, next, inFlight, answers, tasks, queue, busy, results>>
    BY <1>1 DEF Tick, vars, requests, output, pool
  <2> QED
    BY <1>1, <2>1, NextTyped
       DEF IInv, Next, NothingLost, InPool, ResultSent, Accounted, Bounded, Ended, Joined
<1> QED BY <1>1, ReaderInv, PoolInv DEF Next

\* The invariant holds throughout.
LEMMA Invariance == Spec => []IInv
BY InitInv, NextInv, PTL DEF Spec

\* No line is lost between the threads: what is in flight is in the pool or
\* has its result in the channel, also when it was handed to a worker that is
\* still busy with a request that has timed out (dispatch_stdio_work_items).
THEOREM NoRequestLost == Spec => []NothingLost
<1>1. IInv => NothingLost
  BY DEF IInv
<1> QED BY <1>1, Invariance, PTL

-----------------------------------------------------------------------------
(* The transport implements the service.                                   *)

Phase ==
  CASE reader = "done" -> "ended"
    [] reader \in {"failed", "lost"} -> reader
    [] OTHER -> "serving"

\* The phase the client sees, by the place of the reader.
LEMMA PhaseIs ==
  /\ Running => Phase = "serving"
  /\ reader = "done" => Phase = "ended"
  /\ reader = "failed" => Phase = "failed"
BY DEF Phase, Running, Ends

\* The initial states are those of the service.
LEMMA InitRefines == Init => Service!Init
<1> SUFFICES ASSUME Init PROVE Service!Init
  OBVIOUS
<1>1. Phase = "serving"
  BY DEF Init, Phase
<1> QED BY <1>1 DEF Init, Service!Init, Phase

\* Answering a line in flight, or the one at hand, is a step of the service.
LEMMA StepRefines == IInv /\ IInv' /\ [Next]_vars => [Service!Next]_(Service!vars)
<1> SUFFICES ASSUME IInv, IInv', [Next]_vars PROVE [Service!Next]_(Service!vars)
  OBVIOUS
<1>0. /\ TypeOK /\ Accounted /\ Bounded /\ Ended'
      /\ reader = "admit" => next \in Lines
  BY DEF IInv, Typed
<1>a. ASSUME inFlight' = inFlight, answers' = answers, Phase' = Phase
      PROVE  [Service!Next]_(Service!vars)
  BY <1>a DEF Service!vars, Phase
<1>b. ASSUME Phase = "serving", Phase' = "serving",
             \E l \in Lines : Service!Accept(l) \/ Service!Answer(l)
      PROVE  [Service!Next]_(Service!vars)
  BY <1>b DEF Service!Next, Phase
<1> USE DEF requests, output, pool
<1>1. CASE ReadLine \/ EndOfInput \/ Join \/ HandOut \/ HearStarted \/ Tick
            \/ (\E w \in Workers : Start(w) \/ Finish(w)) \/ UNCHANGED vars
  <2>1. inFlight' = inFlight /\ answers' = answers
    BY <1>1 DEF ReadLine, EndOfInput, Join, HandOut, HearStarted, Tick, Start, Finish, vars
  <2>2. reader' = reader \/ (Running /\ Running')
    BY <1>1 DEF ReadLine, EndOfInput, Join, HandOut, HearStarted, Tick, Start, Finish, vars,
                Running, Ends
  <2>3. Phase' = Phase
    BY <2>2, PhaseIs DEF Phase, Running, Ends
  <2> QED BY <1>a, <2>1, <2>3
<1>2. CASE AnswerAtOnce
  <2>1. next \in Lines /\ next \notin inFlight /\ answers[next] = 0
    BY <1>0, <1>2 DEF AnswerAtOnce, Accounted, Lines
  <2>2. /\ inFlight' = inFlight \ {next} /\ answers' = [answers EXCEPT ![next] = 1]
        /\ Running /\ Running'
    BY <1>0, <1>2, <2>1 DEF AnswerAtOnce, Write, TypeOK, Running, Ends
  <2>3. Phase = "serving" /\ Phase' = "serving"
    BY <2>2, PhaseIs DEF Phase, Running, Ends
  <2>4. Service!Answer(next)
    BY <2>1, <2>2, <2>3 DEF Service!Answer, Phase
  <2> QED BY <1>b, <2>1, <2>3, <2>4
<1>3. CASE Submit
  <2>1. next \in Lines /\ next \notin inFlight /\ answers[next] = 0
    BY <1>0, <1>3 DEF Submit, Accounted, Lines
  <2>2. /\ inFlight' = inFlight \cup {next} /\ answers' = answers
        /\ Running /\ Running'
    BY <1>3 DEF Submit, Running, Ends
  <2>3. Cardinality(inFlight) < Limit
    BY <1>0, <1>3, FS_CardinalityType, TransportAssumption DEF Submit, Full, Bounded
  <2>4. Phase = "serving" /\ Phase' = "serving"
    BY <2>2, PhaseIs DEF Phase, Running, Ends
  <2>5. Service!Cardinality(inFlight) = Cardinality(inFlight)
    BY DEF Cardinality, Service!Cardinality
  <2>6. Service!Accept(next)
    BY <2>1, <2>2, <2>3, <2>4, <2>5 DEF Service!Accept, Phase
  <2> QED BY <1>b, <2>1, <2>4, <2>6
<1>4. ASSUME NEW l \in inFlight, Forget(l), Write(l), reader' = reader, Running
      PROVE  [Service!Next]_(Service!vars)
  <2>1. l \in Lines /\ answers[l] = 0
    BY <1>0 DEF TypeOK, Accounted
  <2>2. inFlight' = inFlight \ {l} /\ answers' = [answers EXCEPT ![l] = 1]
    BY <1>0, <1>4, <2>1 DEF Forget, Write, TypeOK
  <2>3. Phase = "serving" /\ Phase' = "serving"
    BY <1>4, PhaseIs DEF Phase, Running, Ends
  <2>4. Service!Answer(l)
    BY <2>1, <2>2, <2>3 DEF Service!Answer, Phase
  <2> QED BY <1>b, <2>1, <2>3, <2>4
<1>5. CASE HearFinished
  <2>1. reader' = reader /\ Running
    BY <1>5 DEF HearFinished, Heard, Receiving, Running, Ends
  <2>2. CASE Head(results).line \in inFlight
    BY <1>4, <1>5, <2>1, <2>2 DEF HearFinished, Awaited
  <2>3. CASE Head(results).line \notin inFlight
    <3>1. inFlight' = inFlight /\ answers' = answers /\ Phase' = Phase
      BY <1>5, <2>1, <2>3 DEF HearFinished, Awaited, Phase
    <3> QED BY <1>a, <3>1
  <2> QED BY <2>2, <2>3
<1>6. CASE TimeOut
  <2>1. reader' = reader /\ Running
    BY <1>6 DEF TimeOut, Running, Ends
  <2>2. PICK l \in Lines : l \in inFlight /\ Forget(l) /\ Write(l)
    BY <1>0, <1>6 DEF TimeOut, IsFirst, Overdue, TypeOK
  <2> QED BY <1>4, <2>1, <2>2
<1>7. CASE Return
  <2>1. reader = "drain" /\ reader' = "done" /\ inFlight = {}
    BY <1>0, <1>7 DEF Return, Ended
  <2>2. Phase = "serving" /\ Phase' = "ended"
    BY <2>1 DEF Phase
  <2>3. Service!End
    BY <1>7, <2>1, <2>2 DEF Return, Service!End, Phase
  <2> QED BY <2>2, <2>3 DEF Service!Next, Phase
<1>8. CASE Fail
  <2>1. Phase = "serving" /\ Phase' = "failed"
    BY <1>8, PhaseIs DEF Fail, Phase
  <2>2. Service!Fail
    BY <1>8, <2>1 DEF Fail, Service!Fail, Phase
  <2> QED BY <2>1, <2>2 DEF Service!Next, Phase
<1> QED
  BY <1>1, <1>2, <1>3, <1>5, <1>6, <1>7, <1>8 DEF Next, ReaderStep

\* Results, timeouts and late results together answer each line exactly once,
\* with at most Limit lines waiting, and the loop returns only when all are
\* answered (run_concurrent_stdio_json_loop).
THEOREM TransportImplementsService == Spec => ServiceSpec
<1>1. IInv /\ [Next]_vars /\ IInv' => [Service!Next]_(Service!vars)
  BY StepRefines
<1> QED BY <1>1, InitRefines, Invariance, PTL DEF Spec, ServiceSpec, Service!Spec

-----------------------------------------------------------------------------
(* The loop comes to its end.                                              *)

\* The lines in the workers' channels, and the workers that execute one.
Queued == {e \in Workers \X Lines : e[2] \in queue[e[1]]}

Working == {w \in Workers : busy[w] # Idle}

Stage ==
  IF reader = "read" THEN 4 ELSE IF reader = "admit" THEN 3
  ELSE IF reader = "join" THEN 2 ELSE IF reader = "drain" THEN 1 ELSE 0

\* What the three kinds of threads have left to do for the lines, by the place
\* where each of them is, and for the messages on the way.
Unread == 8 * (N + 1 - next)

InThePool == 5 * Cardinality(tasks) + 4 * Cardinality(Queued) + 2 * Cardinality(Working)

Work == Unread + InThePool + Len(results) + Cardinality(inFlight) + Stage

\* The work left is a number.
WorkOK ==
  /\ IsFiniteSet(tasks) /\ Cardinality(tasks) \in Nat
  /\ IsFiniteSet(Queued) /\ Cardinality(Queued) \in Nat
  /\ IsFiniteSet(Working) /\ Cardinality(Working) \in Nat
  /\ IsFiniteSet(inFlight) /\ Cardinality(inFlight) \in Nat
  /\ Unread \in Nat /\ InThePool \in Nat /\ Len(results) \in Nat /\ Stage \in 0..4

\* The types say that much.
LEMMA WorkTyped == TypeOK => WorkOK
<1> SUFFICES ASSUME TypeOK PROVE WorkOK
  OBVIOUS
<1>1. IsFiniteSet(Lines) /\ IsFiniteSet(Workers)
  BY TransportAssumption, FS_Interval DEF Lines, Workers
<1>2. IsFiniteSet(Workers \X Lines)
  BY <1>1, FS_Product
<1>3. tasks \subseteq Lines /\ inFlight \subseteq Lines
  BY DEF TypeOK
<1>4. Queued \subseteq Workers \X Lines /\ Working \subseteq Workers
  BY DEF Queued, Working
<1>5. /\ IsFiniteSet(tasks) /\ IsFiniteSet(inFlight)
      /\ IsFiniteSet(Queued) /\ IsFiniteSet(Working)
  BY <1>1, <1>2, <1>3, <1>4, FS_Subset
<1>6. /\ Cardinality(tasks) \in Nat /\ Cardinality(inFlight) \in Nat
      /\ Cardinality(Queued) \in Nat /\ Cardinality(Working) \in Nat
  BY <1>5, FS_CardinalityType
<1>7. Unread \in Nat
  <2>1. next \in 1..(N + 1)
    BY DEF TypeOK
  <2> QED BY <2>1, TransportAssumption DEF Unread
<1>8. Len(results) \in Nat
  <2>1. results \in Seq(Message)
    BY DEF TypeOK
  <2> QED BY <2>1
<1>9. InThePool \in Nat
  BY <1>6 DEF InThePool
<1>10. Stage \in 0..4
  BY DEF Stage
<1> QED BY <1>5, <1>6, <1>7, <1>8, <1>9, <1>10 DEF WorkOK

\* So it is after a step.
LEMMA WorkTypedNext == TypeOK' => WorkOK'
BY WorkTyped, PTL

\* A step of the reader that leaves the pool alone.
LEMMA ReaderWork ==
  ASSUME TypeOK, TypeOK', UNCHANGED <<tasks, queue, busy>>,
         Unread' + Len(results') + Cardinality(inFlight') + Stage'
           < Unread + Len(results) + Cardinality(inFlight) + Stage
  PROVE  Work' < Work
<1>1. InThePool' = InThePool
  BY DEF InThePool, Queued, Working
<1>2. /\ InThePool \in Nat /\ Unread \in Nat /\ Len(results) \in Nat
      /\ Cardinality(inFlight) \in Nat /\ Stage \in Nat
  BY WorkTyped DEF WorkOK
<1>3. /\ Unread' \in Nat /\ Len(results') \in Nat
      /\ Cardinality(inFlight') \in Nat /\ Stage' \in Nat
  BY WorkTypedNext DEF WorkOK
<1>4. \A a, b, c, d, e, f, g, h, p \in Nat :
        e + f + g + h < a + b + c + d => e + p + f + g + h < a + p + b + c + d
  OBVIOUS
<1>5. Unread' + InThePool + Len(results') + Cardinality(inFlight') + Stage'
        < Unread + InThePool + Len(results) + Cardinality(inFlight) + Stage
  BY <1>2, <1>3, <1>4
<1> QED BY <1>1, <1>5 DEF Work

\* A step of the dispatcher or of a worker.
LEMMA PoolWork ==
  ASSUME TypeOK, TypeOK', UNCHANGED <<reader, next, inFlight>>,
         InThePool' + Len(results') < InThePool + Len(results)
  PROVE  Work' < Work
<1>1. Unread' = Unread /\ Stage' = Stage
  BY DEF Unread, Stage
<1>2. /\ InThePool \in Nat /\ Unread \in Nat /\ Len(results) \in Nat
      /\ Cardinality(inFlight) \in Nat /\ Stage \in Nat
  BY WorkTyped DEF WorkOK
<1>3. InThePool' \in Nat /\ Len(results') \in Nat
  BY WorkTypedNext DEF WorkOK
<1>4. \A a, b, c, d, u, i, g \in Nat : c + d < a + b => u + c + d + i + g < u + a + b + i + g
  OBVIOUS
<1>5. Unread + InThePool' + Len(results') + Cardinality(inFlight) + Stage
        < Unread + InThePool + Len(results) + Cardinality(inFlight) + Stage
  BY <1>2, <1>3, <1>4
<1> QED BY <1>1, <1>5 DEF Work

\* A message that is heard, with what it does to the requests in flight.
LEMMA HeardWork ==
  ASSUME TypeOK, TypeOK', UNCHANGED <<reader, next, tasks, queue, busy>>,
         NEW kind, Heard(kind), inFlight' \subseteq inFlight
  PROVE  Work' < Work
<1>1. Unread' = Unread /\ Stage' = Stage
  BY DEF Unread, Stage
<1>2. Len(results') = Len(results) - 1
  BY HeardTyped
<1>3. Cardinality(inFlight') <= Cardinality(inFlight)
  BY WorkTyped, FS_Subset DEF WorkOK
<1>4. /\ Unread \in Nat /\ Len(results) \in Nat /\ Cardinality(inFlight) \in Nat
      /\ Stage \in Nat /\ Cardinality(inFlight') \in Nat
  BY WorkTyped, WorkTypedNext DEF WorkOK
<1>5. Unread' + Len(results') + Cardinality(inFlight') + Stage'
        < Unread + Len(results) + Cardinality(inFlight) + Stage
  BY <1>1, <1>2, <1>3, <1>4
<1> QED BY <1>5, ReaderWork

\* The steps of the reader leave less to do.
LEMMA ReaderWorks ==
  ASSUME IInv, IInv', ReaderStep \/ Fail
  PROVE  Work' < Work
<1>0. /\ TypeOK /\ TypeOK' /\ Ended
      /\ reader = "admit" => next \in Lines
  BY DEF IInv, Typed
<1> USE DEF requests, output, pool
<1>n. /\ Unread \in Nat /\ Len(results) \in Nat /\ Cardinality(inFlight) \in Nat
      /\ Stage \in Nat
  BY <1>0, WorkTyped DEF WorkOK
<1>1. CASE ReadLine \/ EndOfInput \/ Join \/ Return \/ Fail
  <2>1. UNCHANGED <<next, inFlight, tasks, queue, busy, results>>
    BY <1>1 DEF ReadLine, EndOfInput, Join, Return, Fail
  <2>2. Stage' < Stage /\ Stage' \in Nat
    <3>1. CASE ReadLine \/ EndOfInput \/ Join
      BY <3>1 DEF ReadLine, EndOfInput, Join, Stage
    <3>2. CASE Return
      BY <3>2 DEF Return, Stage
    <3>3. CASE Fail
      <4>1. reader \in {"read", "admit", "join", "drain"}
        BY <1>0, <3>3 DEF Fail, Running, TypeOK, Places
      <4> QED BY <3>3, <4>1 DEF Fail, Stage
    <3> QED BY <1>1, <3>1, <3>2, <3>3
  <2>3. Unread' = Unread
    BY <2>1 DEF Unread
  <2>4. Unread' + Len(results') + Cardinality(inFlight') + Stage'
          < Unread + Len(results) + Cardinality(inFlight) + Stage
    BY <1>n, <2>1, <2>2, <2>3
  <2> QED BY <1>0, <2>1, <2>4, ReaderWork
<1>2. CASE AnswerAtOnce
  <2>1. UNCHANGED <<inFlight, tasks, queue, busy, results>>
        /\ reader = "admit" /\ reader' = "read" /\ next' = next + 1
    BY <1>2 DEF AnswerAtOnce
  <2>2. Stage = 3 /\ Stage' = 4
    BY <2>1 DEF Stage
  <2>3. Unread' = Unread - 8
    BY <1>0, <2>1, TransportAssumption DEF Unread, Lines
  <2>4. Unread' + Len(results') + Cardinality(inFlight') + Stage'
          < Unread + Len(results) + Cardinality(inFlight) + Stage
    BY <1>n, <2>1, <2>2, <2>3
  <2> QED BY <1>0, <2>1, <2>4, ReaderWork
<1>3. CASE Submit
  <2>1. /\ UNCHANGED <<queue, busy, results>> /\ reader = "admit" /\ reader' = "read"
        /\ next' = next + 1 /\ inFlight' = inFlight \cup {next} /\ tasks' = tasks \cup {next}
    BY <1>3 DEF Submit
  <2>2. Stage = 3 /\ Stage' = 4
    BY <2>1 DEF Stage
  <2>3. Unread' = Unread - 8
    BY <1>0, <2>1, TransportAssumption DEF Unread, Lines
  <2>4. /\ Cardinality(inFlight') <= Cardinality(inFlight) + 1
        /\ Cardinality(tasks') <= Cardinality(tasks) + 1
        /\ Cardinality(inFlight') \in Nat /\ Cardinality(tasks') \in Nat
    <3>1. /\ IsFiniteSet(inFlight) /\ IsFiniteSet(tasks)
          /\ Cardinality(inFlight) \in Nat /\ Cardinality(tasks) \in Nat
      BY <1>0, WorkTyped DEF WorkOK
    <3>2. /\ Cardinality(inFlight') \in {Cardinality(inFlight), Cardinality(inFlight) + 1}
          /\ Cardinality(tasks') \in {Cardinality(tasks), Cardinality(tasks) + 1}
      BY <2>1, <3>1, FS_AddElement
    <3> QED BY <3>1, <3>2
  <2>5. Queued' = Queued /\ Working' = Working
    BY <2>1 DEF Queued, Working
  <2>6. InThePool' <= InThePool + 5 /\ InThePool' \in Nat /\ InThePool \in Nat
    <3>1. /\ Cardinality(tasks) \in Nat /\ Cardinality(Queued) \in Nat
          /\ Cardinality(Working) \in Nat
      BY <1>0, WorkTyped DEF WorkOK
    <3>2. InThePool' = 5 * Cardinality(tasks') + 4 * Cardinality(Queued) + 2 * Cardinality(Working)
      BY <2>5 DEF InThePool
    <3> QED BY <2>4, <3>1, <3>2 DEF InThePool
  <2>7. /\ Work' = Unread' + InThePool' + Len(results) + Cardinality(inFlight') + 4
        /\ Work = Unread + InThePool + Len(results) + Cardinality(inFlight) + 3
    BY <2>1, <2>2 DEF Work
  <2>8. /\ Unread' = Unread - 8 /\ Unread \in Nat /\ Unread' \in Nat /\ Len(results) \in Nat
        /\ Cardinality(inFlight) \in Nat
    BY <1>0, <1>n, <2>3, WorkTypedNext DEF WorkOK
  <2>9. \A u, v, p, q, n, i, j \in Nat :
          v = u - 8 /\ q <= p + 5 /\ j <= i + 1 => v + q + n + j + 4 < u + p + n + i + 3
    OBVIOUS
  <2>10. Unread' + InThePool' + Len(results) + Cardinality(inFlight') + 4
           < Unread + InThePool + Len(results) + Cardinality(inFlight) + 3
    BY <2>4, <2>6, <2>8, <2>9
  <2> QED BY <2>7, <2>10
<1>4. CASE HearStarted
  BY <1>0, <1>4, HeardWork DEF HearStarted
<1>5. CASE HearFinished
  <2>1. Heard("finished") /\ UNCHANGED <<reader, next, tasks, queue, busy>>
    BY <1>5 DEF HearFinished
  <2>2. inFlight' \subseteq inFlight
    BY <1>5 DEF HearFinished, Forget
  <2> QED BY <1>0, <2>1, <2>2, HeardWork
<1>6. CASE TimeOut
  <2>1. UNCHANGED <<reader, next, tasks, queue, busy, results>>
    BY <1>6 DEF TimeOut
  <2>2. PICK l \in inFlight : inFlight' = inFlight \ {l}
    BY <1>0, <1>6 DEF TimeOut, IsFirst, Overdue, TypeOK, Forget
  <2>3. Cardinality(inFlight') = Cardinality(inFlight) - 1
    BY <1>0, <2>2, WorkTyped, FS_RemoveElement DEF WorkOK
  <2>4. Unread' = Unread /\ Stage' = Stage
    BY <2>1 DEF Unread, Stage
  <2>5. Unread' + Len(results') + Cardinality(inFlight') + Stage'
          < Unread + Len(results) + Cardinality(inFlight) + Stage
    BY <1>n, <2>1, <2>3, <2>4
  <2> QED BY <1>0, <2>1, <2>5, ReaderWork
<1> QED BY <1>1, <1>2, <1>3, <1>4, <1>5, <1>6 DEF ReaderStep

\* A report adds a message.
LEMMA ReportWork ==
  ASSUME TypeOK, NEW l \in Lines, NEW kind \in {"started", "finished"}, Report(l, kind)
  PROVE  Len(results') = Len(results) + 1
BY ReportTyped

\* A line goes from one place in the pool to the next, with a message for it.
LEMMA Handed ==
  ASSUME NEW t \in Nat, NEW q \in Nat, NEW b \in Nat, NEW n \in Nat,
         NEW t2 \in Nat, NEW q2 \in Nat, NEW b2 \in Nat, NEW n2 \in Nat,
         \/ t2 = t - 1 /\ q2 <= q + 1 /\ b2 = b /\ n2 = n
         \/ t2 = t /\ q2 = q - 1 /\ b2 <= b + 1 /\ n2 = n + 1
         \/ t2 = t /\ q2 = q /\ b2 = b - 1 /\ n2 = n + 1
  PROVE  5 * t2 + 4 * q2 + 2 * b2 + n2 < 5 * t + 4 * q + 2 * b + n
OBVIOUS

\* The steps of the dispatcher and of the workers leave less to do.
LEMMA PoolWorks ==
  ASSUME IInv, IInv', HandOut \/ \E w \in Workers : Start(w) \/ Finish(w)
  PROVE  Work' < Work
<1>0. TypeOK /\ TypeOK'
  BY DEF IInv, Typed
<1> USE DEF requests, output, pool
<1>n. /\ IsFiniteSet(tasks) /\ Cardinality(tasks) \in Nat
      /\ IsFiniteSet(Queued) /\ Cardinality(Queued) \in Nat
      /\ IsFiniteSet(Working) /\ Cardinality(Working) \in Nat /\ Len(results) \in Nat
  BY <1>0, WorkTyped DEF WorkOK
<1>p. /\ Cardinality(tasks') \in Nat /\ Cardinality(Queued') \in Nat
      /\ Cardinality(Working') \in Nat /\ Len(results') \in Nat
  BY <1>0, WorkTypedNext DEF WorkOK
<1>h. ASSUME \/ /\ Cardinality(tasks') = Cardinality(tasks) - 1
                /\ Cardinality(Queued') <= Cardinality(Queued) + 1
                /\ Cardinality(Working') = Cardinality(Working) /\ Len(results') = Len(results)
             \/ /\ Cardinality(tasks') = Cardinality(tasks)
                /\ Cardinality(Queued') = Cardinality(Queued) - 1
                /\ Cardinality(Working') <= Cardinality(Working) + 1
                /\ Len(results') = Len(results) + 1
             \/ /\ Cardinality(tasks') = Cardinality(tasks)
                /\ Cardinality(Queued') = Cardinality(Queued)
                /\ Cardinality(Working') = Cardinality(Working) - 1
                /\ Len(results') = Len(results) + 1
      PROVE  InThePool' + Len(results') < InThePool + Len(results)
  <2> DEFINE t == Cardinality(tasks)   t2 == Cardinality(tasks')
             q == Cardinality(Queued)  q2 == Cardinality(Queued')
             b == Cardinality(Working) b2 == Cardinality(Working')
             n == Len(results)         n2 == Len(results')
  <2>1. 5 * t2 + 4 * q2 + 2 * b2 + n2 < 5 * t + 4 * q + 2 * b + n
    <3>1. /\ t \in Nat /\ q \in Nat /\ b \in Nat /\ n \in Nat
          /\ t2 \in Nat /\ q2 \in Nat /\ b2 \in Nat /\ n2 \in Nat
      BY <1>n, <1>p
    <3>2. \/ t2 = t - 1 /\ q2 <= q + 1 /\ b2 = b /\ n2 = n
          \/ t2 = t /\ q2 = q - 1 /\ b2 <= b + 1 /\ n2 = n + 1
          \/ t2 = t /\ q2 = q /\ b2 = b - 1 /\ n2 = n + 1
      BY <1>h
    <3> HIDE DEF t, q, b, n, t2, q2, b2, n2
    <3> QED BY <3>1, <3>2, Handed
  <2> QED BY <2>1 DEF InThePool
<1>1. CASE HandOut
  <2>1. PICK l \in Lines : /\ l \in tasks /\ tasks' = tasks \ {l}
                           /\ queue' = [queue EXCEPT ![turn] = @ \cup {l}]
    BY <1>1 DEF HandOut, IsFirst
  <2>2. /\ turn \in Workers /\ queue \in [Workers -> SUBSET Lines]
        /\ UNCHANGED <<reader, next, inFlight, busy, results>>
    BY <1>0, <1>1 DEF HandOut, TypeOK
  <2>3. Cardinality(tasks') = Cardinality(tasks) - 1
    BY <1>n, <2>1, FS_RemoveElement
  <2>4. Queued' = Queued \cup {<<turn, l>>} /\ Working' = Working
    BY <2>1, <2>2 DEF Queued, Working
  <2>5. Cardinality(Queued') <= Cardinality(Queued) + 1
    <3>1. Cardinality(Queued') \in {Cardinality(Queued), Cardinality(Queued) + 1}
      BY <1>n, <2>4, FS_AddElement
    <3> QED BY <1>n, <3>1
  <2>6. InThePool' + Len(results') < InThePool + Len(results)
    BY <1>h, <2>2, <2>3, <2>4, <2>5
  <2> QED BY <1>0, <2>2, <2>6, PoolWork
<1>2. ASSUME NEW w \in Workers, Start(w) PROVE Work' < Work
  <2>1. PICK l \in Lines : /\ l \in queue[w] /\ busy' = [busy EXCEPT ![w] = l]
                           /\ queue' = [queue EXCEPT ![w] = @ \ {l}]
                           /\ Report(l, "started")
    BY <1>2 DEF Start, IsFirst
  <2>2. /\ queue \in [Workers -> SUBSET Lines] /\ busy \in [Workers -> Lines \cup {Idle}]
        /\ UNCHANGED <<reader, next, inFlight, tasks>>
    BY <1>0, <1>2 DEF Start, TypeOK
  <2>3. Queued' = Queued \ {<<w, l>>} /\ <<w, l>> \in Queued
    BY <2>1, <2>2 DEF Queued
  <2>4. Working' = Working \cup {w}
    BY <2>1, <2>2 DEF Working, Lines, Idle
  <2>5. Cardinality(Queued') = Cardinality(Queued) - 1
    BY <1>n, <2>3, FS_RemoveElement
  <2>6. Cardinality(Working') <= Cardinality(Working) + 1
    <3>1. Cardinality(Working') \in {Cardinality(Working), Cardinality(Working) + 1}
      BY <1>n, <2>4, FS_AddElement
    <3> QED BY <1>n, <3>1
  <2>7. Len(results') = Len(results) + 1
    BY <1>0, <2>1, ReportWork
  <2>8. InThePool' + Len(results') < InThePool + Len(results)
    BY <1>h, <2>2, <2>5, <2>6, <2>7
  <2> QED BY <1>0, <2>2, <2>8, PoolWork
<1>3. ASSUME NEW w \in Workers, Finish(w) PROVE Work' < Work
  <2>1. /\ busy \in [Workers -> Lines \cup {Idle}] /\ busy[w] # Idle
        /\ busy' = [busy EXCEPT ![w] = Idle] /\ Report(busy[w], "finished")
        /\ UNCHANGED <<reader, next, inFlight, tasks, queue>>
    BY <1>0, <1>3 DEF Finish, TypeOK
  <2>2. Working' = Working \ {w} /\ w \in Working /\ Queued' = Queued
    BY <2>1 DEF Working, Queued
  <2>3. Cardinality(Working') = Cardinality(Working) - 1
    BY <1>n, <2>2, FS_RemoveElement
  <2>4. Len(results') = Len(results) + 1
    BY <1>0, <2>1, ReportWork
  <2>5. InThePool' + Len(results') < InThePool + Len(results)
    BY <1>h, <2>1, <2>2, <2>3, <2>4
  <2> QED BY <1>0, <2>1, <2>5, PoolWork
<1> QED BY <1>1, <1>2, <1>3

\* Only time passes for ever: every other step of the three kinds of threads, a
\* timeout and the late result after it included, leaves less to do, so that
\* for N lines there are at most 8 * N + 4 of them (run_concurrent_stdio_json_loop).
THEOREM TransportIsFinite == Spec => [][Tick \/ Work' < Work]_vars
<1>1. IInv /\ IInv' /\ [Next]_vars => [Tick \/ Work' < Work]_vars
  BY ReaderWorks, PoolWorks DEF Next
<1> QED BY <1>1, Invariance, PTL DEF Spec

=============================================================================
