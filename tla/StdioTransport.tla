---------------------------- MODULE StdioTransport ----------------------------
(***************************************************************************)
(* The JSON-lines transport of the router (stdio_transport.rs).  A reader  *)
(* takes lines from stdin and submits them through a dispatcher thread to  *)
(* the channels of Workers worker threads, which report on one result      *)
(* channel that only the reader receives from: when too many requests are  *)
(* in flight, and after the end of the input.  A request in flight that    *)
(* takes too long is answered with a timeout, and its late result is to be *)
(* ignored.                                                                *)
(*                                                                         *)
(* Lines are numbered as they come (line_index).  The reader submits them  *)
(* in that order, so a set of lines is a channel: its first line is the    *)
(* smallest.  Workers never stop before their channel is closed, since an  *)
(* operation that panics is caught or ends the process: the dispatcher's   *)
(* handling of closed worker channels is left out.                         *)
(***************************************************************************)
EXTENDS Naturals, Sequences, FiniteSets

CONSTANTS
  N,        \* bound: request lines the client sends
  Limit,    \* max_concurrency: requests in flight, and worker threads
  Timeout,  \* in_flight_timeout, in ticks
  Batch     \* STDIO_RESPONSE_FLUSH_BATCH_SIZE

ASSUME TransportAssumption ==
  N \in Nat /\ Limit \in Nat \ {0} /\ Timeout \in Nat \ {0} /\ Batch \in Nat \ {0}

Lines == 1..N
Workers == 1..Limit

VARIABLES
  reader,     \* where the reader is
  next,       \* the line that comes next, or that the reader is handling
  inFlight,   \* in_flight_requests
  started,    \* those of them the reader knows to be started
  age,        \* and the time since it knows
  answers,    \* how many answers were written for each line
  pending,    \* pending_responses: answers written since the last flush
  tasks,      \* the channel from the reader to the dispatcher
  turn,       \* next_worker of the dispatcher
  queue,      \* the channel to each worker
  busy,       \* the line each worker executes, or Idle
  results     \* the channel from the workers to the reader

requests == <<inFlight, started, age>>
output == <<answers, pending>>
pool == <<tasks, turn, queue, busy>>
vars == <<reader, next, requests, output, pool, results>>

\* read: in stdin.lines(); admit: holds a line; join: joins the other threads;
\* drain: takes the results that are left.  done, failed (an input or output
\* error, or an operation aborts the process) and lost (the result channel is
\* disconnected before all is answered) are the ends of the loop.
Ends == {"done", "failed", "lost"}
Places == {"read", "admit", "join", "drain"} \cup Ends

Running == reader \notin Ends

Idle == 0

Message == [line: Lines, kind: {"started", "finished"}]

IsFirst(l, channel) == l \in channel /\ \A k \in channel : l <= k

-----------------------------------------------------------------------------
(* The reader.                                                             *)

ReadLine ==
  /\ reader = "read"
  /\ next \in Lines
  /\ reader' = "admit"
  /\ UNCHANGED <<next, requests, output, pool, results>>

\* The client closes its end; the task channel is closed with it.
EndOfInput ==
  /\ reader = "read"
  /\ reader' = "join"
  /\ UNCHANGED <<next, requests, output, pool, results>>

Full == Cardinality(inFlight) >= Limit

\* Fault: the last batch stays in the buffer.
FaultFlushed(count) == count

\* At the end of the loop what is buffered is flushed.
Flushed(count) == 0

\* Fault: off by one.
FaultBuffered(count) == IF count >= Batch THEN 0 ELSE count + 1

\* A full batch is flushed.
Buffered(count) == IF count + 1 >= Batch THEN 0 ELSE count + 1

\* write_encoded_response.
Write(l) ==
  /\ answers' = [answers EXCEPT ![l] = @ + 1]
  /\ pending' = Buffered(pending)

\* The line does not parse, or asks for no concurrency: the reader answers.
\* With a limit of one it answers every line itself.
AnswerAtOnce ==
  /\ reader = "admit"
  /\ ~Full
  /\ Write(next)
  /\ next' = next + 1
  /\ reader' = "read"
  /\ UNCHANGED <<requests, pool, results>>

Submit ==
  /\ Limit > 1
  /\ reader = "admit"
  /\ ~Full
  /\ tasks' = tasks \cup {next}
  /\ inFlight' = inFlight \cup {next}
  /\ next' = next + 1
  /\ reader' = "read"
  /\ UNCHANGED <<started, age, output, turn, queue, busy, results>>

\* recv_stdio_response_or_timeout is called.
Receiving ==
  \/ reader = "admit" /\ Full
  \/ reader = "drain" /\ inFlight # {}

Forget(l) ==
  /\ inFlight' = inFlight \ {l}
  /\ started' = started \ {l}
  /\ age' = [age EXCEPT ![l] = 0]

Heard(kind) ==
  /\ Receiving
  /\ results # <<>>
  /\ Head(results).kind = kind
  /\ results' = Tail(results)

\* The clock of a request starts when the reader hears that it has started.
HearStarted ==
  /\ Heard("started")
  /\ started' = started \cup ({Head(results).line} \cap inFlight)
  /\ UNCHANGED <<reader, next, inFlight, age, output, pool>>

\* Fault: a result is written although its request has been timed out.
FaultAwaited(l) == TRUE

Awaited(l) == l \in inFlight

HearFinished ==
  /\ Heard("finished")
  /\ LET l == Head(results).line IN
       IF Awaited(l) THEN Forget(l) /\ Write(l) ELSE UNCHANGED <<requests, output>>
  /\ UNCHANGED <<reader, next, pool>>

Overdue == {l \in started : age[l] >= Timeout}

\* A deadline passes while no message is there: pop_timed_out_stdio_request
\* takes the first of the requests that are overdue.
TimeOut ==
  /\ reader = "admit" /\ Full
  /\ results = <<>>
  /\ \E l \in Lines : IsFirst(l, Overdue) /\ Forget(l) /\ Write(l)
  /\ UNCHANGED <<reader, next, pool, results>>

\* Fault: the workers are not joined, only the dispatcher.
FaultJoined == tasks = {}

\* Dispatcher and workers have ended: their channels are closed and empty.
Joined ==
  /\ tasks = {}
  /\ \A w \in Workers : queue[w] = {} /\ busy[w] = Idle

Join ==
  /\ reader = "join"
  /\ Joined
  /\ reader' = "drain"
  /\ UNCHANGED <<next, requests, output, pool, results>>

\* All answers are written, or every sender is gone and no message left.
Return ==
  /\ reader = "drain"
  /\ inFlight # {} => results = <<>>
  /\ reader' = IF inFlight = {} THEN "done" ELSE "lost"
  /\ pending' = IF inFlight = {} THEN Flushed(pending) ELSE pending
  /\ UNCHANGED <<next, requests, answers, pool, results>>

\* Reading or writing fails, or an operation aborts the process.
Fail ==
  /\ Running
  /\ reader' = "failed"
  /\ UNCHANGED <<next, requests, output, pool, results>>

-----------------------------------------------------------------------------
(* The dispatcher and the workers.                                         *)

\* dispatch_stdio_work_items: round robin over the workers' channels, whatever
\* the workers are doing.
HandOut ==
  /\ Running
  /\ \E l \in Lines :
       /\ IsFirst(l, tasks)
       /\ tasks' = tasks \ {l}
       /\ queue' = [queue EXCEPT ![turn] = @ \cup {l}]
  /\ turn' = IF turn = Limit THEN 1 ELSE turn + 1
  /\ UNCHANGED <<reader, next, requests, output, busy, results>>

Report(l, kind) == results' = Append(results, [line |-> l, kind |-> kind])

Start(w) ==
  /\ Running
  /\ busy[w] = Idle
  /\ \E l \in Lines :
       /\ IsFirst(l, queue[w])
       /\ busy' = [busy EXCEPT ![w] = l]
       /\ queue' = [queue EXCEPT ![w] = @ \ {l}]
       /\ Report(l, "started")
  /\ UNCHANGED <<reader, next, requests, output, tasks, turn>>

Finish(w) ==
  /\ Running
  /\ busy[w] # Idle
  /\ Report(busy[w], "finished")
  /\ busy' = [busy EXCEPT ![w] = Idle]
  /\ UNCHANGED <<reader, next, requests, output, tasks, turn, queue>>

Tick ==
  /\ Running
  /\ age' = [l \in Lines |-> IF l \in started /\ age[l] < Timeout THEN age[l] + 1 ELSE age[l]]
  /\ UNCHANGED <<reader, next, inFlight, started, output, pool, results>>

-----------------------------------------------------------------------------

Init ==
  /\ reader = "read" /\ next = 1
  /\ inFlight = {} /\ started = {} /\ age = [l \in Lines |-> 0]
  /\ answers = [l \in Lines |-> 0] /\ pending = 0
  /\ tasks = {} /\ turn = 1
  /\ queue = [w \in Workers |-> {}]
  /\ busy = [w \in Workers |-> Idle]
  /\ results = <<>>

ReaderStep ==
  \/ ReadLine \/ EndOfInput \/ AnswerAtOnce \/ Submit
  \/ HearStarted \/ HearFinished \/ TimeOut
  \/ Join \/ Return

Next ==
  \/ ReaderStep \/ Fail
  \/ HandOut
  \/ \E w \in Workers : Start(w) \/ Finish(w)
  \/ Tick

Spec == Init /\ [][Next]_vars

\* The client closes its input in the end; every thread that can go on does,
\* and an operation ends, if late.
FairSpec ==
  /\ Spec
  /\ WF_vars(ReaderStep) /\ WF_vars(HandOut)
  /\ \A w \in Workers : WF_vars(Start(w)) /\ WF_vars(Finish(w))

-----------------------------------------------------------------------------
(* Properties.                                                             *)

\* The variables hold lines, ages, counts and messages.
TypeOK ==
  /\ reader \in Places
  /\ next \in 1..(N + 1)
  /\ inFlight \subseteq Lines /\ started \subseteq inFlight
  /\ age \in [Lines -> 0..Timeout]
  /\ answers \in [Lines -> Nat]
  /\ pending \in 0..(Batch - 1)
  /\ tasks \subseteq Lines
  /\ turn \in Workers
  /\ queue \in [Workers -> SUBSET Lines]
  /\ busy \in [Workers -> Lines \cup {Idle}]
  /\ results \in Seq(Message)

\* Timeouts, late results and the drain after the end of the input together
\* answer every accepted line once: "ignore late completion" (line 260), and
\* the disconnected channel of line 279 is never seen.
Service ==
  INSTANCE StdioService WITH
    open <- inFlight,
    phase <- CASE reader = "done" -> "ended"
               [] reader \in {"failed", "lost"} -> reader
               [] OTHER -> "serving"

ServiceSpec == Service!Spec

\* A line that was read is answered in the end, and the answer is flushed,
\* unless the transport fails.
LinesAnswered ==
  \A l \in Lines : (next > l) ~> (reader = "failed" \/ (answers[l] > 0 /\ pending = 0))

=============================================================================
