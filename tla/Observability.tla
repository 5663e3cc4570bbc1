--------------------------- MODULE Observability ---------------------------
(***************************************************************************)
(* What the service tells about its requests: the counters of /metrics     *)
(* (observability/metrics.py), the trace file behind a bounded queue       *)
(* (observability/tracing.py), the routes that feed both (api/server.py,   *)
(* api/middleware.py), and the application's lifespan around them.         *)
(*                                                                         *)
(* A coroutine that does not wait is one step: a record, a turn of the     *)
(* writer's worker (asyncio.Queue.get only waits when there is nothing to  *)
(* get, so that a turn empties the queue), a turn of a handler.            *)
(***************************************************************************)
EXTENDS Naturals, Sequences, FiniteSets, SequencesExt

CONSTANTS
  Requests,        \* requests for /v1/search
  Capacity,        \* TRACE_QUEUE_CAPACITY
  End              \* the None that ends the worker

VARIABLES
  life,         \* where the lifespan is
  engine,       \* whether api.state.search_engine is there
  request,      \* request[r]: where its handler is
  metrics,      \* the registry's counters
  writer,       \* the trace writer: none, open or closed, with its worker at work or not
  queue,        \* its queue
  file,         \* the requests whose lines are in the trace file
  told,         \* the order in which handlers told the writer of their requests
  fate          \* fate[r]: what the writer did with what it was told

vars == <<life, engine, request, metrics, writer, queue, file, told, fate>>

Counters == {"request", "complete", "partial", "error", "dropped", "failure"}

Endings == {"complete", "partial", "error"}

\* The states of the lifespan, the handlers, the counters and the writer.
Types ==
  /\ life \in {"off", "building", "serving", "stopping", "closing", "waiting", "joining", "over"}
  /\ engine \in BOOLEAN
  /\ request \in [Requests -> {"away", "searching", "cancelled", "ended", "refused", "gone"} \cup Endings]
  /\ metrics \in [Counters -> Nat]
  /\ writer \in [open : BOOLEAN, closed : BOOLEAN, worker : BOOLEAN]
  /\ queue \in Seq(Requests \cup {End}) /\ Len(queue) <= Capacity
  /\ file \in Seq(Requests)
  /\ told \in Seq(Requests)
  /\ fate \in [Requests -> {"none", "queued", "written", "failed", "dropped", "unseen"}]

Init ==
  /\ life = "off" /\ engine = FALSE
  /\ request = [r \in Requests |-> "away"]
  /\ metrics = [c \in Counters |-> 0]
  /\ writer = [open |-> FALSE, closed |-> FALSE, worker |-> FALSE]
  /\ queue = <<>> /\ file = <<>> /\ told = <<>>
  /\ fate = [r \in Requests |-> "none"]

Counted(m, counters) == [c \in Counters |-> m[c] + (IF c \in counters THEN 1 ELSE 0)]

----------------------------------------------------------------------------
(* The handlers.                                                            *)

\* _enqueue that leaves a drop uncounted.
TellSilently(r, counters) ==
  LET goes == IF ~writer.open \/ writer.closed THEN "unseen"
              ELSE IF Len(queue) = Capacity THEN "dropped" ELSE "queued" IN
  /\ told' = Append(told, r)
  /\ fate' = [fate EXCEPT ![r] = goes]
  /\ queue' = IF goes = "queued" THEN Append(queue, r) ELSE queue
  /\ metrics' = Counted(metrics, counters)

\* A handler counts, and tells the writer: what does not fit is dropped and counted,
\* what comes before the writer is open or after it is closed is not noticed.
Tell(r, counters) ==
  LET goes == IF ~writer.open \/ writer.closed THEN "unseen"
              ELSE IF Len(queue) = Capacity THEN "dropped" ELSE "queued" IN
  /\ told' = Append(told, r)
  /\ fate' = [fate EXCEPT ![r] = goes]
  /\ queue' = IF goes = "queued" THEN Append(queue, r) ELSE queue
  /\ metrics' = Counted(metrics, counters \cup (IF goes = "dropped" THEN {"dropped"} ELSE {}))

\* Requests arrive between the two halves of the lifespan; those that have arrived
\* may be at work until it is over, and after.
Listening == life = "serving"

\* The middleware answers a body that is too large, or a length that is not a
\* number, before the application: nothing is counted.
Refuse(r) ==
  /\ Listening /\ request[r] = "away"
  /\ request' = [request EXCEPT ![r] = "refused"]
  /\ UNCHANGED <<life, engine, metrics, writer, queue, file, told, fate>>

\* A body that is no SearchRequest is counted when its error is.
Invalid(r) ==
  /\ Listening /\ request[r] = "away"
  /\ request' = [request EXCEPT ![r] = "ended"]
  /\ Tell(r, {"request", "error"})
  /\ UNCHANGED <<life, engine, writer, file>>

\* search_contract up to the search, or its error when there is no engine.
Search(r) ==
  /\ Listening /\ request[r] = "away"
  /\ IF engine
     THEN /\ request' = [request EXCEPT ![r] = "searching"]
          /\ metrics' = Counted(metrics, {"request"})
          /\ UNCHANGED <<queue, told, fate>>
     ELSE /\ request' = [request EXCEPT ![r] = "ended"]
          /\ Tell(r, {"request", "error"})
  /\ UNCHANGED <<life, engine, writer, file>>

\* The search ends, by itself or because the client leaves or the engine closes;
\* the handler has its turn later.
SearchEnds(r) ==
  /\ request[r] = "searching"
  /\ \E ending \in Endings \cup {"cancelled"} : request' = [request EXCEPT ![r] = ending]
  /\ UNCHANGED <<life, engine, metrics, writer, queue, file, told, fate>>

\* ReportEnd of a handler that counts a request that was cancelled.
ReportEveryEnd(r) ==
  /\ request[r] \in Endings \cup {"cancelled"}
  /\ request' = [request EXCEPT ![r] = "ended"]
  /\ Tell(r, {request[r]} \cap Endings)
  /\ UNCHANGED <<life, engine, writer, file>>

\* record_success or record_error, and the trace; a request that was cancelled leaves
\* neither.
ReportEnd(r) ==
  /\ request[r] \in Endings \cup {"cancelled"}
  /\ IF request[r] \in Endings
     THEN request' = [request EXCEPT ![r] = "ended"] /\ Tell(r, {request[r]})
     ELSE request' = [request EXCEPT ![r] = "gone"] /\ UNCHANGED <<metrics, queue, told, fate>>
  /\ UNCHANGED <<life, engine, writer, file>>

----------------------------------------------------------------------------
(* The writer.                                                              *)

\* A turn of _run: every line is written or fails, nth being those that are
\* written, in order, and the end mark ends the worker.
WriterTurn ==
  LET lines == {i \in DOMAIN queue : queue[i] # End} IN
  /\ writer.worker /\ queue # <<>>
  /\ \E n \in 0 .. Cardinality(lines) : \E nth \in [1 .. n -> lines] :
       LET good == {queue[nth[i]] : i \in 1 .. n}
           bad == {queue[i] : i \in lines} \ good IN
       /\ \A i, j \in 1 .. n : i < j => nth[i] < nth[j]
       /\ file' = file \o [i \in 1 .. n |-> queue[nth[i]]]
       /\ fate' = [r \in Requests |-> IF r \in good THEN "written"
                                      ELSE IF r \in bad THEN "failed" ELSE fate[r]]
       /\ metrics' = [metrics EXCEPT !["failure"] = @ + Cardinality(bad)]
  /\ writer' = [writer EXCEPT !.worker = (lines = DOMAIN queue)]
  /\ queue' = <<>>
  /\ UNCHANGED <<life, engine, request, told>>

----------------------------------------------------------------------------
(* The lifespan.                                                            *)

\* start: a directory that cannot be made leaves the service without a trace.
StartUp ==
  /\ life = "off" /\ life' = "building"
  /\ \/ /\ writer' = [writer EXCEPT !.open = TRUE, !.worker = TRUE]
        /\ UNCHANGED metrics
     \/ /\ metrics' = Counted(metrics, {"failure"})
        /\ UNCHANGED writer
  /\ UNCHANGED <<engine, request, queue, file, told, fate>>

\* The factory builds an engine, or has nothing to build one from, or raises.
EngineBuilt ==
  /\ life = "building"
  /\ \E built \in BOOLEAN : engine' = built /\ life' = "serving"
  /\ UNCHANGED <<request, metrics, writer, queue, file, told, fate>>
BuildFails ==
  /\ life = "building" /\ life' = "closing"
  /\ UNCHANGED <<engine, request, metrics, writer, queue, file, told, fate>>

StopServing ==
  /\ life = "serving"
  /\ life' = IF engine THEN "stopping" ELSE "closing"
  /\ UNCHANGED <<engine, request, metrics, writer, queue, file, told, fate>>

\* engine.close has ended every search it knew; when it raises, the engine stays and
\* the writer is closed all the same.
EngineCloses ==
  /\ life = "stopping"
  /\ \A r \in Requests : request[r] # "searching"
  /\ engine' \in BOOLEAN
  /\ life' = "closing"
  /\ UNCHANGED <<request, metrics, writer, queue, file, told, fate>>

\* CloseWriter that does not wait for the worker.
CloseWriterAtOnce ==
  /\ life = "closing" /\ life' = "over"
  /\ writer' = [writer EXCEPT !.closed = TRUE]
  /\ queue' = IF writer.open /\ Len(queue) < Capacity THEN Append(queue, End) ELSE queue
  /\ UNCHANGED <<engine, request, metrics, file, told, fate>>

\* close up to its first wait: the end mark waits for room in the queue.
CloseWriter ==
  /\ life = "closing"
  /\ writer' = [writer EXCEPT !.closed = TRUE]
  /\ CASE ~writer.open -> life' = "over" /\ UNCHANGED queue
       [] writer.open /\ Len(queue) = Capacity -> life' = "waiting" /\ UNCHANGED queue
       [] OTHER -> life' = "joining" /\ queue' = Append(queue, End)
  /\ UNCHANGED <<engine, request, metrics, file, told, fate>>

EndMarkFits ==
  /\ life = "waiting" /\ Len(queue) < Capacity
  /\ life' = "joining"
  /\ queue' = Append(queue, End)
  /\ UNCHANGED <<engine, request, metrics, writer, file, told, fate>>

\* The worker has ended; closing the file may fail.
WriterCloses ==
  /\ life = "joining" /\ ~writer.worker
  /\ life' = "over"
  /\ \E failed \in BOOLEAN : metrics' = Counted(metrics, IF failed THEN {"failure"} ELSE {})
  /\ writer' = [writer EXCEPT !.open = FALSE]
  /\ UNCHANGED <<engine, request, queue, file, told, fate>>

At(places) == {r \in Requests : request[r] \in places}

\* Nothing is left to do.
Over ==
  /\ life = "over" /\ At(Endings \cup {"searching", "cancelled"}) = {}
  /\ UNCHANGED vars

Next ==
  \/ \E r \in Requests : Refuse(r) \/ Invalid(r) \/ Search(r) \/ SearchEnds(r) \/ ReportEnd(r)
  \/ WriterTurn
  \/ StartUp \/ EngineBuilt \/ BuildFails \/ StopServing \/ EngineCloses
  \/ CloseWriter \/ EndMarkFits \/ WriterCloses \/ Over

Spec == Init /\ [][Next]_vars

----------------------------------------------------------------------------
WithFate(f) == {r \in Requests : fate[r] = f}

\* The writer was told of r before it was told of q.
ToldBefore(r, q) == \E k, l \in DOMAIN told : k < l /\ told[k] = r /\ told[l] = q

\* /metrics adds up: a request that was counted is counted under one outcome, is still
\* at work, or was cancelled, which the counters do not tell from the second; and who
\* is counted under an outcome has told the writer of it, once.
OutcomesAddUp ==
  LET outcomes == metrics["complete"] + metrics["partial"] + metrics["error"] IN
  /\ outcomes = Len(told) /\ Cardinality(Range(told)) = Len(told)
  /\ metrics["request"] =
       outcomes + Cardinality(At(Endings \cup {"searching", "cancelled", "gone"}))

\* What the writer was told is in the file, in the order in which it was told, or in
\* the queue, or counted as dropped or failed; only a writer that is not open yet or
\* closed already loses an event unseen.
TraceAccounted ==
  /\ Cardinality(WithFate("dropped")) = metrics["dropped"]
  /\ Cardinality(WithFate("failed")) <= metrics["failure"]
  /\ metrics["failure"] <= Cardinality(WithFate("failed")) + 1
  /\ WithFate("queued") = Range(queue) \ {End}
  /\ WithFate("written") = Range(file)
  /\ \A i, j \in DOMAIN file : i < j => ToldBefore(file[i], file[j])
  /\ WithFate("unseen") # {} => writer.closed \/ ~writer.open

\* When the lifespan is over, or the worker has read the end mark, no event is left in
\* the queue, and nothing comes after the end mark.
ClosedIsDrained ==
  /\ life = "over" => WithFate("queued") = {} /\ ~writer.worker
  /\ \A i \in DOMAIN queue : queue[i] = End => i = Len(queue) /\ writer.closed
=============================================================================
