------------------------------- MODULE Generate -------------------------------
(***************************************************************************)
(* POST /planner/generate: for each request an SSE generator (router.py,   *)
(* event_gen) polls the queue its own background task fills.  The task     *)
(* runs the planning graph (service.py, generate) or replays a cached      *)
(* plan (cache.py).  Terminal events are held back until the task is done; *)
(* an itinerary is saved as a trip, cached and only then answered.         *)
(*                                                                         *)
(* Requests are those that share one cache key.  The graph is AgentLoop:   *)
(* here it emits progress and returns one of GraphFinals.  A step is the   *)
(* code between two awaits.                                                *)
(***************************************************************************)
EXTENDS Naturals, Sequences, PlanOutcome

CONSTANTS
  Requests,   \* the requests for one cache key
  QueueBound  \* bound: progress is emitted while the queue is shorter

ASSUME QueueAssumption == QueueBound \in Nat

VARIABLES
  connected,  \* the client is there
  gen,        \* where its SSE generator is
  task,       \* the state of the background task
  source,     \* what the task runs: the graph or the cached plan
  queue,      \* the events between them
  buffered,   \* pending_terminal
  final,      \* final_state; before there is one, what the task started from
  evaluation, \* the evaluation of the run: a row, or lost with a warning
  trip,       \* the status of the saved trip
  answer,     \* the terminal frame, and whether it names a trip
  cache       \* the cached plan, if any

outcome == <<source, final, evaluation>>
vars == <<connected, gen, task, queue, buffered, trip, answer, cache, outcome>>

Unfinished == {"running", "recording", "replaying"}
Terminals == {"itinerary_done", "clarification_needed", "error"}
Frames == [event : Terminals \cup {"none"}, trip : BOOLEAN]

Fresh == [complete |-> FALSE, abort |-> FALSE, clarify |-> FALSE, usable |-> FALSE]
NoFrame == [event |-> "none", trip |-> FALSE]

Init ==
  /\ connected = [r \in Requests |-> TRUE]
  /\ gen = [r \in Requests |-> "lookup"]
  /\ task = [r \in Requests |-> "none"]
  /\ source = [r \in Requests |-> "none"]
  /\ queue = [r \in Requests |-> <<>>]
  /\ buffered = [r \in Requests |-> "none"]
  /\ final = [r \in Requests |-> Fresh]
  /\ evaluation = [r \in Requests |-> "none"]
  /\ trip = [r \in Requests |-> "none"]
  /\ answer = [r \in Requests |-> NoFrame]
  /\ cache = {}

(***************************************************************************)
(* The background task                                                     *)
(***************************************************************************)
GraphProgress(r) ==
  /\ task[r] = "running"
  /\ Len(queue[r]) < QueueBound
  /\ queue' = [queue EXCEPT ![r] = Append(@, "progress")]
  /\ UNCHANGED <<connected, gen, task, buffered, trip, answer, cache, outcome>>

\* emit_terminal_from_state
MEmitsTwice(f, alreadyEmitted) == <<Terminal(f)>>
EmittedTerminal(f, alreadyEmitted) == IF alreadyEmitted THEN <<>> ELSE <<Terminal(f)>>

\* The graph is left with final state f; row: its record_evaluation node, which
\* is on the way of every plan without a question, wrote the evaluation.
GraphEnds(r, f, row, emitted) ==
  /\ task[r] = "running"
  /\ task' = [task EXCEPT ![r] = "recording"]
  /\ final' = [final EXCEPT ![r] = f]
  /\ evaluation' = [evaluation EXCEPT ![r] = IF row THEN "row" ELSE @]
  /\ queue' = [queue EXCEPT ![r] = @ \o emitted]
  /\ UNCHANGED <<connected, gen, source, buffered, trip, answer, cache>>

GraphReturns(r) ==
  \E f \in GraphFinals, row \in BOOLEAN :
    /\ row => ~f.clarify
    /\ GraphEnds(r, f, row, EmittedTerminal(f, FALSE))

\* generation_timeout or graph_recursion_limit.  Of the last snapshot, aborted,
\* only the abort matters: nothing is saved or cached after an error.
GivenUp == [Fresh EXCEPT !.abort = TRUE]
GraphGivenUp(r) ==
  \E row \in BOOLEAN :
    GraphEnds(r, GivenUp, row, <<"error">> \o EmittedTerminal(GivenUp, TRUE))

\* Any other exception of the graph leaves no event and no evaluation.
GraphRaises(r) ==
  /\ task[r] = "running"
  /\ task' = [task EXCEPT ![r] = "failed"]
  /\ UNCHANGED <<connected, gen, queue, buffered, trip, answer, cache, outcome>>

\* The service's own call of record_evaluation, then the task returns.
RecordEvaluation(r) ==
  /\ task[r] = "recording"
  /\ task' = [task EXCEPT ![r] = "done"]
  /\ \/ evaluation' = [evaluation EXCEPT ![r] = "row"]
     \/ evaluation' = [evaluation EXCEPT ![r] = IF @ = "none" THEN "lost" ELSE @]
  /\ UNCHANGED <<connected, gen, source, queue, buffered, final, trip, answer, cache>>

\* _replay_cached
Replay(r) ==
  /\ task[r] = "replaying"
  /\ task' = [task EXCEPT ![r] = "done"]
  /\ queue' = [queue EXCEPT ![r] = <<"progress", "progress", "itinerary_done">>]
  /\ final' = [final EXCEPT ![r] = [@ EXCEPT !.complete = TRUE, !.abort = FALSE]]
  /\ UNCHANGED <<connected, gen, source, buffered, evaluation, trip, answer, cache>>

(***************************************************************************)
(* The SSE generator                                                       *)
(***************************************************************************)
Start(r, from, t, f) ==
  /\ gen[r] = "lookup"
  /\ gen' = [gen EXCEPT ![r] = "checking"]
  /\ task' = [task EXCEPT ![r] = t]
  /\ source' = [source EXCEPT ![r] = from]
  /\ final' = [final EXCEPT ![r] = f]
  /\ UNCHANGED <<connected, queue, buffered, evaluation, trip, answer, cache>>

CacheHit(r) == \E f \in cache : Start(r, "cache", "replaying", f)

\* Also when the backend fails.
CacheMiss(r) == Start(r, "graph", "running", Fresh)

MLeaveRunning(t) == t
Cancelled(t) == IF t \in Unfinished THEN "cancelled" ELSE t

\* The last frame is yielded, or none.
End(r, frame) ==
  /\ gen' = [gen EXCEPT ![r] = "ended"]
  /\ answer' = [answer EXCEPT ![r] = frame]

\* The poll loop is left with the task in state t: task.result() gives a final
\* state only once the task is done.
MSaveAnyTerminal(r) == buffered[r] # "none"
ToSave(r) == buffered[r] = "itinerary_done"

LeaveLoop(r, t) ==
  /\ task' = [task EXCEPT ![r] = t]
  /\ \/ /\ ToSave(r) /\ t = "done"
        /\ gen' = [gen EXCEPT ![r] = "saving"]
        /\ UNCHANGED answer
     \/ /\ buffered[r] # "none"
        /\ ~(ToSave(r) /\ t = "done")
        /\ End(r, [event |-> buffered[r], trip |-> FALSE])
     \/ /\ buffered[r] = "none" /\ t \in {"done", "failed"}
        /\ End(r, [event |-> "error", trip |-> FALSE])         \* missing_terminal
     \/ /\ buffered[r] = "none" /\ t = "cancelled"
        /\ End(r, NoFrame)
  /\ UNCHANGED <<connected, queue, buffered, trip, cache, outcome>>

CheckConnection(r) ==
  /\ gen[r] = "checking"
  /\ \/ /\ connected[r]
        /\ gen' = [gen EXCEPT ![r] = "getting"]
        /\ UNCHANGED <<connected, task, queue, buffered, trip, answer, cache, outcome>>
     \/ /\ ~connected[r]
        /\ LeaveLoop(r, Cancelled(task[r]))

MBufferAny(r) == Head(queue[r])
PendingTerminal(r) == IF Head(queue[r]) \in Terminals THEN Head(queue[r]) ELSE buffered[r]

ReadEvent(r) ==
  /\ gen[r] = "getting"
  /\ queue[r] # <<>>
  /\ gen' = [gen EXCEPT ![r] = "checking"]
  /\ queue' = [queue EXCEPT ![r] = Tail(@)]
  /\ buffered' = [buffered EXCEPT ![r] = PendingTerminal(r)]
  /\ UNCHANGED <<connected, task, trip, answer, cache, outcome>>

MOnceBuffered(r) == buffered[r] # "none"
TaskDone(r) == task[r] \notin Unfinished

PollTimeout(r) ==
  /\ gen[r] = "getting"
  /\ queue[r] = <<>>
  /\ \/ /\ TaskDone(r)
        /\ LeaveLoop(r, task[r])
     \/ /\ ~TaskDone(r)
        /\ gen' = [gen EXCEPT ![r] = "checking"]
        /\ UNCHANGED <<connected, task, queue, buffered, trip, answer, cache, outcome>>

\* save_from_state
SaveTrip(r) ==
  /\ gen[r] = "saving"
  /\ gen' = [gen EXCEPT ![r] = "caching"]
  /\ trip' = [trip EXCEPT ![r] = IF final[r].usable THEN TripStatus(final[r]) ELSE "none"]
  /\ UNCHANGED <<connected, task, queue, buffered, answer, cache, outcome>>

\* An exception ends the stream: before the commit, and the transaction is
\* rolled back, or after it, when the trip is refreshed.
SaveFails(r) ==
  /\ gen[r] = "saving" \/ (gen[r] = "caching" /\ trip[r] # "none")
  /\ End(r, NoFrame)
  /\ UNCHANGED <<connected, task, queue, buffered, trip, cache, outcome>>

\* maybe_set_cached_state, for a fresh plan only; the backend may fail.
CacheAndAnswer(r) ==
  /\ gen[r] = "caching"
  /\ \/ /\ source[r] = "graph" /\ Cacheable(final[r])
        /\ cache' = {final[r]}
     \/ UNCHANGED cache
  /\ End(r, [event |-> "itinerary_done", trip |-> trip[r] # "none"])
  /\ UNCHANGED <<connected, task, queue, buffered, trip, outcome>>

(***************************************************************************)
(* The environment                                                         *)
(***************************************************************************)
Disconnect(r) ==
  /\ connected[r] /\ gen[r] # "ended"
  /\ connected' = [connected EXCEPT ![r] = FALSE]
  /\ UNCHANGED <<gen, task, queue, buffered, trip, answer, cache, outcome>>

\* Starlette cancels the generator of a client that left, at any of its awaits:
\* its finally block cancels the task.
Interrupt(r) ==
  /\ ~connected[r] /\ gen[r] # "ended"
  /\ End(r, NoFrame)
  /\ task' = [task EXCEPT ![r] = Cancelled(@)]
  /\ UNCHANGED <<connected, queue, buffered, trip, cache, outcome>>

\* PLANNER_CACHE_TTL_SECONDS
CacheExpires ==
  /\ cache # {}
  /\ cache' = {}
  /\ UNCHANGED <<connected, gen, task, queue, buffered, trip, answer, outcome>>

GraphStops(r) == GraphReturns(r) \/ GraphGivenUp(r) \/ GraphRaises(r)
TaskStep(r) == GraphStops(r) \/ RecordEvaluation(r) \/ Replay(r)
GeneratorStep(r) ==
  \/ CacheHit(r) \/ CacheMiss(r)
  \/ CheckConnection(r) \/ ReadEvent(r) \/ PollTimeout(r)
  \/ SaveTrip(r) \/ SaveFails(r) \/ CacheAndAnswer(r)

RequestStep(r) ==
  GraphProgress(r) \/ TaskStep(r) \/ GeneratorStep(r) \/ Disconnect(r) \/ Interrupt(r)

Next == (\E r \in Requests : RequestStep(r)) \/ CacheExpires

Spec == Init /\ [][Next]_vars

\* The graph ends by PLANNER_GENERATION_TIMEOUT_SECONDS at the latest, and
\* asyncio resumes a task or a generator whose await is over.
FairSpec == Spec /\ \A r \in Requests : WF_vars(TaskStep(r)) /\ WF_vars(GeneratorStep(r))

(***************************************************************************)
(* Properties                                                              *)
(***************************************************************************)
\* Every variable has its type.
TypeOK ==
  /\ connected \in [Requests -> BOOLEAN]
  /\ gen \in [Requests -> {"lookup", "checking", "getting", "saving", "caching", "ended"}]
  /\ task \in [Requests -> Unfinished \cup {"none", "done", "failed", "cancelled"}]
  /\ source \in [Requests -> {"none", "graph", "cache"}]
  /\ queue \in [Requests -> Seq(Terminals \cup {"progress"})]
  /\ buffered \in [Requests -> Terminals \cup {"none"}]
  /\ final \in [Requests -> Outcomes]
  /\ evaluation \in [Requests -> {"none", "row", "lost"}]
  /\ trip \in [Requests -> {"none", "COMPLETE", "FAILED", "DRAFT"}]
  /\ answer \in [Requests -> Frames]
  /\ cache \in SUBSET Outcomes

\* Buffering (event_gen): a terminal event is the last event of its request, in
\* the queue or buffered, so that the one buffered last is the only one; and it
\* was emitted by a task that will not emit another.
Carries(q, events) == \E i \in DOMAIN q : q[i] \in events
TerminalIsLast(q) == \A i \in DOMAIN q : q[i] \in Terminals => i = Len(q)
Emitted(r) == buffered[r] # "none" \/ Carries(queue[r], Terminals)
OneTerminal ==
  \A r \in Requests :
    /\ TerminalIsLast(queue[r])
    /\ buffered[r] # "none" => queue[r] = <<>>
    /\ Emitted(r) => task[r] \notin {"none", "running", "replaying"}

\* Answers (event_gen): a client that is there is answered with the terminal
\* event its task emitted, an itinerary with its trip; missing_terminal is for
\* a task that failed.
FullAnswer(r) ==
  connected[r] /\ answer[r].event # "none" =>
    /\ IF buffered[r] = "none" THEN task[r] = "failed" ELSE answer[r].event = buffered[r]
    /\ answer[r].event = "itinerary_done" => answer[r].trip /\ trip[r] # "none"
AnsweredInFull == \A r \in Requests : FullAnswer(r)

\* Trips (event_gen, save_from_state): what is saved is a usable itinerary that
\* was announced as one, never a question, a run that was given up or a draft.
TripsAreItineraries ==
  \A r \in Requests :
    trip[r] # "none" =>
      /\ buffered[r] = "itinerary_done"
      /\ Terminal(final[r]) = "itinerary_done"
      /\ trip[r] # "DRAFT"

\* Cache (maybe_set_cached_state): a cached plan is one that graph and not cache
\* made for some request, that was not aborted, and that is saved: what later
\* requests replay is never a failure.
CacheIsServable ==
  \A f \in cache :
    /\ Terminal(f) = "itinerary_done" /\ ~f.abort
    /\ \E r \in Requests : source[r] = "graph" /\ trip[r] = "COMPLETE"

\* Evaluations (PlannerService.generate, event_gen): a generation is on record, or
\* the loss of its record is logged, before its trip is saved and before a client
\* that is still there is answered.  Only a graph that raised is answered without.
AnswersAreRecorded ==
  \A r \in Requests :
    source[r] = "graph" =>
      /\ trip[r] # "none" => evaluation[r] # "none"
      /\ connected[r] /\ answer[r].event # "none" =>
           evaluation[r] # "none" \/ task[r] = "failed"

\* Disconnects (event_gen): no task outlives its stream.
NoOrphanTask == \A r \in Requests : gen[r] = "ended" => task[r] \notin Unfinished

\* The inductive invariant the theorems of Generate_proofs rest on: what the
\* stages of a task and of its generator know of each other.
Announced(r) ==
  buffered[r] = "itinerary_done" \/ Carries(queue[r], {"itinerary_done"})

TaskCoheres(r) ==
  /\ gen[r] = "lookup" => task[r] = "none"
  /\ gen[r] \in {"checking", "getting"} => task[r] # "none"
  /\ gen[r] = "ended" => task[r] \notin Unfinished
  /\ task[r] = "cancelled" => ~connected[r]
  /\ task[r] \in {"recording", "done"} => Emitted(r)
  /\ task[r] = "replaying" => Terminal(final[r]) = "itinerary_done"

EventsCohere(r) ==
  /\ TerminalIsLast(queue[r])
  /\ buffered[r] # "none" => queue[r] = <<>>
  /\ Emitted(r) => task[r] \in {"recording", "done", "cancelled"}
  /\ Announced(r) => Terminal(final[r]) = "itinerary_done"

AnswerCoheres(r) ==
  /\ gen[r] \in {"saving", "caching"} => buffered[r] = "itinerary_done" /\ task[r] = "done"
  /\ gen[r] = "caching" => trip[r] # "none"
  /\ trip[r] # "none" => /\ gen[r] \in {"caching", "ended"}
                         /\ buffered[r] = "itinerary_done"
                         /\ trip[r] = TripStatus(final[r])
  /\ answer[r].event # "none" => gen[r] = "ended"
  /\ trip[r] # "none" /\ answer[r].event # "none" => answer[r].event = "itinerary_done"

Coheres(r) == TaskCoheres(r) /\ EventsCohere(r) /\ AnswerCoheres(r) /\ FullAnswer(r)

Inv ==
  /\ TypeOK
  /\ \A r \in Requests : Coheres(r)
  /\ CacheIsServable

\* What AnswersAreRecorded needs besides: who runs the graph records it.
RecordCoheres(r) ==
  /\ task[r] = "replaying" => source[r] = "cache"
  /\ task[r] = "done" /\ source[r] = "graph" => evaluation[r] # "none"
  /\ trip[r] # "none" => task[r] = "done"
RecordInv == Inv /\ \A r \in Requests : RecordCoheres(r)

\* openspec, planner-sse-generate: exactly one terminal event closes the stream
\* of a client that is there.
ConnectedAreAnswered ==
  \A r \in Requests : gen[r] = "ended" /\ connected[r] => answer[r].event # "none"

\* The promise to each client, see StreamContract.
stream ==
  [r \in Requests |-> IF gen[r] # "ended" THEN "open"
                      ELSE IF answer[r].event = "none" THEN "cut" ELSE answer[r].event]
saved == [r \in Requests |-> trip[r] # "none"]
gone == [r \in Requests |-> ~connected[r]]
Contract == INSTANCE StreamContract
ImplementsContract == Contract!Spec
=============================================================================
