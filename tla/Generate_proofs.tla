--------------------------- MODULE Generate_proofs ---------------------------
(***************************************************************************)
(* Proofs about Generate, for every set of requests and every QueueBound.  *)
(***************************************************************************)
EXTENDS Generate, SequenceTheorems, TLAPS

Events == Terminals \cup {"progress"}

(***************************************************************************)
(* The queue                                                               *)
(***************************************************************************)
\* Progress behind a queue without terminals.
LEMMA AppendProgress ==
  ASSUME NEW q \in Seq(Events), ~Carries(q, Terminals)
  PROVE  /\ Append(q, "progress") \in Seq(Events)
         /\ ~Carries(Append(q, "progress"), Terminals)
<1> DEFINE p == Append(q, "progress")
<1>1. p \in Seq(Events)
  BY DEF Events
<1>2. ASSUME NEW i \in DOMAIN p, p[i] \in Terminals PROVE FALSE
  <2>1. CASE i = Len(q) + 1
    <3>1. p[i] = "progress"
      BY <2>1
    <3> QED BY <1>2, <3>1 DEF Terminals
  <2>2. CASE i \in DOMAIN q
    <3>1. p[i] = q[i]
      BY <2>2
    <3> QED BY <1>2, <2>2, <3>1 DEF Carries
  <2>3. i \in 1..(Len(q) + 1)
    BY <1>2
  <2> QED BY <2>1, <2>2, <2>3
<1> QED BY <1>1, <1>2 DEF Carries

\* The one terminal event behind it.
LEMMA AppendTerminal ==
  ASSUME NEW q \in Seq(Events), ~Carries(q, Terminals), NEW t \in Terminals
  PROVE  LET p == q \o <<t>> IN
         /\ p \in Seq(Events)
         /\ TerminalIsLast(p)
         /\ Carries(p, Terminals)
         /\ Carries(p, {"itinerary_done"}) => t = "itinerary_done"
<1> DEFINE p == q \o <<t>>
<1>1. /\ p \in Seq(Events) /\ Len(p) = Len(q) + 1
      /\ DOMAIN p = 1..(Len(q) + 1) /\ DOMAIN q = 1..Len(q)
      /\ Len(q) \in Nat
  BY DEF Events
<1>2. \A i \in 1..Len(q) : p[i] = q[i]
  BY DEF Events
<1>3. p[Len(q) + 1] = t
  BY DEF Events
<1> HIDE DEF p
<1>4. \A i \in DOMAIN p : p[i] \in Terminals => i = Len(q) + 1
  BY <1>1, <1>2 DEF Carries
<1>5. Carries(p, {"itinerary_done"}) => t = "itinerary_done"
  BY <1>3, <1>4 DEF Carries, Terminals
<1>6. Carries(p, Terminals)
  BY <1>1, <1>3 DEF Carries
<1>7. TerminalIsLast(p)
  BY <1>1, <1>4 DEF TerminalIsLast
<1> QED BY <1>1, <1>5, <1>6, <1>7 DEF p

\* Reading the head: a terminal was the last event, and anything else leaves the
\* terminals of the queue where they are.
LEMMA ReadHead ==
  ASSUME NEW q \in Seq(Events), q # <<>>, TerminalIsLast(q)
  PROVE  /\ Head(q) \in Events
         /\ Tail(q) \in Seq(Events)
         /\ TerminalIsLast(Tail(q))
         /\ Head(q) \in Terminals => Tail(q) = <<>> /\ Carries(q, {Head(q)})
         /\ Carries(q, Terminals) => Head(q) \in Terminals \/ Carries(Tail(q), Terminals)
         /\ Carries(Tail(q), Terminals) => Carries(q, Terminals)
         /\ Carries(Tail(q), {"itinerary_done"}) => Carries(q, {"itinerary_done"})
<1> DEFINE p == Tail(q)
<1>1. /\ p \in Seq(Events) /\ Len(p) = Len(q) - 1 /\ Head(q) \in Events
      /\ DOMAIN p = 1..(Len(q) - 1) /\ DOMAIN q = 1..Len(q)
      /\ Len(q) \in Nat /\ Len(q) > 0
      /\ Head(q) = q[1]
  OBVIOUS
<1>2. \A i \in 1..(Len(q) - 1) : p[i] = q[i + 1]
  OBVIOUS
<1>3. Head(q) \in Terminals => Len(q) = 1
  BY <1>1 DEF TerminalIsLast
<1>4. Len(q) = 1 => p = <<>>
  BY <1>1, EmptySeq
<1> HIDE DEF p
<1>5. TerminalIsLast(p)
  <2> SUFFICES ASSUME NEW i \in DOMAIN p, p[i] \in Terminals PROVE i = Len(p)
    BY DEF TerminalIsLast
  <2>1. i + 1 \in DOMAIN q /\ q[i + 1] \in Terminals
    BY <1>1, <1>2
  <2>2. i + 1 = Len(q)
    BY <2>1 DEF TerminalIsLast
  <2> QED BY <1>1, <2>2
<1>6. ASSUME NEW es, Carries(p, es) PROVE Carries(q, es)
  <2>1. PICK i \in DOMAIN p : p[i] \in es
    BY <1>6 DEF Carries
  <2>2. i + 1 \in DOMAIN q /\ q[i + 1] \in es
    BY <1>1, <1>2, <2>1
  <2> QED BY <2>2 DEF Carries
<1>7. Carries(q, Terminals) => Head(q) \in Terminals \/ Carries(p, Terminals)
  <2> SUFFICES ASSUME Carries(q, Terminals), Head(q) \notin Terminals PROVE Carries(p, Terminals)
    OBVIOUS
  <2>1. PICK i \in DOMAIN q : q[i] \in Terminals
    BY DEF Carries
  <2>2. i # 1
    BY <1>1, <2>1
  <2>3. i - 1 \in DOMAIN p /\ p[i - 1] = q[i]
    BY <1>1, <1>2, <2>1, <2>2
  <2> QED BY <2>1, <2>3 DEF Carries
<1>8. Carries(q, {Head(q)})
  BY <1>1 DEF Carries
<1> QED BY <1>1, <1>3, <1>4, <1>5, <1>6, <1>7, <1>8 DEF p

\* What _replay_cached puts into the queue.
LEMMA ReplayedEvents ==
  LET p == <<"progress", "progress", "itinerary_done">> IN
  p \in Seq(Events) /\ TerminalIsLast(p) /\ Carries(p, Terminals)
<1> DEFINE p == <<"progress", "progress", "itinerary_done">>
<1>1. p \in Seq(Events) /\ Len(p) = 3 /\ DOMAIN p = 1..3
        /\ p[1] = "progress" /\ p[2] = "progress" /\ p[3] = "itinerary_done"
  BY DEF Events, Terminals
<1> HIDE DEF p
<1>2. TerminalIsLast(p)
  BY <1>1 DEF TerminalIsLast, Terminals
<1>3. Carries(p, Terminals)
  BY <1>1 DEF Carries, Terminals
<1> QED BY <1>1, <1>2, <1>3 DEF p

\* The final state of a replay is a plan again, and an itinerary if the cached
\* one was.
LEMMA ReplayedOutcome ==
  ASSUME NEW f \in Outcomes
  PROVE  LET g == [f EXCEPT !.complete = TRUE, !.abort = FALSE] IN
         /\ g \in Outcomes
         /\ Terminal(f) = "itinerary_done" => Terminal(g) = "itinerary_done"
BY DEF Outcomes, Terminal

(***************************************************************************)
(* The steps of one request                                                *)
(***************************************************************************)
\* What the environment and the two processes of a request can do.
LEMMA RequestStepCases ==
  ASSUME NEW r \in Requests, RequestStep(r)
  PROVE  \/ GraphProgress(r) \/ GraphReturns(r) \/ GraphGivenUp(r) \/ GraphRaises(r)
         \/ RecordEvaluation(r) \/ Replay(r)
         \/ CacheHit(r) \/ CacheMiss(r) \/ CheckConnection(r) \/ ReadEvent(r)
         \/ PollTimeout(r) \/ SaveTrip(r) \/ SaveFails(r) \/ CacheAndAnswer(r)
         \/ Disconnect(r) \/ Interrupt(r)
BY DEF RequestStep, TaskStep, GraphStops, GeneratorStep

\* The three ways a graph ends, with what its event puts into the queue.
LEMMA GraphEndsCases ==
  ASSUME Inv, NEW r \in Requests, GraphReturns(r) \/ GraphGivenUp(r)
  PROVE  \E f \in Outcomes, row \in BOOLEAN, t \in Terminals :
           /\ GraphEnds(r, f, row, <<t>>)
           /\ t = "itinerary_done" => Terminal(f) = "itinerary_done"
<1>1. CASE GraphReturns(r)
  <2>1. PICK f \in GraphFinals, row \in BOOLEAN : GraphEnds(r, f, row, <<Terminal(f)>>)
    BY <1>1 DEF GraphReturns, EmittedTerminal
  <2>2. f \in Outcomes /\ Terminal(f) \in Terminals
    BY DEF GraphFinals, Terminal, Terminals
  <2> QED BY <2>1, <2>2
<1>2. CASE GraphGivenUp(r)
  <2>1. PICK row \in BOOLEAN : GraphEnds(r, GivenUp, row, <<"error">> \o <<>>)
    BY <1>2 DEF GraphGivenUp, EmittedTerminal
  <2>2. <<"error">> \o <<>> = <<"error">>
    OBVIOUS
  <2>3. GivenUp \in Outcomes /\ "error" \in Terminals /\ "error" # "itinerary_done"
    BY DEF GivenUp, Fresh, Outcomes, Terminals
  <2> QED BY <2>1, <2>2, <2>3
<1> QED BY <1>1, <1>2

\* The variables of request q are what they were.
Same(q) ==
  /\ connected'[q] = connected[q] /\ gen'[q] = gen[q] /\ task'[q] = task[q]
  /\ source'[q] = source[q] /\ queue'[q] = queue[q] /\ buffered'[q] = buffered[q]
  /\ final'[q] = final[q] /\ trip'[q] = trip[q] /\ answer'[q] = answer[q]

LEMMA SameKeepsCoherence ==
  ASSUME NEW q \in Requests, Coheres(q), Same(q)
  PROVE  Coheres(q)'
BY DEF Same, Coheres, TaskCoheres, EventsCohere, AnswerCoheres, FullAnswer, Emitted, Announced

\* A step of one request leaves the others alone.
LEMMA StepsAreLocal ==
  ASSUME TypeOK, NEW r \in Requests, NEW q \in Requests, q # r, RequestStep(r)
  PROVE  Same(q)
<1> USE DEF Same, TypeOK, outcome
<1>1. CASE GraphProgress(r) \/ GraphRaises(r) \/ RecordEvaluation(r)
  BY <1>1 DEF GraphProgress, GraphRaises, RecordEvaluation
<1>2. CASE GraphReturns(r) \/ GraphGivenUp(r)
  BY <1>2 DEF GraphReturns, GraphGivenUp, GraphEnds
<1>3. CASE Replay(r)
  BY <1>3 DEF Replay
<1>4. CASE CacheHit(r) \/ CacheMiss(r)
  BY <1>4 DEF CacheHit, CacheMiss, Start
<1>5. CASE CheckConnection(r) \/ PollTimeout(r)
  BY <1>5 DEF CheckConnection, PollTimeout, LeaveLoop, End
<1>6. CASE ReadEvent(r)
  BY <1>6 DEF ReadEvent
<1>7. CASE SaveTrip(r) \/ SaveFails(r) \/ CacheAndAnswer(r)
  BY <1>7 DEF SaveTrip, SaveFails, CacheAndAnswer, End
<1>8. CASE Disconnect(r) \/ Interrupt(r)
  BY <1>8 DEF Disconnect, Interrupt, End
<1> QED BY <1>1, <1>2, <1>3, <1>4, <1>5, <1>6, <1>7, <1>8, RequestStepCases

\* The type invariant, action by action.
LEMMA RequestStepType ==
  ASSUME Inv, NEW r \in Requests, RequestStep(r)
  PROVE  TypeOK'
<1> USE DEF Inv, TypeOK, outcome, Unfinished
<1>1. CASE GraphProgress(r)
  <2>1. Append(queue[r], "progress") \in Seq(Terminals \cup {"progress"})
    OBVIOUS
  <2> QED BY <1>1, <2>1 DEF GraphProgress
<1>2. CASE GraphReturns(r) \/ GraphGivenUp(r)
  <2>1. PICK f \in Outcomes, row \in BOOLEAN, t \in Terminals : GraphEnds(r, f, row, <<t>>)
    BY <1>2, GraphEndsCases
  <2>2. queue[r] \o <<t>> \in Seq(Terminals \cup {"progress"})
    OBVIOUS
  <2> QED BY <2>1, <2>2 DEF GraphEnds
<1>3. CASE GraphRaises(r) \/ RecordEvaluation(r)
  BY <1>3 DEF GraphRaises, RecordEvaluation
<1>4. CASE Replay(r)
  <2>1. <<"progress", "progress", "itinerary_done">> \in Seq(Terminals \cup {"progress"})
    BY ReplayedEvents DEF Events
  <2>2. [final[r] EXCEPT !.complete = TRUE, !.abort = FALSE] \in Outcomes
    <3>1. final[r] \in Outcomes
      OBVIOUS
    <3> QED BY <3>1, ReplayedOutcome
  <2> QED BY <1>4, <2>1, <2>2 DEF Replay
<1>5. CASE CacheHit(r) \/ CacheMiss(r)
  <2>1. Fresh \in Outcomes
    BY DEF Fresh, Outcomes
  <2>2. PICK f \in Outcomes, from \in {"graph", "cache"}, t \in {"running", "replaying"} :
          Start(r, from, t, f)
    BY <1>5, <2>1 DEF CacheHit, CacheMiss
  <2> QED BY <2>2 DEF Start
<1>6. CASE CheckConnection(r) \/ PollTimeout(r)
  <2>1. NoFrame \in Frames /\ [event |-> "error", trip |-> FALSE] \in Frames
          /\ [event |-> buffered[r], trip |-> FALSE] \in Frames
    <3>1. buffered[r] \in Terminals \cup {"none"}
      OBVIOUS
    <3> QED BY <3>1 DEF NoFrame, Frames, Terminals
  <2>2. PICK g \in {"checking", "getting", "saving", "ended"},
             t \in Unfinished \cup {"none", "done", "failed", "cancelled"}, a \in Frames :
          /\ gen' = [gen EXCEPT ![r] = g]
          /\ task' = [task EXCEPT ![r] = t]
          /\ answer' = [answer EXCEPT ![r] = a]
          /\ UNCHANGED <<connected, queue, buffered, trip, cache, source, final, evaluation>>
    <3>1. task[r] \in Unfinished \cup {"none", "done", "failed", "cancelled"}
            /\ Cancelled(task[r]) \in Unfinished \cup {"none", "done", "failed", "cancelled"}
      BY DEF Cancelled
    <3>2. task = [task EXCEPT ![r] = task[r]] /\ answer = [answer EXCEPT ![r] = answer[r]]
            /\ answer[r] \in Frames
      OBVIOUS
    <3>3. ASSUME NEW t \in {task[r], Cancelled(task[r])}, LeaveLoop(r, t)
          PROVE  \E g \in {"saving", "ended"}, a \in Frames :
                   /\ gen' = [gen EXCEPT ![r] = g]
                   /\ task' = [task EXCEPT ![r] = t]
                   /\ answer' = [answer EXCEPT ![r] = a]
                   /\ UNCHANGED <<connected, queue, buffered, trip, cache, source, final, evaluation>>
      BY <2>1, <3>2, <3>3 DEF LeaveLoop, End
    <3>4. CASE \E t \in {task[r], Cancelled(task[r])} : LeaveLoop(r, t)
      BY <3>1, <3>3, <3>4
    <3>5. CASE ~\E t \in {task[r], Cancelled(task[r])} : LeaveLoop(r, t)
      <4>1. /\ gen' = [gen EXCEPT ![r] = "getting"] \/ gen' = [gen EXCEPT ![r] = "checking"]
            /\ UNCHANGED <<connected, task, queue, buffered, trip, answer, cache, source, final,
                           evaluation>>
        BY <1>6, <3>5 DEF CheckConnection, PollTimeout
      <4> QED BY <3>1, <3>2, <4>1
    <3> QED BY <3>4, <3>5
  <2> QED BY <2>2
<1>7. CASE ReadEvent(r)
  <2>1. Tail(queue[r]) \in Seq(Terminals \cup {"progress"}) /\ PendingTerminal(r) \in Terminals \cup {"none"}
    BY <1>7 DEF ReadEvent, PendingTerminal
  <2> QED BY <1>7, <2>1 DEF ReadEvent
<1>8. CASE SaveTrip(r)
  BY <1>8 DEF SaveTrip, TripStatus
<1>9. CASE SaveFails(r) \/ CacheAndAnswer(r)
  <2>1. NoFrame \in Frames /\ [event |-> "itinerary_done", trip |-> trip[r] # "none"] \in Frames
    BY DEF NoFrame, Frames, Terminals
  <2>2. final[r] \in Outcomes
    OBVIOUS
  <2>3. cache' \in SUBSET Outcomes
    BY <1>9, <2>2 DEF SaveFails, CacheAndAnswer
  <2>4. PICK a \in Frames :
          /\ gen' = [gen EXCEPT ![r] = "ended"]
          /\ answer' = [answer EXCEPT ![r] = a]
          /\ UNCHANGED <<connected, task, queue, buffered, trip, source, final, evaluation>>
    BY <1>9, <2>1 DEF SaveFails, CacheAndAnswer, End
  <2> QED BY <2>3, <2>4
<1>10. CASE Disconnect(r)
  BY <1>10 DEF Disconnect
<1>11. CASE Interrupt(r)
  <2>1. NoFrame \in Frames
    BY DEF NoFrame, Frames, Terminals
  <2>2. Cancelled(task[r]) \in Unfinished \cup {"none", "done", "failed", "cancelled"}
    BY DEF Cancelled
  <2> QED BY <1>11, <2>1, <2>2 DEF Interrupt, End
<1> QED BY <1>1, <1>2, <1>3, <1>4, <1>5, <1>6, <1>7, <1>8, <1>9, <1>10, <1>11, RequestStepCases

(***************************************************************************)
(* Each step of a request keeps what its stages know of each other         *)
(***************************************************************************)
LEMMA TaskStepCoheres ==
  ASSUME Inv, NEW r \in Requests, TaskStep(r) \/ GraphProgress(r)
  PROVE  Coheres(r)'
<1> USE DEF outcome, Unfinished
<1>1. TypeOK /\ Coheres(r)
  BY DEF Inv
<1>2. queue[r] \in Seq(Events)
  BY <1>1 DEF TypeOK, Events
<1>3. CASE task[r] = "running" /\ task' = task /\ GraphProgress(r)
  <2>1. /\ queue'[r] = Append(queue[r], "progress")
        /\ UNCHANGED <<connected, gen, task, buffered, final, trip, answer>>
    BY <1>1, <1>3 DEF GraphProgress, TypeOK
  <2>2. ~Carries(queue[r], Terminals) /\ buffered[r] = "none"
    BY <1>1, <1>3 DEF Coheres, EventsCohere, Emitted
  <2>3. ~Carries(queue'[r], Terminals)
    BY <1>2, <2>1, <2>2, AppendProgress
  <2>4. TerminalIsLast(queue'[r]) /\ ~Emitted(r)' /\ ~Announced(r)'
    BY <2>1, <2>2, <2>3 DEF TerminalIsLast, Carries, Emitted, Announced, Terminals
  <2> QED BY <1>1, <1>3, <2>1, <2>2, <2>4
          DEF Coheres, TaskCoheres, EventsCohere, AnswerCoheres, FullAnswer
<1>4. CASE GraphReturns(r) \/ GraphGivenUp(r)
  <2>1. PICK f \in Outcomes, row \in BOOLEAN, t \in Terminals :
          GraphEnds(r, f, row, <<t>>) /\ (t = "itinerary_done" => Terminal(f) = "itinerary_done")
    BY <1>4, GraphEndsCases
  <2>2. /\ task[r] = "running" /\ task'[r] = "recording" /\ final'[r] = f
        /\ queue'[r] = queue[r] \o <<t>>
        /\ UNCHANGED <<connected, gen, buffered, trip, answer>>
    BY <1>1, <2>1 DEF GraphEnds, TypeOK
  <2>3. ~Carries(queue[r], Terminals) /\ buffered[r] = "none"
    BY <1>1, <2>2 DEF Coheres, EventsCohere, Emitted
  <2>4. /\ TerminalIsLast(queue'[r]) /\ Carries(queue'[r], Terminals)
        /\ Carries(queue'[r], {"itinerary_done"}) => t = "itinerary_done"
    BY <1>2, <2>2, <2>3, AppendTerminal
  <2>5. Emitted(r)' /\ (Announced(r)' => Terminal(final'[r]) = "itinerary_done")
    BY <2>1, <2>2, <2>3, <2>4 DEF Emitted, Announced
  <2> QED BY <1>1, <2>2, <2>3, <2>4, <2>5
          DEF Coheres, TaskCoheres, EventsCohere, AnswerCoheres, FullAnswer
<1>5. CASE GraphRaises(r)
  <2>1. /\ task[r] = "running" /\ task'[r] = "failed"
        /\ UNCHANGED <<connected, gen, queue, buffered, final, trip, answer>>
    BY <1>1, <1>5 DEF GraphRaises, TypeOK
  <2> QED BY <1>1, <2>1 DEF Coheres, TaskCoheres, EventsCohere, AnswerCoheres, FullAnswer,
                            Emitted, Announced
<1>6. CASE RecordEvaluation(r)
  <2>1. /\ task[r] = "recording" /\ task'[r] = "done"
        /\ UNCHANGED <<connected, gen, queue, buffered, final, trip, answer>>
    BY <1>1, <1>6 DEF RecordEvaluation, TypeOK
  <2> QED BY <1>1, <2>1 DEF Coheres, TaskCoheres, EventsCohere, AnswerCoheres, FullAnswer,
                            Emitted, Announced
<1>7. CASE Replay(r)
  <2>1. /\ task[r] = "replaying" /\ task'[r] = "done"
        /\ queue'[r] = <<"progress", "progress", "itinerary_done">>
        /\ final'[r] = [final[r] EXCEPT !.complete = TRUE, !.abort = FALSE]
        /\ UNCHANGED <<connected, gen, buffered, trip, answer>>
    BY <1>1, <1>7 DEF Replay, TypeOK
  <2>2. Terminal(final'[r]) = "itinerary_done"
    <3>1. final[r] \in Outcomes /\ Terminal(final[r]) = "itinerary_done"
      BY <1>1, <2>1 DEF TypeOK, Coheres, TaskCoheres
    <3> QED BY <2>1, <3>1, ReplayedOutcome
  <2>3. buffered[r] = "none"
    BY <1>1, <2>1 DEF Coheres, EventsCohere, Emitted
  <2>4. TerminalIsLast(queue'[r]) /\ Emitted(r)'
    BY <2>1, ReplayedEvents DEF Emitted
  <2> QED BY <1>1, <2>1, <2>2, <2>3, <2>4
          DEF Coheres, TaskCoheres, EventsCohere, AnswerCoheres, FullAnswer
<1> QED BY <1>3, <1>4, <1>5, <1>6, <1>7 DEF TaskStep, GraphStops, GraphProgress

\* The poll loop is left by a client that is gone, or with the queue read to its
\* end and the task finished.
LEMMA LeaveLoopCoheres ==
  ASSUME Inv, NEW r \in Requests, NEW t, LeaveLoop(r, t),
         gen[r] \in {"checking", "getting"},
         \/ ~connected[r] /\ t = Cancelled(task[r])
         \/ queue[r] = <<>> /\ t = task[r] /\ t \notin Unfinished
  PROVE  Coheres(r)'
<1> USE DEF outcome, Unfinished
<1>1. TypeOK /\ Coheres(r)
  BY DEF Inv
<1>2. /\ task'[r] = t
      /\ UNCHANGED <<connected, queue, buffered, final, trip>>
      /\ \/ buffered[r] = "itinerary_done" /\ t = "done" /\ gen'[r] = "saving"
            /\ answer' = answer
         \/ buffered[r] # "none" /\ ~(buffered[r] = "itinerary_done" /\ t = "done")
            /\ gen'[r] = "ended" /\ answer'[r].event = buffered[r]
         \/ buffered[r] = "none" /\ t \in {"done", "failed"}
            /\ gen'[r] = "ended" /\ answer'[r].event = "error"
         \/ buffered[r] = "none" /\ t = "cancelled"
            /\ gen'[r] = "ended" /\ answer'[r].event = "none"
  BY <1>1 DEF LeaveLoop, TypeOK, ToSave, End, NoFrame
<1>3. task[r] # "none" /\ trip[r] = "none" /\ answer[r].event = "none"
  BY <1>1 DEF Coheres, TaskCoheres, AnswerCoheres
<1>4. t = task[r] \/ (t = "cancelled" /\ ~connected[r])
  BY DEF Cancelled
<1>5. t \notin Unfinished
  BY DEF Cancelled
<1>6. TaskCoheres(r)'
  BY <1>1, <1>2, <1>3, <1>4, <1>5 DEF Coheres, TaskCoheres, Emitted
<1>7. EventsCohere(r)'
  BY <1>1, <1>2, <1>4, <1>5 DEF Coheres, TaskCoheres, EventsCohere, Emitted, Announced
<1>8. AnswerCoheres(r)'
  BY <1>1, <1>2, <1>3 DEF Coheres, AnswerCoheres
<1>9. FullAnswer(r)'
  <2>1. CASE ~connected[r]
    BY <1>2, <2>1 DEF FullAnswer
  <2>2. CASE connected[r]
    <3>1. queue[r] = <<>> /\ t = task[r]
      BY <2>2
    <3>2. ~Carries(queue[r], Terminals)
      BY <3>1 DEF Carries
    <3>3. task[r] = "done" => buffered[r] # "none"
      BY <1>1, <3>2 DEF Coheres, TaskCoheres, Emitted
    <3>4. buffered[r] # "none" => task[r] \in {"recording", "done", "cancelled"}
      BY <1>1 DEF Coheres, EventsCohere, Emitted
    <3>5. task[r] # "cancelled"
      BY <1>1, <2>2 DEF Coheres, TaskCoheres
    <3>6. buffered[r] # "none" => t = "done"
      BY <1>5, <3>1, <3>4, <3>5
    <3> QED BY <1>2, <1>3, <3>1, <3>3, <3>6 DEF FullAnswer
  <2> QED BY <2>1, <2>2
<1> QED BY <1>6, <1>7, <1>8, <1>9 DEF Coheres

LEMMA GeneratorStepCoheres ==
  ASSUME Inv, NEW r \in Requests, GeneratorStep(r)
  PROVE  Coheres(r)'
<1> USE DEF outcome, Unfinished
<1>1. TypeOK /\ Coheres(r)
  BY DEF Inv
<1>2. queue[r] \in Seq(Events)
  BY <1>1 DEF TypeOK, Events
<1>3. CASE CacheHit(r) \/ CacheMiss(r)
  <2>1. PICK f \in Outcomes, from \in {"graph", "cache"}, t \in {"running", "replaying"} :
          Start(r, from, t, f) /\ (t = "replaying" => Terminal(f) = "itinerary_done")
    <3>1. CASE CacheHit(r)
      <4>1. PICK f \in cache : Start(r, "cache", "replaying", f)
        BY <3>1 DEF CacheHit
      <4>2. f \in Outcomes /\ Terminal(f) = "itinerary_done"
        BY <1>1, <4>1 DEF Inv, TypeOK, CacheIsServable
      <4> QED BY <4>1, <4>2
    <3>2. CASE CacheMiss(r)
      BY <3>2 DEF CacheMiss, Fresh, Outcomes
    <3> QED BY <1>3, <3>1, <3>2
  <2>2. /\ gen[r] = "lookup" /\ gen'[r] = "checking" /\ task'[r] = t /\ final'[r] = f
        /\ UNCHANGED <<connected, queue, buffered, trip, answer>>
    BY <1>1, <2>1 DEF Start, TypeOK
  <2>3. task[r] = "none" /\ ~Emitted(r) /\ trip[r] = "none" /\ answer[r].event = "none"
    BY <1>1, <2>2 DEF Coheres, TaskCoheres, EventsCohere, AnswerCoheres
  <2>4. ~Emitted(r)' /\ ~Announced(r)'
    BY <2>2, <2>3 DEF Emitted, Announced, Carries, Terminals
  <2> QED BY <1>1, <2>1, <2>2, <2>3, <2>4
          DEF Coheres, TaskCoheres, EventsCohere, AnswerCoheres, FullAnswer
<1>4. CASE CheckConnection(r) \/ PollTimeout(r)
  <2>1. CASE \E t : LeaveLoop(r, t)
    <3>1. PICK t : /\ LeaveLoop(r, t)
                   /\ gen[r] \in {"checking", "getting"}
                   /\ \/ ~connected[r] /\ t = Cancelled(task[r])
                      \/ queue[r] = <<>> /\ t = task[r] /\ t \notin Unfinished
      <4>1. CASE CheckConnection(r) /\ LeaveLoop(r, Cancelled(task[r])) /\ ~connected[r]
        BY <4>1 DEF CheckConnection
      <4>2. CASE PollTimeout(r) /\ LeaveLoop(r, task[r]) /\ TaskDone(r)
        BY <4>2 DEF PollTimeout, TaskDone
      <4>3. CASE /\ gen' = [gen EXCEPT ![r] = "getting"] \/ gen' = [gen EXCEPT ![r] = "checking"]
        BY <1>1, <2>1, <4>3 DEF LeaveLoop, End, TypeOK
      <4> QED BY <1>4, <4>1, <4>2, <4>3 DEF CheckConnection, PollTimeout
    <3> QED BY <3>1, LeaveLoopCoheres
  <2>2. CASE /\ gen[r] \in {"checking", "getting"} /\ gen'[r] \in {"checking", "getting"}
             /\ UNCHANGED <<connected, task, queue, buffered, final, trip, answer>>
    BY <1>1, <2>2 DEF Coheres, TaskCoheres, EventsCohere, AnswerCoheres, FullAnswer, Emitted, Announced
  <2> QED BY <1>1, <1>4, <2>1, <2>2 DEF CheckConnection, PollTimeout, TypeOK
<1>5. CASE ReadEvent(r)
  <2>1. /\ gen[r] = "getting" /\ gen'[r] = "checking" /\ queue[r] # <<>>
        /\ queue'[r] = Tail(queue[r])
        /\ buffered'[r] = IF Head(queue[r]) \in Terminals THEN Head(queue[r]) ELSE buffered[r]
        /\ UNCHANGED <<connected, task, final, trip, answer>>
    BY <1>1, <1>5 DEF ReadEvent, PendingTerminal, TypeOK
  <2>2. TerminalIsLast(queue[r]) /\ buffered[r] = "none" /\ trip[r] = "none"
          /\ answer[r].event = "none" /\ task[r] # "none"
    BY <1>1, <2>1 DEF Coheres, TaskCoheres, EventsCohere, AnswerCoheres
  <2>3. CASE Head(queue[r]) \in Terminals
    <3>1. queue'[r] = <<>> /\ buffered'[r] = Head(queue[r]) /\ Carries(queue[r], {buffered'[r]})
      BY <1>2, <2>1, <2>2, <2>3, ReadHead
    <3>2. Emitted(r)
      BY <2>3, <3>1 DEF Emitted, Carries
    <3>3. buffered'[r] = "itinerary_done" => Announced(r)
      BY <3>1 DEF Announced
    <3>4. /\ Emitted(r)' /\ TerminalIsLast(queue'[r])
          /\ Announced(r)' => buffered'[r] = "itinerary_done"
      BY <2>3, <3>1 DEF Emitted, Announced, Carries, TerminalIsLast, Terminals
    <3> QED BY <1>1, <2>1, <2>2, <3>1, <3>2, <3>3, <3>4
            DEF Coheres, TaskCoheres, EventsCohere, AnswerCoheres, FullAnswer
  <2>4. CASE Head(queue[r]) \notin Terminals
    <3>1. /\ TerminalIsLast(queue'[r]) /\ buffered'[r] = "none"
          /\ Carries(queue[r], Terminals) <=> Carries(queue'[r], Terminals)
          /\ Carries(queue'[r], {"itinerary_done"}) => Carries(queue[r], {"itinerary_done"})
      BY <1>2, <2>1, <2>2, <2>4, ReadHead
    <3>2. (Emitted(r)' <=> Emitted(r)) /\ (Announced(r)' => Announced(r))
      BY <2>2, <3>1 DEF Emitted, Announced
    <3> QED BY <1>1, <2>1, <2>2, <3>1, <3>2
            DEF Coheres, TaskCoheres, EventsCohere, AnswerCoheres, FullAnswer
  <2> QED BY <2>3, <2>4
<1>6. CASE SaveTrip(r)
  <2>1. buffered[r] = "itinerary_done" /\ task[r] = "done" /\ trip[r] = "none"
          /\ answer[r].event = "none"
    BY <1>1, <1>6 DEF SaveTrip, Coheres, AnswerCoheres
  <2>2. final[r].usable
    BY <1>1, <2>1 DEF Coheres, EventsCohere, Announced, Terminal
  <2>3. /\ gen[r] = "saving" /\ gen'[r] = "caching" /\ trip'[r] = TripStatus(final[r])
        /\ UNCHANGED <<connected, task, queue, buffered, final, answer>>
    BY <1>1, <1>6, <2>2 DEF SaveTrip, TypeOK
  <2>4. trip'[r] # "none"
    BY <2>3 DEF TripStatus
  <2> QED BY <1>1, <2>1, <2>3, <2>4
          DEF Coheres, TaskCoheres, EventsCohere, AnswerCoheres, FullAnswer, Emitted, Announced
<1>7. CASE SaveFails(r) \/ CacheAndAnswer(r)
  <2>1. buffered[r] = "itinerary_done" /\ task[r] = "done" /\ gen[r] \in {"saving", "caching"}
    BY <1>1, <1>7 DEF SaveFails, CacheAndAnswer, Coheres, AnswerCoheres
  <2>2. /\ gen'[r] = "ended"
        /\ UNCHANGED <<connected, task, queue, buffered, final, trip>>
        /\ \/ answer'[r].event = "none"
           \/ /\ gen[r] = "caching"
              /\ answer'[r] = [event |-> "itinerary_done", trip |-> trip[r] # "none"]
    BY <1>1, <1>7 DEF SaveFails, CacheAndAnswer, End, NoFrame, TypeOK
  <2>3. gen[r] = "caching" => trip[r] # "none"
    BY <1>1 DEF Coheres, AnswerCoheres
  <2>4. \/ answer'[r].event = "none"
        \/ answer'[r].event = "itinerary_done" /\ trip[r] # "none" /\ answer'[r].trip
    <3>1. CASE answer'[r] = [event |-> "itinerary_done", trip |-> trip[r] # "none"] /\ trip[r] # "none"
      <4>1. (trip[r] # "none") = TRUE
        BY <3>1
      <4>2. answer'[r] = [event |-> "itinerary_done", trip |-> TRUE]
        BY <3>1, <4>1, Zenon
      <4> QED BY <3>1, <4>2
    <3> QED BY <2>2, <2>3, <3>1
  <2>5. FullAnswer(r)'
    BY <2>1, <2>2, <2>4 DEF FullAnswer
  <2>6. AnswerCoheres(r)'
    BY <1>1, <2>1, <2>2, <2>4 DEF Coheres, AnswerCoheres
  <2> QED BY <1>1, <2>1, <2>2, <2>5, <2>6
          DEF Coheres, TaskCoheres, EventsCohere, AnswerCoheres, FullAnswer, Emitted, Announced
<1> QED BY <1>3, <1>4, <1>5, <1>6, <1>7 DEF GeneratorStep

LEMMA EnvironmentStepCoheres ==
  ASSUME Inv, NEW r \in Requests, Disconnect(r) \/ Interrupt(r)
  PROVE  Coheres(r)'
<1> USE DEF outcome, Unfinished
<1>1. TypeOK /\ Coheres(r)
  BY DEF Inv
<1>2. CASE Disconnect(r)
  <2>1. /\ connected'[r] = FALSE /\ gen[r] # "ended"
        /\ UNCHANGED <<gen, task, queue, buffered, final, trip, answer>>
    BY <1>1, <1>2 DEF Disconnect, TypeOK
  <2> QED BY <1>1, <2>1
          DEF Coheres, TaskCoheres, EventsCohere, AnswerCoheres, FullAnswer, Emitted, Announced
<1>3. CASE Interrupt(r)
  <2>1. /\ ~connected[r] /\ gen[r] # "ended" /\ gen'[r] = "ended"
        /\ answer'[r].event = "none" /\ task'[r] = Cancelled(task[r])
        /\ UNCHANGED <<connected, queue, buffered, final, trip>>
    BY <1>1, <1>3 DEF Interrupt, End, NoFrame, TypeOK
  <2>2. \/ task'[r] = task[r] /\ task[r] \notin Unfinished
        \/ task'[r] = "cancelled"
    BY <2>1 DEF Cancelled
  <2> QED BY <1>1, <2>1, <2>2
          DEF Coheres, TaskCoheres, EventsCohere, AnswerCoheres, FullAnswer, Emitted, Announced
<1> QED BY <1>2, <1>3

LEMMA RequestStepCoheres ==
  ASSUME Inv, NEW r \in Requests, RequestStep(r)
  PROVE  \A q \in Requests : Coheres(q)'
<1>1. Coheres(r)'
  BY TaskStepCoheres, GeneratorStepCoheres, EnvironmentStepCoheres DEF RequestStep
<1>2. ASSUME NEW q \in Requests, q # r PROVE Coheres(q)'
  <2>1. TypeOK /\ Coheres(q)
    BY DEF Inv
  <2> QED BY <1>2, <2>1, StepsAreLocal, SameKeepsCoherence
<1> QED BY <1>1, <1>2

\* The request whose saved plan is in the cache keeps its trip; a plan enters the
\* cache after its trip was saved as complete.
LEMMA RequestStepKeepsCache ==
  ASSUME Inv, NEW r \in Requests, RequestStep(r)
  PROVE  CacheIsServable'
<1> USE DEF outcome
<1>1. TypeOK /\ Coheres(r) /\ CacheIsServable
  BY DEF Inv
<1>2. ASSUME NEW q \in Requests, trip[q] = "COMPLETE", source[q] = "graph"
      PROVE  trip'[q] = "COMPLETE" /\ source'[q] = "graph"
  <2>1. CASE q # r
    BY <1>1, <1>2, <2>1, StepsAreLocal DEF Same
  <2>2. CASE q = r
    <3>1. gen[r] \in {"caching", "ended"}
      BY <1>1, <1>2, <2>2 DEF Coheres, AnswerCoheres
    <3>2. trip' = trip /\ source' = source
      BY <3>1, RequestStepCases
         DEF GraphProgress, GraphRaises, RecordEvaluation, GraphReturns, GraphGivenUp, GraphEnds,
             Replay, CacheHit, CacheMiss, Start, CheckConnection, PollTimeout, LeaveLoop, ReadEvent,
             SaveTrip, SaveFails, CacheAndAnswer, Disconnect, Interrupt
    <3> QED BY <1>2, <2>2, <3>2
  <2> QED BY <2>1, <2>2
<1>3. CASE cache' = cache
  BY <1>1, <1>2, <1>3 DEF CacheIsServable
<1>4. CASE cache' = {final[r]} /\ CacheAndAnswer(r) /\ source[r] = "graph" /\ Cacheable(final[r])
  <2>1. buffered[r] = "itinerary_done" /\ trip[r] = TripStatus(final[r])
    BY <1>1, <1>4 DEF CacheAndAnswer, Coheres, AnswerCoheres
  <2>2. Terminal(final[r]) = "itinerary_done" /\ ~final[r].abort
    BY <1>1, <1>4, <2>1 DEF Coheres, EventsCohere, Announced, Cacheable
  <2>3. trip[r] = "COMPLETE"
    BY <1>4, <2>1 DEF TripStatus, Cacheable
  <2> QED BY <1>2, <1>4, <2>2, <2>3 DEF CacheIsServable
<1>5. cache' = cache \/ CacheAndAnswer(r)
  BY RequestStepCases
     DEF GraphProgress, GraphRaises, RecordEvaluation, GraphReturns, GraphGivenUp, GraphEnds,
         Replay, CacheHit, CacheMiss, Start, CheckConnection, PollTimeout, LeaveLoop, ReadEvent,
         SaveTrip, SaveFails, Disconnect, Interrupt
<1> QED BY <1>3, <1>4, <1>5 DEF CacheAndAnswer

(***************************************************************************)
(* Safety of a generation                                                  *)
(***************************************************************************)
LEMMA InitEstablishes == Init => Inv
<1> SUFFICES ASSUME Init PROVE Inv
  OBVIOUS
<1>1. TypeOK
  <2>1. Fresh \in Outcomes /\ NoFrame \in Frames /\ <<>> \in Seq(Terminals \cup {"progress"})
    BY DEF Fresh, Outcomes, NoFrame, Frames
  <2> QED BY <2>1 DEF Init, TypeOK
<1>2. ASSUME NEW r \in Requests PROVE Coheres(r)
  <2>1. ~Emitted(r) /\ ~Announced(r) /\ TerminalIsLast(queue[r])
    BY DEF Init, Emitted, Announced, Carries, TerminalIsLast
  <2> QED BY <2>1 DEF Init, Coheres, TaskCoheres, EventsCohere, AnswerCoheres, FullAnswer,
                      NoFrame, Unfinished
<1> QED BY <1>1, <1>2 DEF Init, Inv, CacheIsServable

LEMMA NextPreserves == Inv /\ [Next]_vars => Inv'
<1> SUFFICES ASSUME Inv, [Next]_vars PROVE Inv'
  OBVIOUS
<1>1. CASE \E r \in Requests : RequestStep(r)
  BY <1>1, RequestStepType, RequestStepCoheres, RequestStepKeepsCache DEF Inv
<1>2. CASE CacheExpires \/ UNCHANGED vars
  <2>1. UNCHANGED <<connected, gen, task, source, queue, buffered, final, evaluation, trip, answer>>
          /\ cache' \subseteq cache
    BY <1>2 DEF CacheExpires, vars, outcome
  <2>2. \A r \in Requests : Coheres(r) /\ Same(r)
    BY <2>1 DEF Inv, Same
  <2>3. \A r \in Requests : Coheres(r)'
    BY <2>2, SameKeepsCoherence
  <2>4. TypeOK'
    BY <2>1 DEF Inv, TypeOK
  <2>5. CacheIsServable'
    BY <2>1 DEF Inv, CacheIsServable
  <2> QED BY <2>3, <2>4, <2>5 DEF Inv
<1> QED BY <1>1, <1>2 DEF Next

\* The invariant holds in every reachable state, for any number of requests.
THEOREM Invariance == Spec => []Inv
<1>1. Init => Inv
  BY InitEstablishes
<1>2. Inv /\ [Next]_vars => Inv'
  BY NextPreserves
<1> QED BY <1>1, <1>2, PTL DEF Spec

\* Type correctness of requests, queues and cache.
THEOREM TypeCorrect == Spec => []TypeOK
<1>1. Inv => TypeOK
  BY DEF Inv
<1> QED BY <1>1, Invariance, PTL

\* One terminal event per request, the last of its events.
THEOREM TerminalsAreUnique == Spec => []OneTerminal
<1>1. Inv => OneTerminal
  BY DEF Inv, Coheres, EventsCohere, OneTerminal
<1> QED BY <1>1, Invariance, PTL

\* A client that is there is answered with what its task emitted, and with its trip.
THEOREM AnswersAreFull == Spec => []AnsweredInFull
<1>1. Inv => AnsweredInFull
  BY DEF Inv, Coheres, AnsweredInFull
<1> QED BY <1>1, Invariance, PTL

\* Only usable itineraries that were announced are saved, never as drafts.
THEOREM OnlyItinerariesAreSaved == Spec => []TripsAreItineraries
<1>1. Inv => TripsAreItineraries
  <2> SUFFICES ASSUME Inv, NEW r \in Requests, trip[r] # "none"
               PROVE  /\ buffered[r] = "itinerary_done"
                      /\ Terminal(final[r]) = "itinerary_done"
                      /\ trip[r] # "DRAFT"
    BY DEF TripsAreItineraries
  <2>1. buffered[r] = "itinerary_done" /\ trip[r] = TripStatus(final[r])
    BY DEF Inv, Coheres, AnswerCoheres
  <2>2. Terminal(final[r]) = "itinerary_done"
    BY <2>1 DEF Inv, Coheres, EventsCohere, Announced
  <2> QED BY <2>1, <2>2 DEF Terminal, TripStatus
<1> QED BY <1>1, Invariance, PTL

\* A cached plan was never aborted and is saved as a complete trip.
THEOREM CacheIsSound == Spec => []CacheIsServable
<1>1. Inv => CacheIsServable
  BY DEF Inv
<1> QED BY <1>1, Invariance, PTL

\* No task outlives its stream.
THEOREM TasksEndWithStreams == Spec => []NoOrphanTask
<1>1. Inv => NoOrphanTask
  BY DEF Inv, Coheres, TaskCoheres, NoOrphanTask
<1> QED BY <1>1, Invariance, PTL

(***************************************************************************)
(* Evaluations                                                             *)
(***************************************************************************)
SameRecord(q) == source'[q] = source[q] /\ evaluation'[q] = evaluation[q]

\* A step of one request leaves the record of the others alone.
LEMMA RecordsAreLocal ==
  ASSUME TypeOK, NEW r \in Requests, NEW q \in Requests, q # r, RequestStep(r)
  PROVE  SameRecord(q)
<1> USE DEF SameRecord, TypeOK, outcome
<1>1. CASE GraphReturns(r) \/ GraphGivenUp(r)
  BY <1>1 DEF GraphReturns, GraphGivenUp, GraphEnds
<1>2. CASE CacheHit(r) \/ CacheMiss(r)
  BY <1>2 DEF CacheHit, CacheMiss, Start
<1>3. CASE RecordEvaluation(r)
  BY <1>3 DEF RecordEvaluation
<1>4. CASE Replay(r)
  BY <1>4 DEF Replay
<1>5. CASE UNCHANGED <<source, evaluation>>
  BY <1>5
<1>6. \/ GraphReturns(r) \/ GraphGivenUp(r) \/ CacheHit(r) \/ CacheMiss(r)
      \/ RecordEvaluation(r) \/ Replay(r) \/ UNCHANGED <<source, evaluation>>
  BY RequestStepCases
     DEF GraphProgress, GraphRaises, CheckConnection, PollTimeout, LeaveLoop, ReadEvent,
         SaveTrip, SaveFails, CacheAndAnswer, Disconnect, Interrupt
<1> QED BY <1>1, <1>2, <1>3, <1>4, <1>5, <1>6

\* The task that runs the graph is done once its evaluation was written or lost.
LEMMA RequestStepRecords ==
  ASSUME Inv, NEW r \in Requests, RecordCoheres(r), RequestStep(r)
  PROVE  RecordCoheres(r)'
<1> USE DEF outcome, Unfinished
<1>1. TypeOK /\ Coheres(r)
  BY DEF Inv
<1>2. trip[r] # "none" => gen[r] \in {"caching", "ended"}
  BY <1>1 DEF Coheres, AnswerCoheres
<1>3. CASE GraphReturns(r) \/ GraphGivenUp(r) \/ GraphRaises(r)
  <2>1. task[r] = "running" /\ task'[r] \in {"recording", "failed"} /\ trip' = trip
    BY <1>1, <1>3 DEF GraphReturns, GraphGivenUp, GraphEnds, GraphRaises, TypeOK
  <2> QED BY <2>1 DEF RecordCoheres
<1>4. CASE RecordEvaluation(r)
  <2>1. /\ task[r] = "recording" /\ task'[r] = "done" /\ trip' = trip
        /\ evaluation'[r] # "none"
    BY <1>1, <1>4 DEF RecordEvaluation, TypeOK
  <2> QED BY <2>1 DEF RecordCoheres
<1>5. CASE Replay(r)
  <2>1. task[r] = "replaying" /\ task'[r] = "done" /\ trip' = trip /\ source' = source
    BY <1>1, <1>5 DEF Replay, TypeOK
  <2> QED BY <2>1 DEF RecordCoheres
<1>6. CASE CacheHit(r) \/ CacheMiss(r)
  <2>1. /\ gen[r] = "lookup" /\ trip' = trip
        /\ \/ task'[r] = "replaying" /\ source'[r] = "cache"
           \/ task'[r] = "running"
    BY <1>1, <1>6 DEF CacheHit, CacheMiss, Start, TypeOK
  <2> QED BY <1>2, <2>1 DEF RecordCoheres
<1>7. CASE CheckConnection(r) \/ PollTimeout(r) \/ Interrupt(r)
  <2>1. UNCHANGED <<source, evaluation, trip>>
    BY <1>7 DEF CheckConnection, PollTimeout, LeaveLoop, Interrupt
  <2>2. task'[r] = task[r] \/ (task[r] \in Unfinished /\ task'[r] = "cancelled")
    BY <1>1, <1>7 DEF CheckConnection, PollTimeout, LeaveLoop, Interrupt, Cancelled, TypeOK
  <2> QED BY <2>1, <2>2 DEF RecordCoheres
<1>8. CASE SaveTrip(r)
  <2>1. gen[r] = "saving" /\ UNCHANGED <<task, source, evaluation>>
    BY <1>8 DEF SaveTrip
  <2>2. task[r] = "done"
    BY <1>1, <2>1 DEF Coheres, AnswerCoheres
  <2> QED BY <2>1, <2>2 DEF RecordCoheres
<1>9. CASE GraphProgress(r) \/ ReadEvent(r) \/ SaveFails(r) \/ CacheAndAnswer(r) \/ Disconnect(r)
  <2>1. UNCHANGED <<task, source, evaluation, trip>>
    BY <1>9 DEF GraphProgress, ReadEvent, SaveFails, CacheAndAnswer, Disconnect
  <2> QED BY <2>1 DEF RecordCoheres
<1> QED BY <1>3, <1>4, <1>5, <1>6, <1>7, <1>8, <1>9, RequestStepCases

LEMMA RecordInvPreserved == RecordInv /\ [Next]_vars => RecordInv'
<1> SUFFICES ASSUME RecordInv, [Next]_vars PROVE RecordInv'
  OBVIOUS
<1>1. Inv /\ Inv'
  BY NextPreserves DEF RecordInv
<1>2. ASSUME NEW q \in Requests PROVE RecordCoheres(q)'
  <2>1. RecordCoheres(q)
    BY DEF RecordInv
  <2>2. CASE RequestStep(q)
    BY <1>1, <2>1, <2>2, RequestStepRecords
  <2>3. CASE \E r \in Requests : r # q /\ RequestStep(r)
    <3>1. Same(q) /\ SameRecord(q)
      BY <1>1, <2>3, StepsAreLocal, RecordsAreLocal DEF Inv
    <3> QED BY <2>1, <3>1 DEF Same, SameRecord, RecordCoheres
  <2>4. CASE CacheExpires \/ UNCHANGED vars
    BY <2>1, <2>4 DEF CacheExpires, vars, outcome, RecordCoheres
  <2> QED BY <2>2, <2>3, <2>4 DEF Next
<1> QED BY <1>1, <1>2 DEF RecordInv

\* A generation is on record before its trip is saved and its client answered.
THEOREM GenerationsAreRecorded == Spec => []AnswersAreRecorded
<1>1. Init => RecordInv
  <2> SUFFICES ASSUME Init, NEW r \in Requests PROVE RecordCoheres(r)
    BY InitEstablishes DEF RecordInv
  <2> QED BY DEF Init, RecordCoheres
<1>2. RecordInv => AnswersAreRecorded
  <2> SUFFICES ASSUME RecordInv, NEW r \in Requests, source[r] = "graph"
               PROVE  /\ trip[r] # "none" => evaluation[r] # "none"
                      /\ connected[r] /\ answer[r].event # "none" =>
                           evaluation[r] # "none" \/ task[r] = "failed"
    BY DEF AnswersAreRecorded
  <2>1. RecordCoheres(r) /\ Coheres(r)
    BY DEF RecordInv, Inv
  <2>2. ASSUME connected[r], answer[r].event # "none" PROVE task[r] \in {"done", "failed"}
    <3>1. gen[r] = "ended" /\ task[r] \notin Unfinished /\ task[r] # "cancelled"
      BY <2>1, <2>2 DEF Coheres, TaskCoheres, AnswerCoheres
    <3>2. CASE buffered[r] = "none"
      BY <2>1, <2>2, <3>2 DEF Coheres, FullAnswer
    <3>3. CASE buffered[r] # "none"
      BY <2>1, <3>1, <3>3 DEF Coheres, EventsCohere, Emitted, Unfinished
    <3> QED BY <3>2, <3>3
  <2> QED BY <2>1, <2>2 DEF RecordCoheres
<1> QED BY <1>1, <1>2, RecordInvPreserved, PTL DEF Spec

(***************************************************************************)
(* Generate implements the safety part of StreamContract                   *)
(***************************************************************************)
\* The contract's variables, request by request.
StreamOf(r) ==
  IF gen[r] # "ended" THEN "open"
  ELSE IF answer[r].event = "none" THEN "cut" ELSE answer[r].event

LEMMA Mapping ==
  /\ stream = [q \in Requests |-> StreamOf(q)]
  /\ saved = [q \in Requests |-> trip[q] # "none"]
  /\ gone = [q \in Requests |-> ~connected[q]]
BY DEF stream, saved, gone, StreamOf

\* What a step of request r may do to its own stream, trip and client.
StreamStep(r) ==
  \/ /\ StreamOf(r)' = StreamOf(r)
     /\ trip'[r] = trip[r] /\ connected'[r] = connected[r]
  \/ /\ StreamOf(r)' = StreamOf(r)
     /\ trip'[r] = trip[r] /\ ~connected'[r]
  \/ /\ StreamOf(r) = "open" /\ StreamOf(r)' = "open"
     /\ trip[r] = "none" /\ trip'[r] # "none" /\ connected'[r] = connected[r]
  \/ /\ StreamOf(r) = "open"
     /\ \/ StreamOf(r)' = "cut"
        \/ /\ StreamOf(r)' \in Terminals
           /\ trip[r] # "none" => StreamOf(r)' = "itinerary_done"
           /\ StreamOf(r)' = "itinerary_done" => trip[r] # "none" \/ ~connected[r]
     /\ trip'[r] = trip[r] /\ connected'[r] = connected[r]

LEMMA RequestStepsTheStream ==
  ASSUME Inv, Inv', NEW r \in Requests, RequestStep(r)
  PROVE  StreamStep(r)
<1> USE DEF outcome, StreamStep
<1>1. TypeOK /\ TypeOK' /\ Coheres(r) /\ Coheres(r)'
  BY DEF Inv
<1>2. CASE gen'[r] # "ended" /\ gen[r] # "ended" /\ connected' = connected
  <2>1. trip'[r] = trip[r] \/ (trip[r] = "none" /\ trip'[r] # "none")
    <3>1. trip' = trip \/ SaveTrip(r)
      BY RequestStepCases
         DEF GraphProgress, GraphRaises, RecordEvaluation, GraphReturns, GraphGivenUp, GraphEnds,
             Replay, CacheHit, CacheMiss, Start, CheckConnection, PollTimeout, LeaveLoop, ReadEvent,
             SaveFails, CacheAndAnswer, Disconnect, Interrupt
    <3>2. CASE SaveTrip(r)
      <4>1. gen[r] = "saving" /\ gen'[r] = "caching"
        BY <1>1, <3>2 DEF SaveTrip, TypeOK
      <4> QED BY <1>1, <4>1 DEF Coheres, AnswerCoheres
    <3> QED BY <3>1, <3>2
  <2> QED BY <1>2, <2>1 DEF StreamOf
<1>3. CASE gen'[r] = "ended" /\ gen[r] # "ended"
  <2>1. trip' = trip /\ connected' = connected
    <3>1. ~SaveTrip(r) /\ ~Disconnect(r)
      BY <1>1, <1>3 DEF SaveTrip, Disconnect, TypeOK
    <3> QED BY <3>1, RequestStepCases
         DEF GraphProgress, GraphRaises, RecordEvaluation, GraphReturns, GraphGivenUp, GraphEnds,
             Replay, CacheHit, CacheMiss, Start, CheckConnection, PollTimeout, LeaveLoop, ReadEvent,
             SaveFails, CacheAndAnswer, Interrupt
  <2>2. answer'[r].event \in Terminals \cup {"none"}
    BY <1>1 DEF TypeOK, Frames
  <2>3. answer'[r].event = "itinerary_done" => trip[r] # "none" \/ ~connected[r]
    BY <1>1, <2>1 DEF Coheres, FullAnswer
  <2>4. trip[r] # "none" /\ answer'[r].event # "none" => answer'[r].event = "itinerary_done"
    BY <1>1, <2>1 DEF Coheres, AnswerCoheres
  <2> QED BY <1>3, <2>1, <2>2, <2>3, <2>4 DEF StreamOf
<1>4. CASE Disconnect(r)
  <2>1. gen'[r] = gen[r] /\ answer'[r] = answer[r] /\ trip'[r] = trip[r] /\ ~connected'[r]
    BY <1>1, <1>4 DEF Disconnect, TypeOK
  <2> QED BY <2>1 DEF StreamOf
<1>5. CASE gen[r] = "ended"
  <2>1. task[r] \notin Unfinished
    BY <1>1, <1>5 DEF Coheres, TaskCoheres
  <2> QED BY <1>5, <2>1, RequestStepCases
       DEF Unfinished, GraphProgress, GraphRaises, RecordEvaluation, GraphReturns, GraphGivenUp,
           GraphEnds, Replay, CacheHit, CacheMiss, Start, CheckConnection, PollTimeout, ReadEvent,
           SaveTrip, SaveFails, CacheAndAnswer, Disconnect, Interrupt
<1>6. Disconnect(r) \/ connected' = connected
  BY RequestStepCases
     DEF GraphProgress, GraphRaises, RecordEvaluation, GraphReturns, GraphGivenUp, GraphEnds,
         Replay, CacheHit, CacheMiss, Start, CheckConnection, PollTimeout, LeaveLoop, ReadEvent,
         SaveTrip, SaveFails, CacheAndAnswer, Interrupt
<1> QED BY <1>2, <1>3, <1>4, <1>5, <1>6

\* A step of request r is a step of the contract for r, or stutters.
LEMMA RequestStepRefines ==
  ASSUME Inv, Inv', NEW r \in Requests, RequestStep(r)
  PROVE  [Contract!Next]_(Contract!vars)
<1>1. StreamStep(r)
  BY RequestStepsTheStream
<1>2. \A q \in Requests \ {r} :
        StreamOf(q)' = StreamOf(q) /\ trip'[q] = trip[q] /\ connected'[q] = connected[q]
  BY StepsAreLocal DEF Inv, Same, StreamOf
<1>3. /\ stream' = [q \in Requests |-> StreamOf(q)']
      /\ saved' = [q \in Requests |-> trip'[q] # "none"]
      /\ gone' = [q \in Requests |-> ~connected'[q]]
  BY DEF stream, saved, gone, StreamOf
<1>4. stream' = [stream EXCEPT ![r] = StreamOf(r)']
  BY <1>2, <1>3, Mapping
<1>5. StreamOf(r)' = StreamOf(r) => stream' = stream
  BY <1>2, <1>3, Mapping
<1>6. (trip'[r] = trip[r]) => saved' = saved
  BY <1>2, <1>3, Mapping
<1>7. trip'[r] # "none" => saved' = [saved EXCEPT ![r] = TRUE]
  BY <1>2, <1>3, Mapping
<1>8. connected'[r] = connected[r] => gone' = gone
  BY <1>2, <1>3, Mapping
<1>9. ~connected'[r] => gone' = [gone EXCEPT ![r] = TRUE]
  BY <1>2, <1>3, Mapping
<1>10. stream[r] = StreamOf(r) /\ (saved[r] <=> trip[r] # "none") /\ (gone[r] <=> ~connected[r])
  BY Mapping
<1>11. CASE StreamOf(r)' = StreamOf(r) /\ trip'[r] = trip[r] /\ connected'[r] = connected[r]
  BY <1>5, <1>6, <1>8, <1>11 DEF Contract!vars
<1>12. CASE StreamOf(r)' = StreamOf(r) /\ trip'[r] = trip[r] /\ ~connected'[r]
  <2>1. Contract!Leave(r)
    BY <1>5, <1>6, <1>9, <1>12 DEF Contract!Leave
  <2> QED BY <2>1 DEF Contract!Next
<1>13. CASE /\ StreamOf(r) = "open" /\ StreamOf(r)' = "open"
            /\ trip[r] = "none" /\ trip'[r] # "none" /\ connected'[r] = connected[r]
  <2>1. Contract!Save(r)
    BY <1>5, <1>7, <1>8, <1>10, <1>13 DEF Contract!Save
  <2> QED BY <2>1 DEF Contract!Next
<1>14. CASE /\ StreamOf(r) = "open" /\ StreamOf(r)' = "cut"
            /\ trip'[r] = trip[r] /\ connected'[r] = connected[r]
  <2>1. Contract!Cut(r)
    BY <1>4, <1>6, <1>8, <1>10, <1>14 DEF Contract!Cut
  <2> QED BY <2>1 DEF Contract!Next
<1>15. CASE /\ StreamOf(r) = "open" /\ StreamOf(r)' \in Terminals
            /\ trip[r] # "none" => StreamOf(r)' = "itinerary_done"
            /\ StreamOf(r)' = "itinerary_done" => trip[r] # "none" \/ ~connected[r]
            /\ trip'[r] = trip[r] /\ connected'[r] = connected[r]
  <2>1. Contract!Answer(r)
    BY <1>4, <1>6, <1>8, <1>10, <1>15 DEF Contract!Answer, Contract!Terminals, Terminals
  <2> QED BY <2>1 DEF Contract!Next
<1> QED BY <1>1, <1>11, <1>12, <1>13, <1>14, <1>15 DEF StreamStep

\* Initial states and steps of the generation are those of the contract.
THEOREM GenerateImplementsContract == Spec => Contract!Init /\ [][Contract!Next]_(Contract!vars)
<1>1. Init => Contract!Init
  BY DEF Init, Contract!Init, stream, saved, gone
<1>2. Inv /\ Inv' /\ [Next]_vars => [Contract!Next]_(Contract!vars)
  <2> SUFFICES ASSUME Inv, Inv', [Next]_vars PROVE [Contract!Next]_(Contract!vars)
    OBVIOUS
  <2>1. CASE \E r \in Requests : RequestStep(r)
    BY <2>1, RequestStepRefines
  <2>2. CASE CacheExpires \/ UNCHANGED vars
    BY <2>2 DEF CacheExpires, vars, outcome, stream, saved, gone, Contract!vars
  <2> QED BY <2>1, <2>2 DEF Next
<1> QED BY <1>1, <1>2, Invariance, PTL DEF Spec
=============================================================================
