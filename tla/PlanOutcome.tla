----------------------------- MODULE PlanOutcome -----------------------------
(***************************************************************************)
(* What is left of a planning run for the code around the graph: the flags *)
(* of TravelState that planner/emit_terminals.py, planner/cache.py and     *)
(* trips/service.py read.  AgentLoop ends in these states, Generate takes  *)
(* any of them as the result of the graph.                                 *)
(***************************************************************************)

\* usable: the schedule has a day with stops.
Outcomes == [complete : BOOLEAN, abort : BOOLEAN, clarify : BOOLEAN, usable : BOOLEAN]

\* The graph ends with a question or a complete plan, and a plan that was not
\* aborted has a schedule.
GraphFinals ==
  {f \in Outcomes : /\ f.clarify \/ f.complete
                    /\ f.complete /\ ~f.abort => f.usable}

\* resolve_terminal_from_state
MTerminalIgnoresSchedule(f) ==
  IF f.clarify THEN "clarification_needed"
  ELSE IF f.complete THEN "itinerary_done" ELSE "error"
Terminal(f) ==
  IF f.clarify THEN "clarification_needed"
  ELSE IF f.complete /\ f.usable THEN "itinerary_done" ELSE "error"

\* _cacheable_subset asks for a nonempty list of days; it is only reached with an
\* itinerary that was announced, whose days have stops.
MCacheableAborted(f) == f.complete /\ f.usable
Cacheable(f) == f.complete /\ ~f.abort /\ f.usable

\* _trip_status
TripStatus(f) ==
  IF f.complete /\ ~f.abort THEN "COMPLETE" ELSE IF f.abort THEN "FAILED" ELSE "DRAFT"
=============================================================================
