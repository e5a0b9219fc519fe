------------------------------ MODULE AgentLoop ------------------------------
(***************************************************************************)
(* The planning agent of src/planner: the LangGraph                        *)
(*                                                                         *)
(*    parse_preferences -> agent <-> tool_executor                         *)
(*                           -> write_narrative -> record_evaluation -> end *)
(*                                                                         *)
(* The language model only proposes tool names.  The phase, the counters   *)
(* and the planning data are written by tools/orchestration.py after each  *)
(* call, and once more by the stuck detector after each batch of calls.    *)
(*                                                                         *)
(* Data is kept to what the control flow reads: how many candidate and     *)
(* ranked places there are, whether a route and a schedule exist, and the  *)
(* verdict of the last validation.  A call the model proposed is named     *)
(* when it is dispatched, not when it is queued: nothing reads the name in *)
(* between, and the queue is then only a length.                           *)
(***************************************************************************)
EXTENDS Integers, PlanOutcome

CONSTANTS
  MaxToolCalls,  \* PLANNER_MAX_TOOL_CALLS
  MaxReplan,     \* PLANNER_MAX_REPLAN_ATTEMPTS
  StuckLimit,    \* PLANNER_AGENT_PHASE_STUCK_LIMIT
  MaxBatch,      \* bound: tool calls in one reply of the language model
  MaxPlaces,     \* bound: places a search returns
  Errors,        \* the error lists a failing validation can report
  LlmNames       \* the tool names the language model may utter

Phases == {"DISCOVER", "PLAN", "VALIDATE", "REPLAN", "WRAP_UP"}

PhaseTools ==
  [ DISCOVER |-> {"check_readiness", "search_places", "rank_places", "ask_clarification"},
    PLAN     |-> {"build_route", "build_schedule"},
    VALIDATE |-> {"validate_itinerary"},
    REPLAN   |-> {"reoptimize_routes", "drop_weakest_stop", "expand_poi_search",
                  "accept_partial"},
    WRAP_UP  |-> {"finish_plan"} ]

Registry == UNION {PhaseTools[p] : p \in Phases}
RepairTools == PhaseTools.REPLAN \ {"accept_partial"}

ASSUME BoundsAssumption ==
  /\ MaxToolCalls \in Nat \ {0}
  /\ MaxReplan \in Nat
  /\ StuckLimit \in Nat \ {0}
  /\ MaxBatch \in Nat \ {0}
  /\ MaxPlaces \in Nat \ {0}

ASSUME NamesAssumption ==
  /\ LlmNames \subseteq Registry \cup {"unknown"}
  /\ "none" \notin Errors
  /\ "passed" \notin Errors

VARIABLES
  node,          \* the graph node that runs next
  pending,       \* length of what is left of pending_tool_calls
  byDefault,     \* the pending call was synthesized, not proposed by the model
  phase,         \* agent_phase
  toolLoop,      \* tool_loop_count
  replans,       \* replan_loop_count
  abort,         \* abort_triggered
  planComplete,  \* plan_complete
  clarify,       \* needs_clarification
  work,          \* the planning data
  fingerprint,   \* stuck_fingerprint
  stuckCycles,   \* stuck_cycles
  forced         \* warnings contains phase_stuck_wrap_up_force_complete

flags == <<phase, replans, abort, planComplete, clarify>>
stuck == <<fingerprint, stuckCycles, forced>>
vars == <<node, pending, byDefault, toolLoop, flags, work, stuck>>

Nodes == {"parse_preferences", "agent", "tool_executor", "write_narrative",
          "record_evaluation", "end"}
Verdicts == {"none", "passed"} \cup Errors

\* validation_result is "none" before the first validation.  fresh: neither
\* the route nor the schedule was rebuilt since that verdict.
Work == [ readiness  : BOOLEAN,
          candidates : 0..MaxPlaces,
          ranked     : 0..MaxPlaces,
          route      : BOOLEAN,
          schedule   : BOOLEAN,
          verdict    : Verdicts,
          fresh      : BOOLEAN ]

\* Empty before the first batch.
Fingerprints ==
  {<<>>} \cup
  (Phases \X (0..MaxPlaces) \X (0..MaxPlaces) \X BOOLEAN \X BOOLEAN \X (Errors \cup {"none"}))

(***************************************************************************)
(* The twelve tools.  Each is the set of results [ok, work] it can return  *)
(* on the planning data w; a result that carries no data leaves w alone.   *)
(***************************************************************************)
Result(ok, w) == [ok |-> ok, work |-> w]
OkEach(ws) == {Result(TRUE, w) : w \in ws}

\* select_places keeps at least one of a nonempty set of candidates.
Selected(c) == IF c = 0 THEN {0} ELSE 1..c

\* The number of places build_route works from: ranked, or ranked on the spot.
Rankings(w) == (IF w.ranked > 0 THEN {w.ranked} ELSE Selected(w.candidates)) \ {0}

Routed(w) == {[w EXCEPT !.ranked = n, !.route = TRUE, !.fresh = FALSE] : n \in Rankings(w)}
Scheduled(w) ==
  {[v EXCEPT !.schedule = TRUE, !.fresh = FALSE] : v \in IF w.route THEN {w} ELSE Routed(w)}
Rebuilt(w) == {[v EXCEPT !.schedule = TRUE] : v \in Routed(w)}

\* A tool that is handed a routing provider and a database fails without data
\* when there is nothing to route or no provider, or when one of them raises:
\* execute_tool turns that into a tool_error.
OrFailed(ws, w) == {Result(FALSE, w)} \cup OkEach(ws)

CheckReadiness(w) == OrFailed({[w EXCEPT !.readiness = TRUE]}, w)

SearchPlaces(w) == OrFailed({[w EXCEPT !.candidates = n] : n \in 0..MaxPlaces}, w)

RankPlaces(w) == OkEach({[w EXCEPT !.ranked = n] : n \in Selected(w.candidates)})

\* The validator is a function of route and schedule.  Like the ranking and the
\* three tools that only signal, it calls nothing and reads what the tools wrote:
\* it has no tool_error.
ValidationVerdicts(w) ==
  IF ~w.schedule /\ ~w.route THEN Errors
  ELSE IF w.fresh THEN {w.verdict}
  ELSE {"passed"} \cup Errors

ValidateItinerary(w) ==
  {Result(v = "passed", [w EXCEPT !.verdict = v, !.fresh = TRUE]) : v \in ValidationVerdicts(w)}

DropWeakestStop(w) ==
  IF ~w.route
  THEN OrFailed(Rebuilt(w), w)
  ELSE {Result(TRUE, w)}                                  \* nothing_to_drop
         \cup (IF w.ranked > 1 THEN OrFailed(Rebuilt([w EXCEPT !.ranked = @ - 1]), w) ELSE {})

\* Search, rank, route and schedule anew; a search that finds nothing fails.
ExpandPoiSearch(w) ==
  OrFailed(UNION {Rebuilt([w EXCEPT !.candidates = n, !.ranked = 0]) : n \in 1..MaxPlaces}, w)

Run(t, w) ==
  CASE t = "check_readiness"    -> CheckReadiness(w)
    [] t = "search_places"      -> SearchPlaces(w)
    [] t = "rank_places"        -> RankPlaces(w)
    [] t = "build_route"        -> OrFailed(Routed(w), w)
    [] t = "build_schedule"     -> OrFailed(Scheduled(w), w)
    [] t = "validate_itinerary" -> ValidateItinerary(w)
    [] t = "reoptimize_routes"  -> OrFailed(Rebuilt(w), w)
    [] t = "drop_weakest_stop"  -> DropWeakestStop(w)
    [] t = "expand_poi_search"  -> ExpandPoiSearch(w)
    [] OTHER                    -> {Result(TRUE, w)}

\* _finish_plan_ok.  A definition named M... here and below is a mutant of the
\* one after it, which breaks a property: see the README.
MFinishPlanAlwaysOk == TRUE
FinishPlanOk == abort \/ work.verdict = "passed"

\* check_preconditions: a registered tool, of this phase, whose own
\* precondition holds.
MAllowedInAnyPhase(t) == t \in Registry /\ (t = "finish_plan" => FinishPlanOk)
Allowed(t) == t \in PhaseTools[phase] /\ (t = "finish_plan" => FinishPlanOk)

\* execute_tool never raises and never writes the state.
ExecuteTool(t) == IF Allowed(t) THEN Run(t, work) ELSE {Result(FALSE, work)}

(***************************************************************************)
(* maybe_transition_phase: the transition table.  n is tool_loop_count     *)
(* after this call was counted.                                            *)
(***************************************************************************)
MBudgetOffByOne(n) == n > MaxToolCalls
BudgetSpent(n) == n >= MaxToolCalls

MRepairsOffByOne == replans <= MaxReplan
RepairsLeft == replans < MaxReplan

Step(p, r, a) == [phase |-> p, replans |-> r, abort |-> a]

Transition(t, ok, n) ==
  LET stay == Step(phase, replans, FALSE)
      giveUp == Step("WRAP_UP", replans, TRUE)
  IN IF BudgetSpent(n) THEN giveUp ELSE
     CASE phase = "DISCOVER" /\ t = "rank_places" /\ ok ->
            Step("PLAN", replans, FALSE)
       [] phase = "PLAN" /\ t = "build_schedule" /\ ok ->
            Step("VALIDATE", replans, FALSE)
       [] phase = "VALIDATE" /\ t = "validate_itinerary" ->
            IF ok THEN Step("WRAP_UP", replans, FALSE)
            ELSE IF RepairsLeft THEN Step("REPLAN", replans + 1, FALSE)
            ELSE giveUp
       [] phase = "REPLAN" ->
            IF t = "accept_partial" /\ ok THEN Step("WRAP_UP", replans, FALSE)
            ELSE IF ~RepairsLeft THEN giveUp
            ELSE IF t \in RepairTools /\ ok THEN Step("PLAN", replans, FALSE)
            ELSE stay
       [] OTHER -> stay

(***************************************************************************)
(* Actions                                                                 *)
(***************************************************************************)
Init ==
  /\ node = "parse_preferences"
  /\ pending = 0 /\ byDefault = FALSE
  /\ phase = "DISCOVER"
  /\ toolLoop = 0 /\ replans = 0
  /\ abort = FALSE /\ planComplete = FALSE /\ clarify = FALSE
  /\ work = [readiness |-> FALSE, candidates |-> 0, ranked |-> 0, route |-> FALSE,
             schedule |-> FALSE, verdict |-> "none", fresh |-> FALSE]
  /\ fingerprint = <<>> /\ stuckCycles = 0 /\ forced = FALSE

\* Falls back to default preferences when the language model fails.
ParsePreferences ==
  /\ node = "parse_preferences"
  /\ node' = "agent"
  /\ UNCHANGED <<pending, byDefault, toolLoop, flags, work, stuck>>

\* agent_node with no budget left: stop, with an empty batch.
AgentOutOfBudget ==
  /\ node = "agent"
  /\ BudgetSpent(toolLoop)
  /\ abort' = TRUE
  /\ phase' = "WRAP_UP"
  /\ pending' = 0
  /\ byDefault' = FALSE
  /\ node' = "tool_executor"
  /\ UNCHANGED <<toolLoop, replans, planComplete, clarify, work, stuck>>

\* The model answers, at once or after the nudge, with a batch of calls.
AgentProposes ==
  /\ node = "agent"
  /\ ~BudgetSpent(toolLoop)
  /\ pending' \in 1..MaxBatch
  /\ byDefault' = FALSE
  /\ node' = "tool_executor"
  /\ UNCHANGED <<toolLoop, flags, work, stuck>>

\* The model proposes nothing twice, or fails: one call is synthesized.
AgentSynthesizes ==
  /\ node = "agent"
  /\ ~BudgetSpent(toolLoop)
  /\ pending' = 1
  /\ byDefault' = TRUE
  /\ node' = "tool_executor"
  /\ UNCHANGED <<toolLoop, flags, work, stuck>>

\* _default_tool_for_state; the state it reads does not change before dispatch.
DefaultTool ==
  CASE phase = "DISCOVER" /\ ~work.readiness -> "check_readiness"
    [] phase = "DISCOVER" /\ work.readiness /\ work.candidates = 0 -> "search_places"
    [] phase = "DISCOVER" /\ work.readiness /\ work.candidates > 0 -> "rank_places"
    [] phase = "PLAN" /\ work.route -> "build_schedule"
    [] phase = "PLAN" /\ ~work.route -> "build_route"
    [] phase = "VALIDATE" -> "validate_itinerary"
    [] phase = "REPLAN" -> "reoptimize_routes"
    [] phase = "WRAP_UP" -> "finish_plan"

\* apply_tool_result, but for abort_triggered, which the transition table writes
\* as well.  A name that is not in the registry is not counted.
CountedCalls(t) == IF t \in Registry THEN toolLoop + 1 ELSE toolLoop

ApplyToolResult(t, result) ==
  /\ toolLoop' = CountedCalls(t)
  /\ work' = result.work
  /\ planComplete' = (planComplete \/ (t = "finish_plan" /\ result.ok))
  /\ clarify' = (clarify \/ (t = "ask_clarification" /\ result.ok))

\* One call of the batch: execute_tool, apply_tool_result, maybe_transition_phase.
ExecuteCall(t) ==
  /\ node = "tool_executor"
  /\ pending > 0
  /\ pending' = pending - 1
  /\ \E result \in ExecuteTool(t) :
       LET next == Transition(t, result.ok, CountedCalls(t))
       IN /\ ApplyToolResult(t, result)
          /\ phase' = next.phase
          /\ replans' = next.replans
          /\ abort' = (abort \/ (t = "accept_partial" /\ result.ok) \/ next.abort)
  /\ UNCHANGED <<node, byDefault, stuck>>

\* _progress_fingerprint: a passing verdict has no error codes, like none at all.
Codes == IF work.verdict \in Errors THEN work.verdict ELSE "none"
ProgressFingerprint ==
  <<phase, work.candidates, work.ranked, work.route, work.schedule, Codes>>

\* How many batches in a row ended with the same progress, this one included.
MStuckCyclesForgotten == 1
StuckCyclesNow == IF fingerprint = ProgressFingerprint THEN stuckCycles + 1 ELSE 1

\* _schedule_has_stops
MAlwaysHasStops == TRUE
HasStops == work.schedule

\* The stuck detector gives up on a phase: it skips it or aborts the plan.
AdvanceStuckPhase ==
  \/ /\ phase = "DISCOVER" /\ work.candidates > 0
     /\ phase' = "PLAN"
     /\ UNCHANGED <<abort, planComplete, forced>>
  \/ /\ phase = "PLAN" /\ HasStops
     /\ phase' = "VALIDATE"
     /\ UNCHANGED <<abort, planComplete, forced>>
  \/ /\ phase = "VALIDATE"
     /\ phase' = "WRAP_UP"
     /\ UNCHANGED <<abort, planComplete, forced>>
  \/ /\ \/ phase = "DISCOVER" /\ work.candidates = 0
        \/ phase = "PLAN" /\ ~HasStops
        \/ phase = "REPLAN"
     /\ phase' = "WRAP_UP"
     /\ abort' = TRUE
     /\ UNCHANGED <<planComplete, forced>>
  \/ /\ phase = "WRAP_UP"
     /\ planComplete' = TRUE
     /\ forced' = TRUE
     /\ UNCHANGED <<phase, abort>>

RunStuckDetector ==
  /\ fingerprint' = ProgressFingerprint
  /\ IF StuckCyclesNow < StuckLimit
     THEN stuckCycles' = StuckCyclesNow /\ UNCHANGED <<phase, abort, planComplete, forced>>
     ELSE stuckCycles' = 0 /\ AdvanceStuckPhase

\* _route_after_tools
RouteAfterTools ==
  IF clarify' THEN "end" ELSE IF planComplete' THEN "write_narrative" ELSE "agent"

\* The batch is done: stuck detector, then the conditional edge of the graph.
FinishBatch ==
  /\ node = "tool_executor"
  /\ pending = 0
  /\ RunStuckDetector
  /\ UNCHANGED <<pending, toolLoop, replans, clarify, work>>
  /\ byDefault' = FALSE
  /\ node' = RouteAfterTools

\* Falls back to template paragraphs when the language model fails.
WriteNarrative ==
  /\ node = "write_narrative"
  /\ node' = "record_evaluation"
  /\ UNCHANGED <<pending, byDefault, toolLoop, flags, work, stuck>>

RecordEvaluation ==
  /\ node = "record_evaluation"
  /\ node' = "end"
  /\ UNCHANGED <<pending, byDefault, toolLoop, flags, work, stuck>>

Next ==
  \/ ParsePreferences
  \/ AgentOutOfBudget
  \/ AgentProposes
  \/ AgentSynthesizes
  \/ \E t \in (IF byDefault THEN {DefaultTool} ELSE LlmNames) : ExecuteCall(t)
  \/ FinishBatch
  \/ WriteNarrative
  \/ RecordEvaluation

Spec == Init /\ [][Next]_vars

\* asyncio runs the graph to its end: every node returns, the calls to the
\* language model and to the tools have timeouts and fall back on failure.
FairSpec == Spec /\ WF_vars(Next)

(***************************************************************************)
(* Properties                                                              *)
(***************************************************************************)
\* Every variable has its type; in particular the counters stay bounded: a
\* batch can push tool_loop_count past its maximum, by less than its length.
TypeOK ==
  /\ node \in Nodes
  /\ pending \in 0..MaxBatch
  /\ byDefault \in BOOLEAN
  /\ phase \in Phases
  /\ toolLoop \in 0..(MaxToolCalls + MaxBatch - 1)
  /\ replans \in 0..MaxReplan
  /\ abort \in BOOLEAN
  /\ planComplete \in BOOLEAN
  /\ clarify \in BOOLEAN
  /\ work \in Work
  /\ fingerprint \in Fingerprints
  /\ stuckCycles \in 0..(StuckLimit - 1)
  /\ forced \in BOOLEAN

\* Budget (agent_node, maybe_transition_phase): once PLANNER_MAX_TOOL_CALLS calls
\* were counted the plan is aborted and in its last phase, whichever call of
\* whichever batch used up the budget, and no later call undoes that.
BudgetAborts == toolLoop >= MaxToolCalls => abort /\ phase = "WRAP_UP"

\* Last phase (maybe_transition_phase, _finish_plan_ok): a plan is complete or
\* aborted only in WRAP_UP, so no call dispatched later in the batch, and no
\* later cycle, can resume planning on a published itinerary.
SettledInWrapUp == planComplete \/ abort => phase = "WRAP_UP"

\* Verdicts (validate_itinerary, _finish_plan_ok): a passing verdict is about the
\* route and the schedule that are still there: nothing is rebuilt after it.
PassedIsCurrent == work.verdict = "passed" => work.fresh /\ work.schedule /\ phase = "WRAP_UP"

\* Completion (finish_plan, run_stuck_detector): a plan completes because it was
\* aborted, because the itinerary it publishes passed validation, or because the
\* stuck detector forced it, which the warnings say.
CompletionIsJustified ==
  planComplete => abort \/ forced \/ (work.verdict = "passed" /\ work.fresh)

\* Repair (maybe_transition_phase): REPLAN is entered only on a failed validation
\* of a schedule, on a paid attempt; and every attempt was paid for by a failure.
ReplanIsEarned ==
  /\ phase = "REPLAN" => work.verdict \in Errors /\ work.schedule /\ replans > 0
  /\ replans > 0 => work.verdict # "none"

\* Order of the phases: VALIDATE is reached only with a schedule to validate,
\* also when the stuck detector and not build_schedule moved the phase there.
ValidateHasSchedule == phase \in {"VALIDATE", "REPLAN"} => work.schedule /\ work.route

\* The end (_route_after_tools, run_stuck_detector): what the graph hands to the
\* code around it is a question or a complete plan, and a plan that was not
\* aborted has stops to save, also when the stuck detector and not the tools
\* brought it to its last phase.
Outcome == [complete |-> planComplete, abort |-> abort, clarify |-> clarify,
            usable |-> work.schedule]
EndsInFinal == node = "end" => Outcome \in GraphFinals

\* The inductive invariant the theorems of AgentLoop_proofs rest on: the
\* properties above, and what they need of the batch and of the data.
BatchFits == toolLoop + pending <= MaxToolCalls + MaxBatch - 1
DataCoheres ==
  /\ work.fresh => work.verdict # "none"
  /\ work.schedule => work.route
LateNodes ==
  /\ node \in {"write_narrative", "record_evaluation"} => planComplete
  /\ node = "end" => planComplete \/ clarify
  /\ phase = "WRAP_UP" => abort \/ work.schedule
Inv ==
  /\ TypeOK
  /\ BatchFits
  /\ DataCoheres
  /\ LateNodes
  /\ BudgetAborts
  /\ SettledInWrapUp
  /\ PassedIsCurrent
  /\ CompletionIsJustified
  /\ ReplanIsEarned
  /\ ValidateHasSchedule

\* agent.md and the blueprint: the model cannot complete a plan that was neither
\* aborted nor validated.
NoCompletionWithoutValidation == planComplete /\ ~abort => work.verdict = "passed"

\* Termination: whatever the language model proposes, and however often it
\* proposes names that are never counted, the graph ends.
Terminates == <>(node = "end")

\* The documented phase machine, see PhaseContract.
status ==
  IF node \in {"parse_preferences", "agent", "tool_executor"} THEN "running"
  ELSE IF clarify THEN "clarified" ELSE "completed"
Contract == INSTANCE PhaseContract WITH aborted <- abort
ImplementsContract == Contract!Spec
=============================================================================
