--------------------------- MODULE AgentLoop_proofs ---------------------------
(***************************************************************************)
(* Proofs about AgentLoop, for every value of its constants.               *)
(***************************************************************************)
EXTENDS AgentLoop, TLAPS

\* What every tool leaves behind: planning data again, the verdict unless the
\* tool is the validator, and never less of a plan than there was.
Kept(w, v) ==
  /\ v \in Work
  /\ w.schedule => v.schedule
  /\ w.route => v.route
  /\ (w.schedule => w.route) => (v.schedule => v.route)

KeepsVerdict(w, v) ==
  /\ v.verdict = w.verdict
  /\ v.fresh => w.fresh

\* Rankings is a set of possible lengths of ranked_pois.
LEMMA RankingsType ==
  ASSUME NEW w \in Work
  PROVE  Rankings(w) \subseteq 1..MaxPlaces
<1>1. w.ranked \in 0..MaxPlaces /\ w.candidates \in 0..MaxPlaces
  BY DEF Work
<1>2. Selected(w.candidates) \subseteq 0..MaxPlaces
  BY <1>1, BoundsAssumption DEF Selected
<1> QED BY <1>1, <1>2, BoundsAssumption DEF Rankings

\* build_route and the rebuilds keep the data well-formed.
LEMMA RoutedKept ==
  ASSUME NEW w \in Work, NEW v \in Routed(w)
  PROVE  Kept(w, v) /\ KeepsVerdict(w, v) /\ v.route
<1>1. PICK n \in 1..MaxPlaces :
        v = [w EXCEPT !.ranked = n, !.route = TRUE, !.fresh = FALSE]
  BY RankingsType DEF Routed
<1>2. n \in 0..MaxPlaces
  BY <1>1, BoundsAssumption
<1> QED BY <1>1, <1>2 DEF Kept, KeepsVerdict, Work

LEMMA RebuiltKept ==
  ASSUME NEW w \in Work, NEW v \in Rebuilt(w)
  PROVE  Kept(w, v) /\ KeepsVerdict(w, v) /\ v.route /\ v.schedule
<1>1. PICK u \in Routed(w) : v = [u EXCEPT !.schedule = TRUE]
  BY DEF Rebuilt
<1>2. Kept(w, u) /\ KeepsVerdict(w, u) /\ u.route
  BY RoutedKept
<1> QED BY <1>1, <1>2 DEF Kept, KeepsVerdict, Work

LEMMA ScheduledKept ==
  ASSUME NEW w \in Work, NEW v \in Scheduled(w)
  PROVE  Kept(w, v) /\ KeepsVerdict(w, v) /\ v.route /\ v.schedule
<1>1. PICK u \in (IF w.route THEN {w} ELSE Routed(w)) :
        v = [u EXCEPT !.schedule = TRUE, !.fresh = FALSE]
  BY DEF Scheduled
<1>2. Kept(w, w) /\ KeepsVerdict(w, w)
  BY DEF Kept, KeepsVerdict
<1>3. Kept(w, u) /\ KeepsVerdict(w, u) /\ u.route
  BY <1>1, <1>2, RoutedKept
<1> QED BY <1>1, <1>3 DEF Kept, KeepsVerdict, Work

LEMMA OrFailedKept ==
  ASSUME NEW w \in Work, NEW ws,
         \A v \in ws : Kept(w, v) /\ KeepsVerdict(w, v),
         NEW r \in OrFailed(ws, w)
  PROVE  r.ok \in BOOLEAN /\ Kept(w, r.work) /\ KeepsVerdict(w, r.work)
<1>1. Kept(w, w) /\ KeepsVerdict(w, w)
  BY DEF Kept, KeepsVerdict
<1>2. r = [ok |-> FALSE, work |-> w] \/ \E v \in ws : r = [ok |-> TRUE, work |-> v]
  BY DEF OrFailed, OkEach, Result
<1>3. CASE r = [ok |-> FALSE, work |-> w]
  BY <1>1, <1>3
<1>4. ASSUME NEW v \in ws, r = [ok |-> TRUE, work |-> v]
      PROVE  r.ok \in BOOLEAN /\ Kept(w, r.work) /\ KeepsVerdict(w, r.work)
  <2>1. r.ok = TRUE /\ r.work = v
    BY <1>4
  <2> QED BY <2>1
<1> QED BY <1>2, <1>3, <1>4

\* validate_itinerary reports a verdict, ok exactly when it is "passed", and
\* changes nothing else.
LEMMA ValidateResult ==
  ASSUME NEW w \in Work, w.fresh => w.verdict # "none",
         NEW r \in ValidateItinerary(w)
  PROVE  /\ r.ok \in BOOLEAN
         /\ Kept(w, r.work)
         /\ r.work.verdict \in Verdicts \ {"none"}
         /\ r.ok <=> r.work.verdict = "passed"
         /\ r.work.fresh
<1>1. PICK v \in ValidationVerdicts(w) :
        r = [ok |-> v = "passed", work |-> [w EXCEPT !.verdict = v, !.fresh = TRUE]]
  BY DEF ValidateItinerary, Result
<1>2. v \in Verdicts \ {"none"}
  BY NamesAssumption DEF ValidationVerdicts, Verdicts, Work
<1>3. r.work \in Work /\ r.work.verdict = v /\ r.work.fresh
        /\ r.work.schedule = w.schedule /\ r.work.route = w.route
  BY <1>1, <1>2 DEF Work
<1>4. r.ok = (v = "passed")
  BY <1>1
<1> QED BY <1>2, <1>3, <1>4 DEF Kept

\* Every other tool leaves the verdict alone; the tools of WRAP_UP and the two
\* that only signal leave all the planning data alone.
LEMMA RunResult ==
  ASSUME NEW w \in Work, NEW t \in Registry, t # "validate_itinerary",
         NEW r \in Run(t, w)
  PROVE  /\ r.ok \in BOOLEAN
         /\ Kept(w, r.work)
         /\ KeepsVerdict(w, r.work)
         /\ t = "build_schedule" /\ r.ok => r.work.schedule
         /\ t = "finish_plan" => r.work = w
<1>1. Kept(w, w) /\ KeepsVerdict(w, w)
  BY DEF Kept, KeepsVerdict
<1>2. CASE t = "check_readiness"
  <2>1. r \in CheckReadiness(w)
    BY <1>2 DEF Run
  <2>2. CASE r = Result(FALSE, w)
    BY <1>1, <1>2, <2>2 DEF Result
  <2>3. CASE r = Result(TRUE, [w EXCEPT !.readiness = TRUE])
    BY <1>2, <2>3 DEF Kept, KeepsVerdict, Work, Result
  <2> QED BY <2>1, <2>2, <2>3 DEF CheckReadiness, OrFailed, OkEach
<1>3. CASE t = "search_places"
  <2>1. r \in SearchPlaces(w)
    BY <1>3 DEF Run
  <2>2. CASE r = Result(FALSE, w)
    BY <1>1, <1>3, <2>2 DEF Result
  <2>3. CASE \E n \in 0..MaxPlaces : r = Result(TRUE, [w EXCEPT !.candidates = n])
    BY <1>3, <2>3 DEF Kept, KeepsVerdict, Work, Result
  <2> QED BY <2>1, <2>2, <2>3 DEF SearchPlaces, OrFailed, OkEach
<1>4. CASE t = "rank_places"
  <2>1. Selected(w.candidates) \subseteq 0..MaxPlaces
    BY BoundsAssumption DEF Selected, Work
  <2>2. PICK n \in 0..MaxPlaces : r = [ok |-> TRUE, work |-> [w EXCEPT !.ranked = n]]
    BY <1>4, <2>1 DEF Run, RankPlaces, Result, OkEach
  <2> QED BY <1>4, <2>2 DEF Kept, KeepsVerdict, Work
<1>5. CASE t = "build_route"
  <2>1. r \in OrFailed(Routed(w), w)
    BY <1>5 DEF Run
  <2> QED BY <1>5, <2>1, RoutedKept, OrFailedKept
<1>6. CASE t = "build_schedule"
  <2>1. r \in OrFailed(Scheduled(w), w)
    BY <1>6 DEF Run
  <2>2. r.ok => r.work \in Scheduled(w)
    BY <2>1 DEF OrFailed, OkEach, Result
  <2> QED BY <1>6, <2>1, <2>2, ScheduledKept, OrFailedKept
<1>7. CASE t = "reoptimize_routes"
  <2>1. r \in OrFailed(Rebuilt(w), w)
    BY <1>7 DEF Run
  <2> QED BY <1>7, <2>1, RebuiltKept, OrFailedKept
<1>8. CASE t = "drop_weakest_stop"
  <2>1. r \in DropWeakestStop(w)
    BY <1>8 DEF Run
  <2>2. CASE ~w.route
    <3>1. r \in OrFailed(Rebuilt(w), w)
      BY <2>1, <2>2 DEF DropWeakestStop
    <3> QED BY <1>8, <3>1, RebuiltKept, OrFailedKept
  <2>3. CASE w.route /\ r = [ok |-> TRUE, work |-> w]
    BY <1>1, <1>8, <2>3
  <2>4. CASE w.route /\ w.ranked > 1 /\ r \in OkEach(Rebuilt([w EXCEPT !.ranked = @ - 1]))
    <3> DEFINE u == [w EXCEPT !.ranked = @ - 1]
    <3>1. u \in Work /\ Kept(w, u) /\ KeepsVerdict(w, u)
      BY <2>4, BoundsAssumption DEF Work, Kept, KeepsVerdict
    <3>2. PICK v \in Rebuilt(u) : r = [ok |-> TRUE, work |-> v]
      BY <2>4 DEF OkEach, Result
    <3>3. Kept(u, v) /\ KeepsVerdict(u, v)
      BY <3>1, RebuiltKept
    <3> QED BY <1>8, <3>1, <3>2, <3>3 DEF Kept, KeepsVerdict
  <2>5. CASE w.route /\ r = [ok |-> FALSE, work |-> w]
    BY <1>1, <1>8, <2>5
  <2> QED BY <2>1, <2>2, <2>3, <2>4, <2>5 DEF DropWeakestStop, OrFailed, Result
<1>9. CASE t = "expand_poi_search"
  <2>1. \/ r = [ok |-> FALSE, work |-> w]
        \/ \E n \in 1..MaxPlaces :
             \E v \in Rebuilt([w EXCEPT !.candidates = n, !.ranked = 0]) :
               r = [ok |-> TRUE, work |-> v]
    BY <1>9 DEF Run, ExpandPoiSearch, OrFailed, OkEach, Result
  <2>2. CASE r = [ok |-> FALSE, work |-> w]
    BY <1>1, <1>9, <2>2
  <2>3. ASSUME NEW n \in 1..MaxPlaces,
               NEW v \in Rebuilt([w EXCEPT !.candidates = n, !.ranked = 0]),
               r = [ok |-> TRUE, work |-> v]
        PROVE  r.ok \in BOOLEAN /\ Kept(w, r.work) /\ KeepsVerdict(w, r.work)
    <3> DEFINE u == [w EXCEPT !.candidates = n, !.ranked = 0]
    <3>1. u \in Work /\ Kept(w, u) /\ KeepsVerdict(w, u)
      <4>1. n \in 0..MaxPlaces /\ 0 \in 0..MaxPlaces
        BY BoundsAssumption
      <4> QED BY <4>1 DEF Work, Kept, KeepsVerdict
    <3>2. Kept(u, v) /\ KeepsVerdict(u, v)
      BY <3>1, RebuiltKept
    <3> QED BY <2>3, <3>1, <3>2 DEF Kept, KeepsVerdict
  <2> QED BY <1>9, <2>1, <2>2, <2>3
<1>10. CASE t \in {"ask_clarification", "accept_partial", "finish_plan"}
  <2>1. r = [ok |-> TRUE, work |-> w]
    BY <1>10 DEF Run, Result
  <2> QED BY <1>1, <1>10, <2>1
<1> QED BY <1>2, <1>3, <1>4, <1>5, <1>6, <1>7, <1>8, <1>9, <1>10
       DEF Registry, Phases, PhaseTools

\* While the tool budget is not spent there is a call left.
LEMMA BudgetNotSpent == ASSUME Inv, ~BudgetSpent(toolLoop) PROVE toolLoop < MaxToolCalls
BY BoundsAssumption DEF BudgetSpent, Inv, TypeOK

\* The names that can be dispatched.
LEMMA DispatchedNames ==
  ASSUME TypeOK, NEW t \in (IF byDefault THEN {DefaultTool} ELSE LlmNames)
  PROVE  t \in Registry \cup {"unknown"}
<1>1. CASE ~byDefault
  BY <1>1, NamesAssumption
<1>2. CASE byDefault
  <2>1. t = DefaultTool
    BY <1>2
  <2>2. /\ phase \in {"DISCOVER", "PLAN", "VALIDATE", "REPLAN", "WRAP_UP"}
        /\ work.readiness \in BOOLEAN /\ work.route \in BOOLEAN
        /\ work.candidates = 0 \/ work.candidates > 0
    BY BoundsAssumption DEF TypeOK, Work, Phases
  <2>3. DefaultTool \in {"check_readiness", "search_places", "rank_places", "build_schedule",
                        "build_route", "validate_itinerary", "reoptimize_routes", "finish_plan"}
    BY <2>2 DEF DefaultTool
  <2> QED BY <2>1, <2>3 DEF Registry, Phases, PhaseTools
<1> QED BY <1>1, <1>2

\* What the transition table can do to the phase and the counters.
TableEffect(t, ok, n, next) ==
  /\ next.phase \in Phases
  /\ next.replans \in 0..MaxReplan
  /\ next.abort \in BOOLEAN
  /\ n >= MaxToolCalls => next.abort
  /\ next.abort \/ phase = "WRAP_UP" => next.phase = "WRAP_UP"
  /\ phase \in {"DISCOVER", "PLAN"} /\ next.phase = "WRAP_UP" => next.abort
  /\ next.phase = "VALIDATE" =>
       \/ phase = "VALIDATE"
       \/ phase = "PLAN" /\ t = "build_schedule" /\ ok
  /\ next.phase = "REPLAN" =>
       \/ phase = "REPLAN" /\ next.replans = replans
       \/ /\ phase = "VALIDATE" /\ t = "validate_itinerary" /\ ~ok
          /\ next.replans = replans + 1
  /\ next.replans # replans => phase = "VALIDATE" /\ t = "validate_itinerary"
  /\ phase = "REPLAN" /\ t = "accept_partial" /\ ok => next.phase = "WRAP_UP"
  /\ phase = "VALIDATE" /\ t = "validate_itinerary" /\ ok => next.phase = "WRAP_UP"

LEMMA TransitionFacts ==
  ASSUME TypeOK, NEW t \in Registry \cup {"unknown"}, NEW ok \in BOOLEAN, NEW n \in Nat
  PROVE  TableEffect(t, ok, n, Transition(t, ok, n))
<1> USE DEF TableEffect
<1> USE DEF TypeOK
<1>1. phase \in {"DISCOVER", "PLAN", "VALIDATE", "REPLAN", "WRAP_UP"} /\ replans \in 0..MaxReplan
  BY DEF Phases
<1>2. CASE n >= MaxToolCalls
  BY <1>1, <1>2 DEF Transition, BudgetSpent, RepairsLeft, Step, Phases
<1>3. CASE ~(n >= MaxToolCalls) /\ phase = "DISCOVER"
  BY <1>1, <1>3 DEF Transition, BudgetSpent, RepairsLeft, Step, Phases
<1>4. CASE ~(n >= MaxToolCalls) /\ phase = "PLAN"
  BY <1>1, <1>4 DEF Transition, BudgetSpent, RepairsLeft, Step, Phases
<1>5. CASE ~(n >= MaxToolCalls) /\ phase = "VALIDATE"
  BY <1>1, <1>5, BoundsAssumption DEF Transition, BudgetSpent, RepairsLeft, Step, Phases
<1>6. CASE ~(n >= MaxToolCalls) /\ phase = "REPLAN"
  BY <1>1, <1>6 DEF Transition, BudgetSpent, RepairsLeft, Step, Phases, RepairTools, PhaseTools
<1>7. CASE ~(n >= MaxToolCalls) /\ phase = "WRAP_UP"
  BY <1>1, <1>7 DEF Transition, BudgetSpent, RepairsLeft, Step, Phases
<1> QED BY <1>1, <1>2, <1>3, <1>4, <1>5, <1>6, <1>7

\* What execute_tool returns for a name that can be dispatched.
ToolEffect(t, r) ==
  /\ r.ok \in BOOLEAN
  /\ Kept(work, r.work)
  /\ r.ok => t \in PhaseTools[phase]
  /\ t = "finish_plan" /\ r.ok => FinishPlanOk
  /\ t # "validate_itinerary" => KeepsVerdict(work, r.work)
  /\ t = "build_schedule" /\ r.ok => r.work.schedule
  /\ phase # "VALIDATE" => r.work.verdict = work.verdict
  /\ phase = "WRAP_UP" => r.work = work
  /\ phase = "VALIDATE" /\ t = "validate_itinerary" =>
       /\ r.work.verdict \in Verdicts \ {"none"}
       /\ r.ok <=> r.work.verdict = "passed"
       /\ r.work.fresh

LEMMA ExecuteToolFacts ==
  ASSUME Inv, NEW t \in Registry \cup {"unknown"}, NEW r \in ExecuteTool(t)
  PROVE  ToolEffect(t, r)
<1> USE DEF ToolEffect
<1>1. work \in Work /\ phase \in Phases /\ (work.fresh => work.verdict # "none")
  BY DEF Inv, TypeOK, DataCoheres
<1>2. Kept(work, work) /\ KeepsVerdict(work, work)
  BY <1>1 DEF Kept, KeepsVerdict
<1>3. CASE ~Allowed(t)
  <2>1. r = [ok |-> FALSE, work |-> work]
    BY <1>3 DEF ExecuteTool, Result
  <2>2. ~(phase = "VALIDATE" /\ t = "validate_itinerary")
    BY <1>3 DEF Allowed, PhaseTools
  <2> QED BY <1>2, <2>1, <2>2
<1>4. CASE Allowed(t) /\ t = "validate_itinerary"
  <2>1. r \in ValidateItinerary(work)
    BY <1>4 DEF ExecuteTool, Run
  <2>2. phase = "VALIDATE"
    BY <1>1, <1>4 DEF Allowed, PhaseTools, Phases
  <2> QED BY <1>1, <1>4, <2>1, <2>2, ValidateResult DEF Allowed
<1>5. CASE Allowed(t) /\ t # "validate_itinerary"
  <2>1. r \in Run(t, work)
    BY <1>5 DEF ExecuteTool
  <2>2. t \in PhaseTools[phase] /\ t \in Registry
    BY <1>1, <1>5 DEF Allowed, Registry
  <2>3. phase = "WRAP_UP" => t = "finish_plan"
    BY <2>2 DEF PhaseTools
  <2>4. r.ok \in BOOLEAN /\ Kept(work, r.work) /\ KeepsVerdict(work, r.work)
        /\ (t = "build_schedule" /\ r.ok => r.work.schedule)
        /\ (t = "finish_plan" => r.work = work)
    BY <1>1, <1>5, <2>1, <2>2, RunResult
  <2> QED BY <1>5, <2>2, <2>3, <2>4 DEF Allowed, KeepsVerdict
<1> QED BY <1>3, <1>4, <1>5

\* One call of a batch preserves the invariant.
LEMMA ExecuteCallPreserves ==
  ASSUME Inv, NEW t \in Registry \cup {"unknown"}, ExecuteCall(t)
  PROVE  Inv'
<1>1. PICK r \in ExecuteTool(t) :
        LET said == t \in Registry /\ r.ok
            n == IF t \in Registry THEN toolLoop + 1 ELSE toolLoop
            next == Transition(t, r.ok, n)
        IN /\ toolLoop' = n
           /\ work' = r.work
           /\ planComplete' = (planComplete \/ (said /\ t = "finish_plan"))
           /\ clarify' = (clarify \/ (said /\ t = "ask_clarification"))
           /\ phase' = next.phase
           /\ replans' = next.replans
           /\ abort' = (abort \/ (said /\ t = "accept_partial") \/ next.abort)
  BY DEF ExecuteCall, ApplyToolResult, CountedCalls
<1> DEFINE said == t \in Registry /\ r.ok
           next == Transition(t, r.ok, toolLoop')
<1>2. /\ toolLoop' = IF t \in Registry THEN toolLoop + 1 ELSE toolLoop
      /\ work' = r.work
      /\ planComplete' = (planComplete \/ (said /\ t = "finish_plan"))
      /\ clarify' = (clarify \/ (said /\ t = "ask_clarification"))
      /\ phase' = next.phase
      /\ replans' = next.replans
      /\ abort' = (abort \/ (said /\ t = "accept_partial") \/ next.abort)
  BY <1>1
<1>3. /\ node = "tool_executor" /\ node' = node /\ pending > 0 /\ pending' = pending - 1
      /\ byDefault' = byDefault /\ fingerprint' = fingerprint
      /\ stuckCycles' = stuckCycles /\ forced' = forced
  BY DEF ExecuteCall, ApplyToolResult, CountedCalls, stuck
<1>4. ToolEffect(t, r)
  BY ExecuteToolFacts
<1>5. toolLoop \in Nat /\ toolLoop' \in Nat /\ toolLoop' >= toolLoop
  BY <1>2, BoundsAssumption DEF Inv, TypeOK
<1>6. TableEffect(t, r.ok, toolLoop', next)
  <2>1. r.ok \in BOOLEAN /\ TypeOK
    BY <1>4 DEF ToolEffect, Inv
  <2> QED BY <1>5, <2>1, TransitionFacts
<1>7. t = "finish_plan" /\ r.ok => phase = "WRAP_UP"
  BY <1>4 DEF ToolEffect, PhaseTools, Inv, TypeOK, Phases
<1>8. t = "accept_partial" /\ r.ok => phase = "REPLAN"
  BY <1>4 DEF ToolEffect, PhaseTools, Inv, TypeOK, Phases
<1> HIDE DEF next
<1> USE DEF ToolEffect, TableEffect
<1>9. BatchFits'
  BY <1>2, <1>3, BoundsAssumption DEF Inv, BatchFits, TypeOK
<1>10. TypeOK'
  <2>1. toolLoop' \in 0..(MaxToolCalls + MaxBatch - 1) /\ pending' \in 0..MaxBatch
    BY <1>2, <1>3, <1>5, <1>9, BoundsAssumption DEF Inv, BatchFits, TypeOK
  <2>2. planComplete' \in BOOLEAN /\ clarify' \in BOOLEAN /\ abort' \in BOOLEAN
    BY <1>2, <1>4, <1>6 DEF Inv, TypeOK
  <2>3. phase' \in Phases /\ replans' \in 0..MaxReplan /\ work' \in Work
    BY <1>2, <1>4, <1>6 DEF Kept
  <2> QED BY <1>3, <2>1, <2>2, <2>3 DEF Inv, TypeOK
<1>11. DataCoheres'
  <2>1. work'.schedule => work'.route
    BY <1>2, <1>4 DEF Inv, DataCoheres, Kept
  <2>2. work'.fresh => work'.verdict # "none"
    <3>1. CASE phase = "VALIDATE" /\ t = "validate_itinerary"
      BY <1>2, <1>4, <3>1
    <3>2. CASE t # "validate_itinerary"
      BY <1>2, <1>4, <3>2 DEF Inv, DataCoheres, KeepsVerdict
    <3>3. CASE phase # "VALIDATE" /\ t = "validate_itinerary"
      <4>1. r.work = work
        BY <3>3 DEF ExecuteTool, Allowed, PhaseTools, Result, Inv, TypeOK, Phases
      <4> QED BY <1>2, <4>1 DEF Inv, DataCoheres
    <3> QED BY <3>1, <3>2, <3>3
  <2> QED BY <2>1, <2>2 DEF DataCoheres
<1>12. BudgetAborts'
  BY <1>2, <1>6 DEF BudgetAborts
<1>13. SettledInWrapUp'
  BY <1>2, <1>6, <1>7, <1>8 DEF Inv, SettledInWrapUp
<1>14. PassedIsCurrent'
  <2>1. CASE phase = "WRAP_UP"
    BY <1>2, <1>4, <1>6, <2>1 DEF Inv, PassedIsCurrent
  <2>2. CASE phase # "WRAP_UP" /\ work'.verdict = "passed"
    <3>1. phase = "VALIDATE" /\ t = "validate_itinerary"
      BY <1>2, <1>4, <2>2 DEF Inv, PassedIsCurrent, KeepsVerdict
    <3>2. work.schedule
      BY <3>1 DEF Inv, ValidateHasSchedule
    <3> QED BY <1>2, <1>4, <1>6, <2>2, <3>1, <3>2 DEF PassedIsCurrent, Kept
  <2> QED BY <2>1, <2>2 DEF PassedIsCurrent
<1>15. CompletionIsJustified'
  <2>1. CASE planComplete
    BY <1>2, <1>3, <1>4, <2>1 DEF Inv, CompletionIsJustified, SettledInWrapUp
  <2>2. CASE ~planComplete /\ planComplete'
    <3>1. t = "finish_plan" /\ r.ok
      BY <1>2, <2>2
    <3> QED BY <1>2, <1>4, <1>7, <3>1
            DEF FinishPlanOk, CompletionIsJustified, Inv, PassedIsCurrent
  <2> QED BY <2>1, <2>2 DEF CompletionIsJustified
<1>16. ReplanIsEarned'
  <2>1. CASE phase = "VALIDATE" /\ t = "validate_itinerary"
    <3>1. work'.verdict \in Verdicts \ {"none"} /\ (r.ok <=> work'.verdict = "passed")
      BY <1>2, <1>4, <2>1
    <3>2. work'.schedule
      BY <1>2, <1>4, <2>1 DEF Kept, Inv, ValidateHasSchedule
    <3>3. phase' = "REPLAN" => ~r.ok /\ replans' = replans + 1
      BY <1>2, <1>6, <2>1
    <3> QED BY <3>1, <3>2, <3>3 DEF ReplanIsEarned, Verdicts, Inv, TypeOK
  <2>2. CASE ~(phase = "VALIDATE" /\ t = "validate_itinerary")
    <3>1. work'.verdict = work.verdict
      BY <1>2, <1>4, <2>2 DEF KeepsVerdict
    <3>2. replans' = replans
      BY <1>2, <1>6, <2>2
    <3>3. phase' = "REPLAN" => phase = "REPLAN"
      BY <1>2, <1>6, <2>2
    <3>4. work.schedule => work'.schedule
      BY <1>2, <1>4 DEF Kept
    <3> QED BY <3>1, <3>2, <3>3, <3>4 DEF Inv, ReplanIsEarned
  <2> QED BY <2>1, <2>2
<1>17. ValidateHasSchedule'
  <2>1. CASE phase \in {"VALIDATE", "REPLAN"}
    BY <1>2, <1>4, <2>1 DEF Inv, ValidateHasSchedule, Kept
  <2>2. CASE phase \notin {"VALIDATE", "REPLAN"} /\ phase' \in {"VALIDATE", "REPLAN"}
    <3>1. t = "build_schedule" /\ r.ok
      BY <1>2, <1>6, <2>2
    <3> QED BY <1>2, <1>4, <1>11, <3>1 DEF ValidateHasSchedule, DataCoheres
  <2> QED BY <2>1, <2>2 DEF ValidateHasSchedule
<1>18. LateNodes'
  <2>1. phase' = "WRAP_UP" => abort' \/ work'.schedule
    <3>1. CASE phase \in {"DISCOVER", "PLAN"}
      BY <1>2, <1>6, <3>1
    <3>2. CASE phase \in {"VALIDATE", "REPLAN", "WRAP_UP"}
      BY <1>2, <1>4, <3>2 DEF Inv, LateNodes, ValidateHasSchedule, Kept
    <3> QED BY <3>1, <3>2 DEF Inv, TypeOK, Phases
  <2> QED BY <1>3, <2>1 DEF LateNodes
<1> QED BY <1>9, <1>10, <1>11, <1>12, <1>13, <1>14, <1>15, <1>16, <1>17, <1>18 DEF Inv

\* The end of a batch preserves it, also when the stuck detector gives up on a phase.
LEMMA FinishBatchPreserves ==
  ASSUME Inv, FinishBatch
  PROVE  Inv'
<1> DEFINE cycles == IF fingerprint = ProgressFingerprint THEN stuckCycles + 1 ELSE 1
<1>1. /\ node = "tool_executor" /\ pending = 0 /\ pending' = 0
      /\ toolLoop' = toolLoop /\ replans' = replans /\ clarify' = clarify /\ work' = work
      /\ byDefault' = FALSE
      /\ node' = RouteAfterTools
      /\ fingerprint' = ProgressFingerprint
      /\ \/ /\ cycles < StuckLimit /\ stuckCycles' = cycles
            /\ UNCHANGED <<phase, abort, planComplete, forced>>
         \/ stuckCycles' = 0 /\ AdvanceStuckPhase
  BY DEF FinishBatch, RunStuckDetector, StuckCyclesNow
<1>2. \/ UNCHANGED <<phase, abort, planComplete, forced>>
      \/ /\ phase = "DISCOVER" /\ phase' = "PLAN"
         /\ UNCHANGED <<abort, planComplete, forced>>
      \/ /\ phase = "PLAN" /\ work.schedule /\ phase' = "VALIDATE"
         /\ UNCHANGED <<abort, planComplete, forced>>
      \/ /\ phase = "VALIDATE" /\ phase' = "WRAP_UP"
         /\ UNCHANGED <<abort, planComplete, forced>>
      \/ /\ phase # "WRAP_UP" /\ phase' = "WRAP_UP" /\ abort' = TRUE
         /\ UNCHANGED <<planComplete, forced>>
      \/ /\ phase = "WRAP_UP" /\ planComplete' = TRUE /\ forced' = TRUE
         /\ UNCHANGED <<phase, abort>>
  BY <1>1 DEF AdvanceStuckPhase, HasStops
<1>3. TypeOK'
  <2>1. phase' \in Phases /\ abort' \in BOOLEAN /\ planComplete' \in BOOLEAN
          /\ forced' \in BOOLEAN
    BY <1>2 DEF Inv, TypeOK, Phases
  <2>2. fingerprint' \in Fingerprints
    <3>1. Codes \in Errors \cup {"none"}
      BY DEF Codes
    <3> QED BY <1>1, <3>1 DEF ProgressFingerprint, Fingerprints, Inv, TypeOK, Work
  <2>3. stuckCycles' \in 0..(StuckLimit - 1)
    BY <1>1, BoundsAssumption DEF Inv, TypeOK
  <2>4. node' \in Nodes
    BY <1>1 DEF RouteAfterTools, Nodes
  <2> QED BY <1>1, <2>1, <2>2, <2>3, <2>4 DEF Inv, TypeOK
<1>4. BatchFits' /\ DataCoheres'
  BY <1>1 DEF Inv, BatchFits, DataCoheres
<1>5. BudgetAborts' /\ SettledInWrapUp'
  BY <1>1, <1>2 DEF Inv, BudgetAborts, SettledInWrapUp, TypeOK
<1>6. PassedIsCurrent' /\ CompletionIsJustified'
  BY <1>1, <1>2 DEF Inv, PassedIsCurrent, CompletionIsJustified
<1>7. ReplanIsEarned' /\ ValidateHasSchedule'
  BY <1>1, <1>2 DEF Inv, ReplanIsEarned, ValidateHasSchedule, DataCoheres
<1>8. LateNodes'
  <2>1. phase' = "WRAP_UP" => abort' \/ work'.schedule
    BY <1>1, <1>2 DEF Inv, LateNodes, ValidateHasSchedule
  <2> QED BY <1>1, <2>1 DEF LateNodes, RouteAfterTools
<1> QED BY <1>3, <1>4, <1>5, <1>6, <1>7, <1>8 DEF Inv

\* A batch queued below the budget overshoots it by less than its length.
LEMMA OneBelow ==
  ASSUME NEW a \in Int, NEW b \in Int, NEW m \in Int, NEW k \in Int, a < m, b <= k
  PROVE  a + b <= m + k - 1
OBVIOUS

LEMMA InitEstablishes == Init => Inv
<1> SUFFICES ASSUME Init PROVE Inv
  OBVIOUS
<1>1. TypeOK
  <2>1. work \in Work
    BY BoundsAssumption DEF Init, Work, Verdicts
  <2>2. fingerprint \in Fingerprints
    BY DEF Init, Fingerprints
  <2>3. /\ pending \in 0..MaxBatch /\ toolLoop \in 0..(MaxToolCalls + MaxBatch - 1)
        /\ replans \in 0..MaxReplan /\ stuckCycles \in 0..(StuckLimit - 1)
    BY BoundsAssumption DEF Init
  <2> QED BY <2>1, <2>2, <2>3 DEF Init, TypeOK, Nodes, Phases
<1>2. BatchFits
  BY BoundsAssumption DEF Init, BatchFits
<1>3. BudgetAborts
  BY BoundsAssumption DEF Init, BudgetAborts
<1> QED BY <1>1, <1>2, <1>3 DEF Init, Inv, DataCoheres, LateNodes, SettledInWrapUp, PassedIsCurrent,
           CompletionIsJustified, ReplanIsEarned, ValidateHasSchedule

\* Every step of the graph preserves the invariant.
LEMMA NextPreserves == Inv /\ [Next]_vars => Inv'
<1> SUFFICES ASSUME Inv, [Next]_vars PROVE Inv'
  OBVIOUS
<1> USE DEF Inv, TypeOK, BatchFits, DataCoheres, LateNodes, BudgetAborts, SettledInWrapUp, PassedIsCurrent,
        CompletionIsJustified, ReplanIsEarned, ValidateHasSchedule
<1>1. CASE ParsePreferences
  BY <1>1 DEF ParsePreferences, Nodes, flags, stuck
<1>2. CASE AgentOutOfBudget
  <2>1. /\ node' = "tool_executor" /\ pending' = 0 /\ byDefault' = FALSE
        /\ phase' = "WRAP_UP" /\ abort' = TRUE
        /\ UNCHANGED <<toolLoop, replans, planComplete, clarify, work>>
        /\ UNCHANGED <<fingerprint, stuckCycles, forced>>
    BY <1>2 DEF BudgetSpent, AgentOutOfBudget, stuck
  <2>2. phase = "WRAP_UP" /\ 0 \in 0..MaxBatch
    BY <1>2, BoundsAssumption DEF BudgetSpent, AgentOutOfBudget
  <2>3. TypeOK'
    BY <2>1, <2>2 DEF Nodes, Phases
  <2>4. BatchFits'
    BY <2>1, BoundsAssumption
  <2>5. DataCoheres' /\ LateNodes' /\ BudgetAborts' /\ SettledInWrapUp' /\ PassedIsCurrent'
          /\ CompletionIsJustified' /\ ReplanIsEarned' /\ ValidateHasSchedule'
    BY <2>1, <2>2
  <2> QED BY <2>3, <2>4, <2>5
<1>3. CASE AgentProposes
  <2>1. /\ node' = "tool_executor" /\ pending' \in 1..MaxBatch /\ byDefault' \in BOOLEAN
        /\ toolLoop < MaxToolCalls
        /\ UNCHANGED <<toolLoop, phase, replans, abort, planComplete, clarify, work>>
        /\ UNCHANGED <<fingerprint, stuckCycles, forced>>
    BY <1>3, BudgetNotSpent DEF AgentProposes, flags, stuck
  <2>2. TypeOK'
    BY <2>1, BoundsAssumption DEF Nodes
  <2>3. BatchFits'
    <3>1. /\ toolLoop \in Int /\ pending' \in Int /\ MaxToolCalls \in Int /\ MaxBatch \in Int
          /\ toolLoop < MaxToolCalls /\ pending' <= MaxBatch
      BY <2>1, BoundsAssumption
    <3> QED BY <2>1, <3>1, OneBelow
  <2>4. DataCoheres' /\ LateNodes' /\ BudgetAborts' /\ SettledInWrapUp' /\ PassedIsCurrent'
          /\ CompletionIsJustified' /\ ReplanIsEarned' /\ ValidateHasSchedule'
    BY <2>1
  <2> QED BY <2>2, <2>3, <2>4
<1>4. CASE AgentSynthesizes
  <2>1. /\ node' = "tool_executor" /\ pending' \in 1..MaxBatch /\ byDefault' \in BOOLEAN
        /\ toolLoop < MaxToolCalls
        /\ UNCHANGED <<toolLoop, phase, replans, abort, planComplete, clarify, work>>
        /\ UNCHANGED <<fingerprint, stuckCycles, forced>>
    BY <1>4, BudgetNotSpent, BoundsAssumption DEF AgentSynthesizes, flags, stuck
  <2>2. TypeOK'
    BY <2>1, BoundsAssumption DEF Nodes
  <2>3. BatchFits'
    <3>1. /\ toolLoop \in Int /\ pending' \in Int /\ MaxToolCalls \in Int /\ MaxBatch \in Int
          /\ toolLoop < MaxToolCalls /\ pending' <= MaxBatch
      BY <2>1, BoundsAssumption
    <3> QED BY <2>1, <3>1, OneBelow
  <2>4. DataCoheres' /\ LateNodes' /\ BudgetAborts' /\ SettledInWrapUp' /\ PassedIsCurrent'
          /\ CompletionIsJustified' /\ ReplanIsEarned' /\ ValidateHasSchedule'
    BY <2>1
  <2> QED BY <2>2, <2>3, <2>4
<1>5. CASE \E t \in (IF byDefault THEN {DefaultTool} ELSE LlmNames) : ExecuteCall(t)
  BY <1>5, DispatchedNames, ExecuteCallPreserves
<1>6. CASE FinishBatch
  BY <1>6, FinishBatchPreserves
<1>7. CASE WriteNarrative
  BY <1>7 DEF WriteNarrative, Nodes, flags, stuck
<1>8. CASE RecordEvaluation
  BY <1>8 DEF RecordEvaluation, Nodes, flags, stuck
<1>9. CASE UNCHANGED vars
  BY <1>9 DEF vars, flags, stuck
<1> QED BY <1>1, <1>2, <1>3, <1>4, <1>5, <1>6, <1>7, <1>8, <1>9 DEF Next

(***************************************************************************)
(* Safety of the loop                                                      *)
(***************************************************************************)
\* The invariant holds in every reachable state of the agent loop.
THEOREM Invariance == Spec => []Inv
<1>1. Init => Inv
  BY InitEstablishes
<1>2. Inv /\ [Next]_vars => Inv'
  BY NextPreserves
<1> QED BY <1>1, <1>2, PTL DEF Spec

\* Type correctness: every variable keeps its type, and the counters their bounds.
THEOREM TypeCorrect == Spec => []TypeOK
<1>1. Inv => TypeOK
  BY DEF Inv
<1> QED BY <1>1, Invariance, PTL

\* An exhausted tool budget leaves the plan aborted in WRAP_UP, for good.
THEOREM BudgetIsEnforced == Spec => []BudgetAborts
<1>1. Inv => BudgetAborts
  BY DEF Inv
<1> QED BY <1>1, Invariance, PTL

\* A complete or aborted plan is in WRAP_UP: no later call resumes planning.
THEOREM SettledForGood == Spec => []SettledInWrapUp
<1>1. Inv => SettledInWrapUp
  BY DEF Inv
<1> QED BY <1>1, Invariance, PTL

\* A passing verdict is about the route and the schedule the plan still has.
THEOREM VerdictsAreCurrent == Spec => []PassedIsCurrent
<1>1. Inv => PassedIsCurrent
  BY DEF Inv
<1> QED BY <1>1, Invariance, PTL

\* A plan completes aborted, validated as it is, or forced by the stuck detector.
THEOREM CompletionsAreJustified == Spec => []CompletionIsJustified
<1>1. Inv => CompletionIsJustified
  BY DEF Inv
<1> QED BY <1>1, Invariance, PTL

\* Repairs are entered on a failed validation, on a paid attempt.
THEOREM RepairsAreEarned == Spec => []ReplanIsEarned
<1>1. Inv => ReplanIsEarned
  BY DEF Inv
<1> QED BY <1>1, Invariance, PTL

\* Whatever moved the phase to VALIDATE, there is a schedule to validate.
THEOREM SchedulesReachValidation == Spec => []ValidateHasSchedule
<1>1. Inv => ValidateHasSchedule
  BY DEF Inv
<1> QED BY <1>1, Invariance, PTL

\* What the graph hands to the code around it is a question or a complete plan,
\* with stops to save unless it was aborted.
THEOREM EndsAreFinal == Spec => []EndsInFinal
<1>1. Inv => EndsInFinal
  <2> SUFFICES ASSUME Inv, node = "end" PROVE Outcome \in GraphFinals
    BY DEF EndsInFinal
  <2>1. Outcome \in Outcomes
    BY DEF Inv, TypeOK, Work, Outcome, Outcomes
  <2>2. planComplete \/ clarify
    BY DEF Inv, LateNodes
  <2>3. planComplete /\ ~abort => work.schedule
    BY DEF Inv, LateNodes, SettledInWrapUp
  <2> QED BY <2>1, <2>2, <2>3 DEF Outcome, GraphFinals
<1> QED BY <1>1, Invariance, PTL

(***************************************************************************)
(* The loop implements the safety part of PhaseContract                    *)
(***************************************************************************)
\* The transition table takes one edge of the phase machine, or none.
TableEdge(t, ok, next) ==
  \/ next.abort /\ next.phase = "WRAP_UP" /\ next.replans = replans
  \/ /\ ~next.abort
     /\ \/ next.phase = phase /\ next.replans = replans
        \/ <<phase, next.phase>> \in Contract!Forward /\ next.replans = replans
        \/ /\ phase = "VALIDATE" /\ next.phase = "REPLAN"
           /\ replans < MaxReplan /\ next.replans = replans + 1
        \/ /\ phase = "REPLAN" /\ next.phase = "WRAP_UP" /\ next.replans = replans
           /\ t = "accept_partial" /\ ok

LEMMA TransitionTakesAnEdge ==
  ASSUME TypeOK, NEW t \in Registry \cup {"unknown"}, NEW ok \in BOOLEAN, NEW n \in Nat
  PROVE  TableEdge(t, ok, Transition(t, ok, n))
<1> USE DEF TableEdge, Contract!Forward
<1>1. phase \in {"DISCOVER", "PLAN", "VALIDATE", "REPLAN", "WRAP_UP"} /\ replans \in 0..MaxReplan
  BY DEF TypeOK, Phases
<1>2. CASE n >= MaxToolCalls
  BY <1>1, <1>2 DEF Transition, BudgetSpent, RepairsLeft, Step
<1>3. CASE ~(n >= MaxToolCalls) /\ phase = "DISCOVER"
  BY <1>1, <1>3 DEF Transition, BudgetSpent, RepairsLeft, Step
<1>4. CASE ~(n >= MaxToolCalls) /\ phase = "PLAN"
  BY <1>1, <1>4 DEF Transition, BudgetSpent, RepairsLeft, Step
<1>5. CASE ~(n >= MaxToolCalls) /\ phase = "VALIDATE"
  BY <1>1, <1>5 DEF Transition, BudgetSpent, RepairsLeft, Step
<1>6. CASE ~(n >= MaxToolCalls) /\ phase = "REPLAN"
  BY <1>1, <1>6 DEF Transition, BudgetSpent, RepairsLeft, Step
<1>7. CASE ~(n >= MaxToolCalls) /\ phase = "WRAP_UP"
  BY <1>1, <1>7 DEF Transition, BudgetSpent, RepairsLeft, Step
<1> QED BY <1>1, <1>2, <1>3, <1>4, <1>5, <1>6, <1>7

\* A call of the batch: the contract's phase takes the table's edge.
LEMMA ExecuteCallRefines ==
  ASSUME Inv, NEW t \in Registry \cup {"unknown"}, ExecuteCall(t)
  PROVE  Contract!Next
<1>1. PICK r \in ExecuteTool(t) :
        /\ toolLoop' = IF t \in Registry THEN toolLoop + 1 ELSE toolLoop
        /\ phase' = Transition(t, r.ok, toolLoop').phase
        /\ replans' = Transition(t, r.ok, toolLoop').replans
        /\ abort' = (abort \/ (t \in Registry /\ r.ok /\ t = "accept_partial")
                           \/ Transition(t, r.ok, toolLoop').abort)
  BY DEF ExecuteCall, ApplyToolResult, CountedCalls
<1> DEFINE next == Transition(t, r.ok, toolLoop')
<1>2. ToolEffect(t, r)
  BY ExecuteToolFacts
<1>3. TypeOK /\ toolLoop' \in Nat /\ r.ok \in BOOLEAN
  BY <1>1, <1>2, BoundsAssumption DEF Inv, TypeOK, ToolEffect
<1>4. TableEdge(t, r.ok, next) /\ TableEffect(t, r.ok, toolLoop', next)
  BY <1>3, TransitionTakesAnEdge, TransitionFacts
<1>5. phase' = next.phase /\ replans' = next.replans
        /\ abort' = (abort \/ (t \in Registry /\ r.ok /\ t = "accept_partial") \/ next.abort)
  BY <1>1
<1>6. t = "accept_partial" /\ r.ok => phase = "REPLAN"
  BY <1>2, <1>3 DEF ToolEffect, PhaseTools, TypeOK, Phases
<1>7. status = "running" /\ status' = "running"
  BY DEF ExecuteCall, ApplyToolResult, CountedCalls, status
<1> HIDE DEF next
<1>8. CASE t = "accept_partial" /\ r.ok
  <2>1. phase' = "WRAP_UP" /\ replans' = replans
    BY <1>4, <1>5, <1>6, <1>8 DEF TableEffect
  <2>2. abort' = TRUE
    BY <1>4, <1>5, <1>6, <1>8 DEF TableEffect, Registry, PhaseTools, Phases
  <2> QED BY <1>7, <2>1, <2>2 DEF Contract!Next, Contract!Abort
<1>9. CASE ~(t = "accept_partial" /\ r.ok)
  <2>1. abort' = (abort \/ next.abort) /\ abort \in BOOLEAN /\ next.abort \in BOOLEAN
    BY <1>3, <1>4, <1>5, <1>9 DEF TypeOK, TableEffect
  <2> QED BY <1>4, <1>5, <1>7, <1>9, <2>1
          DEF TableEdge, Contract!Next, Contract!Stay, Contract!Advance, Contract!Repair,
              Contract!Abort
<1> QED BY <1>8, <1>9

\* The end of a batch: an edge the stuck detector takes, and perhaps the end.
LEMMA FinishBatchRefines ==
  ASSUME Inv, Inv', FinishBatch
  PROVE  Contract!Next
<1>1. status = "running"
  BY DEF FinishBatch, status
<1>2. \/ status' = "running"
      \/ status' = "clarified"
      \/ status' = "completed" /\ phase' = "WRAP_UP"
  <2>1. node' = RouteAfterTools
    BY DEF FinishBatch
  <2> QED BY <2>1 DEF RouteAfterTools, status, Inv, SettledInWrapUp
<1>3. Contract!Stay \/ Contract!Advance \/ Contract!Repair \/ Contract!Abort
  <2>1. \/ UNCHANGED <<phase, abort>>
        \/ AdvanceStuckPhase
    BY DEF FinishBatch, RunStuckDetector, StuckCyclesNow
  <2>2. replans' = replans
    BY DEF FinishBatch
  <2> QED BY <2>1, <2>2
          DEF AdvanceStuckPhase, HasStops, Contract!Stay, Contract!Advance, Contract!Abort, Contract!Forward
<1> QED BY <1>1, <1>2, <1>3 DEF Contract!Next

\* Initial states and steps of the loop are those of the phase machine.
THEOREM LoopImplementsContract == Spec => Contract!Init /\ [][Contract!Next]_(Contract!vars)
<1>1. Init => Contract!Init
  BY DEF Init, Contract!Init, status
<1>2. Inv /\ Inv' /\ [Next]_vars => [Contract!Next]_(Contract!vars)
  <2> SUFFICES ASSUME Inv, Inv', [Next]_vars PROVE [Contract!Next]_(Contract!vars)
    OBVIOUS
  <2>1. CASE ParsePreferences \/ AgentProposes \/ AgentSynthesizes
    BY <2>1 DEF ParsePreferences, AgentProposes, AgentSynthesizes, flags, status, Contract!vars
  <2>2. CASE AgentOutOfBudget
    <3>1. abort = TRUE /\ phase = "WRAP_UP"
      BY <2>2 DEF BudgetSpent, AgentOutOfBudget, Inv, BudgetAborts, TypeOK
    <3> QED BY <2>2, <3>1 DEF BudgetSpent, AgentOutOfBudget, status, Contract!vars
  <2>3. CASE \E t \in (IF byDefault THEN {DefaultTool} ELSE LlmNames) : ExecuteCall(t)
    <3>1. TypeOK
      BY DEF Inv
    <3> QED BY <2>3, <3>1, DispatchedNames, ExecuteCallRefines
  <2>4. CASE FinishBatch
    BY <2>4, FinishBatchRefines
  <2>5. CASE WriteNarrative \/ RecordEvaluation
    BY <2>5 DEF WriteNarrative, RecordEvaluation, flags, status, Contract!vars
  <2>6. CASE UNCHANGED vars
    BY <2>6 DEF vars, flags, status, Contract!vars
  <2> QED BY <2>1, <2>2, <2>3, <2>4, <2>5, <2>6 DEF Next
<1> QED BY <1>1, <1>2, Invariance, PTL DEF Spec
=============================================================================
