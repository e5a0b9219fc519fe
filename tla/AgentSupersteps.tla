--------------------------- MODULE AgentSupersteps ---------------------------
(***************************************************************************)
(* AgentLoop with the supersteps LangGraph counts: one for every node it   *)
(* runs.  planner/service.py allows _recursion_limit of them and gives the *)
(* generation up beyond that.  The loop itself has no counter of cycles:   *)
(* a name that is not in the registry is not counted, so how long the loop *)
(* can run follows from the tool budget and the stuck detector together.   *)
(***************************************************************************)
EXTENDS AgentLoop

VARIABLES
  steps,       \* supersteps so far
  moved,       \* history: a call of this batch was counted, or moved the phase
  sawUnknown   \* history: some call was not counted

superVars == <<vars, steps, moved, sawUnknown>>

STypeOK ==
  /\ steps \in Nat
  /\ moved \in BOOLEAN
  /\ sawUnknown \in BOOLEAN

\* _recursion_limit: StuckPhaseHops and GraphBookendSteps are the constants of
\* planner/service.py.
StuckPhaseHops == 4
GraphBookendSteps == 4
RecursionLimit == MaxToolCalls * 2 + StuckLimit * StuckPhaseHops * 2 + GraphBookendSteps

SInit == Init /\ steps = 0 /\ moved = FALSE /\ sawUnknown = FALSE

\* The cycles that the three limits leave to a generation, see Potential.
MaxCycles ==
  StuckLimit * 5 + (2 * StuckLimit) * MaxReplan + (StuckLimit - 1) * MaxToolCalls

\* Bound: steps is counted up to one more than StepsBounded allows.
StepsCap == 2 * MaxCycles + 4

\* A node runs in one superstep, and every edge of the graph leads to another node.
CountSuperstep ==
  /\ steps' = IF node' # node /\ steps < StepsCap THEN steps + 1 ELSE steps
  /\ moved' = (node' = "tool_executor" /\ (moved \/ toolLoop' # toolLoop \/ phase' # phase))
  /\ sawUnknown' = (sawUnknown \/ (pending' < pending /\ toolLoop' = toolLoop))

SNext == Next /\ CountSuperstep

SSpec == SInit /\ [][SNext]_superVars

\* As in AgentLoop: asyncio runs the graph to its end.
FairSSpec == SSpec /\ WF_superVars(SNext)

(***************************************************************************)
(* The potential: supersteps that can still follow, in cycles of two,      *)
(* MaxCycles at first.  A cycle without a counted call moves the stuck     *)
(* detector one step closer to leaving the phase; a counted call spends    *)
(* budget and may start it over; a repair sends the plan back, at the      *)
(* price of an attempt.                                                    *)
(***************************************************************************)
PhaseWeight == [DISCOVER |-> 4, PLAN |-> 3, VALIDATE |-> 2, REPLAN |-> 4, WRAP_UP |-> 1]

BudgetLeft == IF toolLoop >= MaxToolCalls THEN 0 ELSE MaxToolCalls - toolLoop

Potential ==
  StuckLimit * PhaseWeight[phase] + (2 * StuckLimit) * (MaxReplan - replans)
    + (StuckLimit - 1) * BudgetLeft + (IF moved THEN StuckLimit ELSE StuckLimit - stuckCycles)

(***************************************************************************)
(* Properties                                                              *)
(***************************************************************************)
\* Every superstep is paid for by the potential.
PotentialPays ==
  /\ node = "parse_preferences" => steps + 2 * Potential <= 2 * MaxCycles
  /\ node = "agent" => steps + 2 * Potential <= 2 * MaxCycles + 1
  /\ node = "tool_executor" => steps + 2 * Potential <= 2 * MaxCycles + 2
  /\ node = "write_narrative" => steps <= 2 * MaxCycles + 1
  /\ node = "record_evaluation" => steps <= 2 * MaxCycles + 2
  /\ node = "end" => steps <= 2 * MaxCycles + 3

\* The stuck detector's memory is current: as long as no call of this batch was
\* counted or moved the phase, the progress it remembers is the progress of now.
FingerprintIsCurrent ==
  node \in {"parse_preferences", "agent", "tool_executor"} /\ stuckCycles > 0 /\ ~moved
    => fingerprint = ProgressFingerprint

\* A batch is queued while there is budget: beyond it, some call was counted.
OvershootIsCounted ==
  /\ pending > 0 /\ toolLoop >= MaxToolCalls => moved
  /\ moved => node = "tool_executor"

\* Bounded run (run_stuck_detector, apply_tool_result): the graph ends within a
\* number of supersteps fixed by the three limits, also when the model proposes
\* nothing but names that are never counted.
StepsBounded == steps <= 2 * MaxCycles + 3

\* The inductive invariant behind StepsBounded.
SInv == Inv /\ STypeOK /\ PotentialPays /\ FingerprintIsCurrent /\ OvershootIsCounted

\* A model that keeps to registered names is stopped by the tool budget: one
\* cycle per counted call, then the stuck detector in WRAP_UP.
RegisteredNamesSuffice == ~sawUnknown => steps <= 2 * (MaxToolCalls + StuckLimit) + 3

\* The cycles left to such a model: each one counts a call, and once the budget
\* is spent the stuck detector counts them.
CyclesLeft ==
  BudgetLeft + (IF BudgetLeft = 0 /\ ~moved THEN StuckLimit - stuckCycles ELSE StuckLimit)

\* A batch with a counted call has paid for its cycle; one without is empty, and
\* only because there was no budget.
BudgetPays ==
  ~sawUnknown =>
    LET most == 2 * (MaxToolCalls + StuckLimit)
    IN /\ node = "parse_preferences" => steps + 2 * CyclesLeft <= most
       /\ node = "agent" => steps + 2 * CyclesLeft <= most + 1
       /\ node = "tool_executor" /\ ~moved =>
            /\ steps + 2 * CyclesLeft <= most + 2
            /\ pending = 0 => BudgetLeft = 0
       /\ node = "tool_executor" /\ moved => steps + 2 * CyclesLeft <= most
       /\ node = "write_narrative" => steps <= most + 1
       /\ node = "record_evaluation" => steps <= most + 2
       /\ node = "end" => steps <= most + 3

\* The inductive invariant behind RegisteredNamesSuffice.
RInv == SInv /\ BudgetPays

\* planner/service.py on _recursion_limit: these are the steps needed.
RecursionLimitSuffices == steps <= RecursionLimit
=============================================================================
