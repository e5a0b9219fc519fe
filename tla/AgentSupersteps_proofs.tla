------------------------ MODULE AgentSupersteps_proofs ------------------------
(***************************************************************************)
(* The agent loop ends within a bounded number of supersteps, for every    *)
(* value of the limits and whatever names the language model utters.       *)
(***************************************************************************)
EXTENDS AgentSupersteps, AgentLoop_proofs

LEMMA ProductNat == ASSUME NEW a \in Nat, NEW b \in Nat PROVE a * b \in Nat
OBVIOUS

LEMMA ProductLess == ASSUME NEW a \in Int, NEW b \in Int PROVE a * (b - 1) = a * b - a
OBVIOUS

LEMMA SumLeq ==
  ASSUME NEW a \in Int, NEW b \in Int, NEW c \in Int, NEW d \in Int, a <= c, b <= d
  PROVE  a + b <= c + d
OBVIOUS

LEMMA ProductMonotone ==
  ASSUME NEW a \in Nat, NEW b \in 1..4, NEW c \in 1..4, b <= c
  PROVE  a * b <= a * c /\ a * b \in Nat /\ a * c \in Nat
<1>1. b \in {1, 2, 3, 4} /\ c \in {1, 2, 3, 4}
  OBVIOUS
<1> QED BY <1>1

\* The four parts of the potential.
PhasePart == StuckLimit * PhaseWeight[phase]
RepairPart == (2 * StuckLimit) * (MaxReplan - replans)
BudgetPart == (StuckLimit - 1) * BudgetLeft
StuckPart == IF moved THEN StuckLimit ELSE StuckLimit - stuckCycles

PartsAddUp ==
  /\ Potential = PhasePart + RepairPart + BudgetPart + StuckPart
  /\ PhasePart \in Nat /\ PhasePart >= StuckLimit
  /\ RepairPart \in Nat
  /\ BudgetPart \in Nat
  /\ StuckPart \in 1..StuckLimit
  /\ Potential \in Nat \ {0}

LEMMA Parts ==
  ASSUME Inv, STypeOK
  PROVE  PartsAddUp
<1> USE DEF PartsAddUp
<1>1. StuckLimit \in Nat \ {0} /\ MaxReplan - replans \in Nat /\ BudgetLeft \in Nat
  BY BoundsAssumption DEF Inv, TypeOK, BudgetLeft
<1>2. PhasePart \in {StuckLimit, StuckLimit * 2, StuckLimit * 3, StuckLimit * 4}
  BY <1>1 DEF PhasePart, PhaseWeight, Inv, TypeOK, Phases
<1>3. RepairPart \in Nat /\ BudgetPart \in Nat
  <2>1. 2 * StuckLimit \in Nat /\ StuckLimit - 1 \in Nat
    BY <1>1
  <2> QED BY <1>1, <2>1, ProductNat DEF RepairPart, BudgetPart
<1>4. StuckPart \in 1..StuckLimit
  BY <1>1 DEF StuckPart, Inv, TypeOK, STypeOK
<1>5. Potential = PhasePart + RepairPart + BudgetPart + StuckPart
  BY DEF Potential, PhasePart, RepairPart, BudgetPart, StuckPart
<1>6. PhasePart \in Nat /\ PhasePart >= StuckLimit
  BY <1>1, <1>2
<1> QED BY <1>1, <1>3, <1>4, <1>5, <1>6

LEMMA PartsNext == Inv' /\ STypeOK' => PartsAddUp'
<1>1. Inv /\ STypeOK => PartsAddUp
  BY Parts
<1> QED BY <1>1, PTL

\* The potential of the initial state is the number of cycles it allows.
LEMMA InitialPotential == SInit => SInv
<1> SUFFICES ASSUME SInit PROVE SInv
  OBVIOUS
<1>1. Inv
  BY InitEstablishes DEF SInit
<1>2. STypeOK
  BY DEF SInit, STypeOK
<1>3. PhasePart = StuckLimit * 4 /\ StuckPart = StuckLimit
        /\ RepairPart = (2 * StuckLimit) * MaxReplan
        /\ BudgetPart = (StuckLimit - 1) * MaxToolCalls
  BY BoundsAssumption
     DEF SInit, Init, PhasePart, PhaseWeight, StuckPart, RepairPart, BudgetPart, BudgetLeft
<1>4. Potential = MaxCycles
  <2>1. StuckLimit \in Nat /\ (2 * StuckLimit) * MaxReplan \in Nat
          /\ (StuckLimit - 1) * MaxToolCalls \in Int
    BY BoundsAssumption, ProductNat
  <2> QED BY <1>1, <1>2, <1>3, <2>1, Parts DEF MaxCycles, PartsAddUp
<1>5. PotentialPays
  <2>1. Potential \in Nat
    BY <1>1, <1>2, Parts DEF PartsAddUp
  <2> QED BY <1>4, <2>1 DEF SInit, Init, PotentialPays
<1>6. FingerprintIsCurrent /\ OvershootIsCounted
  BY DEF SInit, Init, FingerprintIsCurrent, OvershootIsCounted
<1> QED BY <1>1, <1>2, <1>5, <1>6 DEF SInv

(***************************************************************************)
(* Steps                                                                   *)
(***************************************************************************)
\* StepsCap is out of reach: a node that runs is counted.
LEMMA OneSuperstep ==
  ASSUME SInv, CountSuperstep, node # "end", node' # node
  PROVE  steps \in Nat /\ steps' = steps + 1
<1>1. Potential \in Nat /\ steps \in Nat /\ MaxCycles \in Int /\ node \in Nodes
  BY Parts, BoundsAssumption DEF SInv, STypeOK, PartsAddUp, MaxCycles, Inv, TypeOK
<1> DEFINE p == Potential
           m == MaxCycles
<1>2. \/ steps + 2 * p <= 2 * m + 2
      \/ steps + 2 * p <= 2 * m + 1
      \/ steps + 2 * p <= 2 * m
      \/ steps <= 2 * m + 1
      \/ steps <= 2 * m + 2
  BY <1>1 DEF SInv, PotentialPays, Nodes
<1>3. steps < 2 * m + 4
  <2> HIDE DEF p, m
  <2>1. p \in Nat /\ m \in Int /\ steps \in Nat
    BY <1>1 DEF p, m
  <2> QED BY <1>2, <2>1
<1> QED BY <1>1, <1>3 DEF CountSuperstep, StepsCap

\* Nodes other than the executor move the graph on and pay one superstep.
LEMMA QuietStep ==
  ASSUME SInv, Inv', STypeOK', CountSuperstep,
         UNCHANGED <<phase, replans, toolLoop, work, fingerprint, stuckCycles>>,
         \/ node = "parse_preferences" /\ node' = "agent"
         \/ node = "agent" /\ node' = "tool_executor"
         \/ node = "write_narrative" /\ node' = "record_evaluation"
         \/ node = "record_evaluation" /\ node' = "end"
  PROVE  PotentialPays' /\ FingerprintIsCurrent'
<1>1. ~moved /\ ~moved' /\ steps \in Nat /\ steps' = steps + 1
  BY OneSuperstep DEF CountSuperstep, SInv, OvershootIsCounted
<1>2. Potential' = Potential
  BY <1>1 DEF Potential, BudgetLeft
<1>3. Potential \in Nat /\ MaxCycles \in Nat
  <2>1. Potential \in Nat
    BY Parts DEF SInv, PartsAddUp
  <2>2. (2 * StuckLimit) * MaxReplan \in Nat /\ (StuckLimit - 1) * MaxToolCalls \in Nat
    BY BoundsAssumption, ProductNat
  <2> QED BY <2>1, <2>2, BoundsAssumption DEF MaxCycles
<1>4. PotentialPays'
  <2>1. MaxCycles' = MaxCycles
    BY DEF MaxCycles
  <2> QED BY <1>1, <1>2, <1>3, <2>1 DEF SInv, PotentialPays
<1>5. FingerprintIsCurrent'
  BY <1>1 DEF SInv, FingerprintIsCurrent, ProgressFingerprint, Codes
<1> QED BY <1>4, <1>5

\* The call of a name that is in no registry changes nothing, unless it makes
\* maybe_transition_phase give REPLAN up.
LEMMA UnknownCall ==
  ASSUME Inv, ExecuteCall("unknown")
  PROVE  /\ toolLoop' = toolLoop /\ work' = work /\ replans' = replans
         /\ phase' = phase \/ (phase # "WRAP_UP" /\ phase' = "WRAP_UP")
<1>1. "unknown" \notin Registry
  BY DEF Registry, Phases, PhaseTools
<1>2. ~Allowed("unknown")
  BY DEF Allowed, PhaseTools, Inv, TypeOK, Phases
<1>3. /\ toolLoop' = toolLoop /\ work' = work
      /\ phase' = Transition("unknown", FALSE, toolLoop).phase
      /\ replans' = Transition("unknown", FALSE, toolLoop).replans
  <2>1. PICK r \in ExecuteTool("unknown") :
          /\ toolLoop' = toolLoop /\ work' = r.work
          /\ phase' = Transition("unknown", r.ok, toolLoop).phase
          /\ replans' = Transition("unknown", r.ok, toolLoop).replans
    BY <1>1 DEF ExecuteCall, ApplyToolResult, CountedCalls
  <2>2. r = [ok |-> FALSE, work |-> work]
    BY <1>2, <2>1 DEF ExecuteTool, Result
  <2>3. r.ok = FALSE /\ r.work = work
    BY <2>2
  <2> QED BY <2>1, <2>3
<1>4. phase \in {"DISCOVER", "PLAN", "VALIDATE", "REPLAN", "WRAP_UP"}
  BY DEF Inv, TypeOK, Phases
<1>5. "unknown" # "accept_partial" /\ "unknown" \notin RepairTools
  BY DEF RepairTools, PhaseTools
<1>6. CASE toolLoop >= MaxToolCalls
  BY <1>3, <1>6 DEF Transition, BudgetSpent, RepairsLeft, Step, Inv, BudgetAborts
<1>7. CASE ~(toolLoop >= MaxToolCalls) /\ phase = "REPLAN"
  BY <1>3, <1>5, <1>7 DEF Transition, BudgetSpent, RepairsLeft, Step
<1>8. CASE ~(toolLoop >= MaxToolCalls) /\ phase # "REPLAN"
  BY <1>3, <1>4, <1>8 DEF Transition, BudgetSpent, RepairsLeft, Step
<1> QED BY <1>3, <1>6, <1>7, <1>8

\* A counted call takes an edge that the phases and the repairs left can pay for,
\* and a unit of the budget if there is one.
LEMMA CountedCall ==
  ASSUME Inv, Inv', STypeOK, STypeOK', NEW t \in Registry, ExecuteCall(t)
  PROVE  /\ PhasePart' + RepairPart' <= PhasePart + RepairPart
         /\ toolLoop' = toolLoop + 1
         /\ toolLoop < MaxToolCalls => BudgetPart' = BudgetPart - (StuckLimit - 1)
         /\ toolLoop >= MaxToolCalls => BudgetPart' = BudgetPart
<1>1. PICK r \in ExecuteTool(t) :
        /\ toolLoop' = toolLoop + 1
        /\ phase' = Transition(t, r.ok, toolLoop + 1).phase
        /\ replans' = Transition(t, r.ok, toolLoop + 1).replans
  BY DEF ExecuteCall, ApplyToolResult, CountedCalls
<1>2. TableEdge(t, r.ok, Transition(t, r.ok, toolLoop + 1))
  <2>1. r.ok \in BOOLEAN
    BY ExecuteToolFacts DEF ToolEffect
  <2>2. TypeOK /\ toolLoop + 1 \in Nat
    BY BoundsAssumption DEF Inv, TypeOK
  <2> QED BY <2>1, <2>2, TransitionTakesAnEdge
<1>3. \/ replans' = replans /\ PhaseWeight[phase'] <= PhaseWeight[phase]
      \/ phase = "VALIDATE" /\ phase' = "REPLAN" /\ replans' = replans + 1
  <2>1. phase \in {"DISCOVER", "PLAN", "VALIDATE", "REPLAN", "WRAP_UP"}
    BY DEF Inv, TypeOK, Phases
  <2> QED BY <1>1, <1>2, <2>1 DEF TableEdge, Contract!Forward, PhaseWeight
<1>4. PhasePart' + RepairPart' <= PhasePart + RepairPart
  <2>1. StuckLimit \in Nat /\ MaxReplan \in Nat /\ replans \in Nat /\ phase \in Phases
          /\ phase' \in Phases
    BY BoundsAssumption DEF Inv, TypeOK
  <2>2. CASE replans' = replans /\ PhaseWeight[phase'] <= PhaseWeight[phase]
    <3>1. RepairPart' = RepairPart /\ RepairPart \in Nat
      BY <2>2, Parts DEF RepairPart, PartsAddUp
    <3>2. PhasePart' <= PhasePart /\ PhasePart \in Nat /\ PhasePart' \in Nat
      <4>1. PhaseWeight[phase] \in 1..4 /\ PhaseWeight[phase'] \in 1..4
        BY <2>1 DEF PhaseWeight, Phases
      <4>2. PhasePart = StuckLimit * PhaseWeight[phase]
              /\ PhasePart' = StuckLimit * PhaseWeight[phase']
        BY DEF PhasePart, PhaseWeight
      <4> DEFINE before == PhaseWeight[phase]
                 after == PhaseWeight[phase']
      <4>3. StuckLimit \in Nat /\ before \in 1..4 /\ after \in 1..4 /\ after <= before
        BY <2>1, <2>2, <4>1
      <4> HIDE DEF before, after
      <4>4. StuckLimit * after <= StuckLimit * before
              /\ StuckLimit * after \in Nat /\ StuckLimit * before \in Nat
        BY <4>3, ProductMonotone
      <4> QED BY <4>2, <4>4 DEF before, after
    <3>3. PhasePart' \in Int /\ PhasePart \in Int /\ RepairPart' \in Int /\ RepairPart \in Int
      BY <3>1, <3>2
    <3> DEFINE a == PhasePart'
               b == RepairPart'
               c == PhasePart
               d == RepairPart
    <3>4. a \in Int /\ b \in Int /\ c \in Int /\ d \in Int /\ a <= c /\ b <= d
      BY <3>1, <3>2, <3>3
    <3> HIDE DEF a, b, c, d
    <3>5. a + b <= c + d
      BY <3>4, SumLeq
    <3> QED BY <3>5 DEF a, b, c, d
  <2>3. CASE phase = "VALIDATE" /\ phase' = "REPLAN" /\ replans' = replans + 1
    <3>1. PhasePart = StuckLimit * 2 /\ PhasePart' = StuckLimit * 4
      BY <2>3 DEF PhasePart, PhaseWeight
    <3>2. RepairPart' = (2 * StuckLimit) * ((MaxReplan - replans) - 1)
      BY <2>1, <2>3 DEF RepairPart
    <3>3. RepairPart' = RepairPart - 2 * StuckLimit
      BY <2>1, <3>2, ProductLess DEF RepairPart
    <3>4. RepairPart \in Nat
      BY Parts DEF PartsAddUp
    <3> QED BY <2>1, <3>1, <3>3, <3>4
  <2> QED BY <1>3, <2>2, <2>3
<1>5. toolLoop < MaxToolCalls => BudgetPart' = BudgetPart - (StuckLimit - 1)
  <2> SUFFICES ASSUME toolLoop < MaxToolCalls
               PROVE  BudgetPart' = BudgetPart - (StuckLimit - 1)
    OBVIOUS
  <2>1. BudgetLeft \in Int /\ StuckLimit - 1 \in Int /\ BudgetLeft' = BudgetLeft - 1
    BY <1>1, BoundsAssumption DEF Inv, TypeOK, BudgetLeft
  <2> QED BY <2>1, ProductLess DEF BudgetPart
<1>6. toolLoop >= MaxToolCalls => BudgetPart' = BudgetPart
  BY <1>1, BoundsAssumption DEF Inv, TypeOK, BudgetLeft, BudgetPart
<1> QED BY <1>1, <1>4, <1>5, <1>6

\* No call of a batch increases the potential.
LEMMA ExecuteCallPays ==
  ASSUME SInv, Inv', STypeOK', NEW t \in Registry \cup {"unknown"}, ExecuteCall(t),
         CountSuperstep
  PROVE  Potential' <= Potential /\ FingerprintIsCurrent' /\ OvershootIsCounted'
<1>1. /\ node = "tool_executor" /\ node' = "tool_executor"
      /\ pending > 0
      /\ fingerprint' = fingerprint /\ stuckCycles' = stuckCycles
      /\ moved \in BOOLEAN
      /\ moved' = (moved \/ toolLoop' # toolLoop \/ phase' # phase)
  BY DEF ExecuteCall, ApplyToolResult, CountedCalls, stuck, CountSuperstep, SInv, STypeOK
<1> DEFINE a == PhasePart
           b == RepairPart
           c == BudgetPart
           d == StuckPart
           pa == PhasePart'
           pb == RepairPart'
           pc == BudgetPart'
           pd == StuckPart'
<1>2. /\ a \in Nat /\ b \in Nat /\ c \in Nat /\ d \in 1..StuckLimit
      /\ pa \in Nat /\ pb \in Nat /\ pc \in Nat /\ pd \in 1..StuckLimit
      /\ Potential = a + b + c + d /\ Potential' = pa + pb + pc + pd
  <2>1. PartsAddUp /\ PartsAddUp'
    BY Parts, PartsNext DEF SInv
  <2>2. StuckLimit' = StuckLimit
    OBVIOUS
  <2> QED BY <2>1, <2>2 DEF PartsAddUp
<1>3. StuckLimit \in Nat \ {0}
  BY BoundsAssumption
<1>4. CASE t \in Registry
  <2>1. /\ pa + pb <= a + b
        /\ toolLoop' = toolLoop + 1
        /\ toolLoop < MaxToolCalls => pc = c - (StuckLimit - 1)
        /\ toolLoop >= MaxToolCalls => pc = c
    BY <1>4, CountedCall DEF SInv
  <2>2. toolLoop \in Nat /\ MaxToolCalls \in Nat
    BY BoundsAssumption DEF SInv, Inv, TypeOK
  <2>3. moved' = TRUE
    <3>1. toolLoop' # toolLoop
      BY <2>1, <2>2
    <3> QED BY <1>1, <3>1
  <2>4. pd = StuckLimit
    BY <2>3 DEF StuckPart
  <2>5. toolLoop >= MaxToolCalls => d = StuckLimit
    BY <1>1 DEF SInv, OvershootIsCounted, StuckPart
  <2> HIDE DEF a, b, c, d, pa, pb, pc, pd
  <2>6. pa + pb + pc + pd <= a + b + c + d
    <3>1. CASE toolLoop < MaxToolCalls
      BY <1>2, <1>3, <2>1, <2>4, <3>1
    <3>2. CASE toolLoop >= MaxToolCalls
      BY <1>2, <1>3, <2>1, <2>4, <2>5, <3>2
    <3> QED BY <2>2, <3>1, <3>2
  <2> QED BY <1>1, <1>2, <2>3, <2>6 DEF FingerprintIsCurrent, OvershootIsCounted
<1>5. CASE t = "unknown"
  <2>1. /\ toolLoop' = toolLoop /\ work' = work /\ replans' = replans
        /\ phase' = phase \/ (phase # "WRAP_UP" /\ phase' = "WRAP_UP")
    BY <1>5, UnknownCall DEF SInv
  <2>2. pb = b /\ pc = c
    BY <2>1 DEF RepairPart, BudgetPart, BudgetLeft
  <2>3. OvershootIsCounted'
    BY <1>1, <2>1 DEF SInv, OvershootIsCounted, ExecuteCall
  <2>4. CASE phase' = phase
    <3>1. moved' = moved /\ pa = a /\ pd = d
      BY <1>1, <2>1, <2>4 DEF PhasePart, StuckPart
    <3>2. FingerprintIsCurrent'
      BY <1>1, <2>1, <2>4, <3>1
         DEF SInv, FingerprintIsCurrent, ProgressFingerprint, Codes
    <3> HIDE DEF a, b, c, d, pa, pb, pc, pd
    <3>3. pa + pb + pc + pd <= a + b + c + d
      BY <1>2, <1>3, <2>2, <3>1
    <3> QED BY <1>2, <2>3, <3>2, <3>3
  <2>5. CASE phase # "WRAP_UP" /\ phase' = "WRAP_UP"
    <3>1. moved' = TRUE
      BY <1>1, <2>5
    <3>2. pa = StuckLimit /\ a >= 2 * StuckLimit /\ pd = StuckLimit
      <4>1. phase \in {"DISCOVER", "PLAN", "VALIDATE", "REPLAN"}
        BY <2>5 DEF SInv, Inv, TypeOK, Phases
      <4> QED BY <1>3, <2>5, <3>1, <4>1 DEF PhasePart, PhaseWeight, StuckPart
    <3>3. FingerprintIsCurrent'
      BY <3>1 DEF FingerprintIsCurrent
    <3> HIDE DEF a, b, c, d, pa, pb, pc, pd
    <3>4. pa + pb + pc + pd <= a + b + c + d
      BY <1>2, <1>3, <2>2, <3>2
    <3> QED BY <1>2, <2>3, <3>3, <3>4
  <2> QED BY <2>1, <2>4, <2>5
<1> QED BY <1>4, <1>5

\* A batch that goes back to the agent leaves less of the potential.
LEMMA FinishBatchPays ==
  ASSUME SInv, Inv', STypeOK', FinishBatch, CountSuperstep
  PROVE  (node' = "agent" => Potential' < Potential) /\ FingerprintIsCurrent'
<1>1. /\ node = "tool_executor" /\ node' = RouteAfterTools
      /\ toolLoop' = toolLoop /\ replans' = replans /\ work' = work
      /\ fingerprint' = ProgressFingerprint
  BY DEF FinishBatch, RunStuckDetector, StuckCyclesNow
<1> DEFINE cycles == IF fingerprint = ProgressFingerprint THEN stuckCycles + 1 ELSE 1
<1>2. \/ /\ stuckCycles' = cycles /\ UNCHANGED <<phase, planComplete>>
      \/ stuckCycles' = 0 /\ AdvanceStuckPhase
  BY DEF FinishBatch, RunStuckDetector, StuckCyclesNow
<1>3. moved' = FALSE
  BY <1>1 DEF CountSuperstep, RouteAfterTools
<1>4. FingerprintIsCurrent'
  <2>1. CASE stuckCycles' = 0
    BY <2>1 DEF FingerprintIsCurrent
  <2>2. CASE phase' = phase
    BY <1>1, <2>2 DEF FingerprintIsCurrent, ProgressFingerprint, Codes
  <2> QED BY <1>2, <2>1, <2>2
<1> DEFINE a == PhasePart
           b == RepairPart
           c == BudgetPart
           d == StuckPart
           pa == PhasePart'
           pb == RepairPart'
           pc == BudgetPart'
           pd == StuckPart'
<1>5. /\ a \in Nat /\ b \in Nat /\ c \in Nat /\ d \in 1..StuckLimit
      /\ pa \in Nat /\ pb \in Nat /\ pc \in Nat /\ pd \in 1..StuckLimit
      /\ Potential = a + b + c + d /\ Potential' = pa + pb + pc + pd
  <2>1. PartsAddUp /\ PartsAddUp'
    BY Parts, PartsNext DEF SInv
  <2>2. StuckLimit' = StuckLimit
    OBVIOUS
  <2> QED BY <2>1, <2>2 DEF PartsAddUp
<1>6. StuckLimit \in Nat \ {0} /\ stuckCycles \in Nat /\ moved \in BOOLEAN
  BY BoundsAssumption DEF SInv, STypeOK, Inv, TypeOK
<1>7. pb = b /\ pc = c
  BY <1>1 DEF RepairPart, BudgetPart, BudgetLeft
<1>8. pd = StuckLimit - stuckCycles'
  BY <1>3 DEF StuckPart
<1>9. ASSUME node' = "agent" PROVE Potential' < Potential
  <2>1. CASE stuckCycles' = cycles /\ UNCHANGED <<phase, planComplete>>
    <3>1. pa = a
      BY <2>1 DEF PhasePart
    <3>2. pd < d
      <4>1. CASE moved
        <5>1. d = StuckLimit /\ stuckCycles' >= 1
          BY <1>6, <2>1, <4>1 DEF StuckPart
        <5>2. stuckCycles' \in Int
          BY <1>6, <2>1
        <5> DEFINE s == stuckCycles'
        <5>3. pd = StuckLimit - s /\ s \in Int /\ s >= 1
          BY <1>8, <5>1, <5>2
        <5> HIDE DEF cycles, d, pd, s
        <5> QED BY <1>6, <5>1, <5>3
      <4>2. CASE ~moved
        <5>1. d = StuckLimit - stuckCycles
          BY <4>2 DEF StuckPart
        <5>2. stuckCycles > 0 => fingerprint = ProgressFingerprint
          BY <1>1, <4>2 DEF SInv, FingerprintIsCurrent
        <5>3. stuckCycles' = stuckCycles + 1
          BY <1>6, <2>1, <5>2
        <5> HIDE DEF cycles, d, pd
        <5> QED BY <1>6, <1>8, <5>1, <5>3
      <4> QED BY <1>6, <4>1, <4>2
    <3> HIDE DEF cycles, a, b, c, d, pa, pb, pc, pd
    <3>3. pa + pb + pc + pd < a + b + c + d
      BY <1>5, <1>6, <1>7, <3>1, <3>2
    <3> QED BY <1>5, <3>3
  <2>2. CASE stuckCycles' = 0 /\ AdvanceStuckPhase
    <3>1. phase # "WRAP_UP"
      BY <1>1, <1>9, <2>2 DEF AdvanceStuckPhase, HasStops, RouteAfterTools
    <3>2. pa + StuckLimit <= a
      BY <1>6, <2>2, <3>1 DEF AdvanceStuckPhase, HasStops, PhasePart, PhaseWeight
    <3>3. pd = StuckLimit
      BY <1>6, <1>8, <2>2
    <3> HIDE DEF cycles, a, b, c, d, pa, pb, pc, pd
    <3>4. pa + pb + pc + pd < a + b + c + d
      BY <1>5, <1>6, <1>7, <3>2, <3>3
    <3> QED BY <1>5, <3>4
  <2> QED BY <1>2, <2>1, <2>2
<1> QED BY <1>4, <1>9

\* Every step preserves the invariant.
LEMMA SNextPreserves == SInv /\ [SNext]_superVars => SInv'
<1> SUFFICES ASSUME SInv, [SNext]_superVars PROVE SInv'
  OBVIOUS
<1>1. Inv /\ [Next]_vars
  BY DEF SInv, SNext, superVars
<1>2. Inv'
  BY <1>1, NextPreserves
<1>3. CASE SNext
  <2>1. CountSuperstep
    BY <1>3 DEF SNext
  <2>2. STypeOK'
    <3>1. steps' \in Nat
      BY <2>1 DEF CountSuperstep, SInv, STypeOK
    <3>2. moved' \in BOOLEAN /\ sawUnknown' \in BOOLEAN
      BY <2>1 DEF CountSuperstep, SInv, STypeOK
    <3> QED BY <3>1, <3>2 DEF STypeOK
  <2>3. CASE ParsePreferences \/ AgentProposes \/ AgentSynthesizes \/ AgentOutOfBudget
               \/ WriteNarrative \/ RecordEvaluation
    <3>1. UNCHANGED <<phase, replans, toolLoop, work, fingerprint, stuckCycles>>
      BY <2>3 DEF ParsePreferences, AgentProposes, AgentSynthesizes, BudgetSpent, AgentOutOfBudget,
                  WriteNarrative, RecordEvaluation, flags, stuck, SInv, Inv, BudgetAborts
    <3>2. \/ node = "parse_preferences" /\ node' = "agent" /\ pending' = pending
          \/ node = "agent" /\ node' = "tool_executor" /\ (toolLoop < MaxToolCalls \/ pending' = 0)
          \/ node = "write_narrative" /\ node' = "record_evaluation" /\ pending' = pending
          \/ node = "record_evaluation" /\ node' = "end" /\ pending' = pending
      BY <2>3, BudgetNotSpent
         DEF ParsePreferences, AgentProposes, AgentSynthesizes, AgentOutOfBudget,
             WriteNarrative, RecordEvaluation, SInv
    <3>3. PotentialPays' /\ FingerprintIsCurrent'
      BY <1>2, <2>1, <2>2, <3>1, <3>2, QuietStep
    <3>4. OvershootIsCounted'
      <4>1. ~moved /\ ~moved'
        BY <2>1, <3>1, <3>2 DEF CountSuperstep, SInv, OvershootIsCounted
      <4>2. toolLoop \in Nat /\ MaxToolCalls \in Nat
        BY BoundsAssumption DEF SInv, Inv, TypeOK
      <4>3. ~(pending' > 0 /\ toolLoop >= MaxToolCalls)
        BY <3>2, <4>1, <4>2 DEF SInv, OvershootIsCounted
      <4> QED BY <3>1, <4>1, <4>3 DEF OvershootIsCounted
    <3> QED BY <1>2, <2>2, <3>3, <3>4 DEF SInv
  <2>4. CASE \E t \in (IF byDefault THEN {DefaultTool} ELSE LlmNames) : ExecuteCall(t)
    <3>1. PICK t \in Registry \cup {"unknown"} : ExecuteCall(t)
      BY <2>4, DispatchedNames DEF SInv, Inv
    <3>2. Potential' <= Potential /\ FingerprintIsCurrent' /\ OvershootIsCounted'
      BY <1>2, <2>1, <2>2, <3>1, ExecuteCallPays
    <3>3. node = "tool_executor" /\ node' = node /\ steps' = steps
      BY <2>1, <3>1 DEF ExecuteCall, ApplyToolResult, CountedCalls, CountSuperstep
    <3>4. Potential \in Nat /\ Potential' \in Nat /\ steps \in Nat
      BY <1>2, <2>2, Parts, PartsNext DEF SInv, STypeOK, PartsAddUp
    <3>5. MaxCycles' = MaxCycles /\ MaxCycles \in Int
      BY BoundsAssumption DEF MaxCycles
    <3> DEFINE p == Potential
               q == Potential'
               m == MaxCycles
    <3>6. PotentialPays'
      <4>1. steps + 2 * p <= 2 * m + 2
        BY <3>3 DEF SInv, PotentialPays
      <4>2. p \in Nat /\ q \in Nat /\ q <= p /\ m \in Int /\ steps \in Nat
        BY <3>2, <3>4, <3>5
      <4> HIDE DEF p, q, m
      <4>3. steps + 2 * q <= 2 * m + 2
        BY <4>1, <4>2
      <4> QED BY <3>3, <3>5, <4>3 DEF p, q, m, PotentialPays
    <3> QED BY <1>2, <2>2, <3>2, <3>6 DEF SInv
  <2>5. CASE FinishBatch
    <3>1. (node' = "agent" => Potential' < Potential) /\ FingerprintIsCurrent'
      BY <1>2, <2>1, <2>2, <2>5, FinishBatchPays
    <3>2. node = "tool_executor" /\ node' \in {"agent", "write_narrative", "end"} /\ pending' = 0
      BY <2>5 DEF FinishBatch, RouteAfterTools
    <3>3. steps' = steps + 1 /\ moved' = FALSE
      BY <2>1, <3>2, OneSuperstep DEF CountSuperstep
    <3>4. Potential \in Nat \ {0} /\ Potential' \in Nat /\ steps \in Nat
      BY <1>2, <2>2, Parts, PartsNext DEF SInv, STypeOK, PartsAddUp
    <3>5. MaxCycles' = MaxCycles /\ MaxCycles \in Int
      BY BoundsAssumption DEF MaxCycles
    <3> DEFINE p == Potential
               q == Potential'
               m == MaxCycles
    <3>6. PotentialPays'
      <4>1. steps + 2 * p <= 2 * m + 2
        BY <3>2 DEF SInv, PotentialPays
      <4>2. /\ p \in Nat \ {0} /\ q \in Nat /\ m \in Int /\ steps \in Nat
            /\ node' = "agent" => q < p
        BY <3>1, <3>4, <3>5
      <4> HIDE DEF p, q, m
      <4>3. /\ node' = "agent" => (steps + 1) + 2 * q <= 2 * m + 1
            /\ steps + 1 <= 2 * m + 1
            /\ steps + 1 <= 2 * m + 3
        BY <4>1, <4>2
      <4> QED BY <3>2, <3>3, <3>5, <4>3 DEF p, q, m, PotentialPays
    <3>7. OvershootIsCounted'
      BY <3>2, <3>3 DEF OvershootIsCounted
    <3> QED BY <1>2, <2>2, <3>1, <3>6, <3>7 DEF SInv
  <2> QED BY <1>3, <2>3, <2>4, <2>5 DEF SNext, Next
<1>4. CASE UNCHANGED superVars
  BY <1>2, <1>4
     DEF superVars, vars, flags, stuck, SInv, STypeOK, PotentialPays, FingerprintIsCurrent,
         OvershootIsCounted, Potential, BudgetLeft, MaxCycles, ProgressFingerprint, Codes
<1> QED BY <1>3, <1>4

\* The graph ends within a number of supersteps fixed by its three limits,
\* whatever names the language model utters: no cycle is free.
THEOREM StepsAreBounded == SSpec => []StepsBounded
<1>1. SInit => SInv
  BY InitialPotential
<1>2. SInv /\ [SNext]_superVars => SInv'
  BY SNextPreserves
<1>3. SInv => StepsBounded
  <2> SUFFICES ASSUME SInv PROVE StepsBounded
    OBVIOUS
  <2>1. Potential \in Nat /\ steps \in Nat /\ MaxCycles \in Int
    BY BoundsAssumption, Parts DEF SInv, STypeOK, PartsAddUp, MaxCycles
  <2>2. node \in Nodes /\ PotentialPays
    BY DEF SInv, Inv, TypeOK
  <2> QED BY <2>1, <2>2 DEF PotentialPays, StepsBounded, Nodes
<1> QED BY <1>1, <1>2, <1>3, PTL DEF SSpec

(***************************************************************************)
(* Registered names only                                                   *)
(***************************************************************************)
LEMMA CyclesLeftFacts ==
  ASSUME SInv
  PROVE  /\ BudgetLeft \in Nat /\ CyclesLeft \in Nat \ {0} /\ steps \in Nat
         /\ moved \in BOOLEAN /\ sawUnknown \in BOOLEAN
         /\ BudgetLeft > 0 => CyclesLeft = BudgetLeft + StuckLimit
         /\ moved => CyclesLeft = BudgetLeft + StuckLimit
         /\ BudgetLeft = 0 /\ ~moved => CyclesLeft = StuckLimit - stuckCycles
<1>1. /\ StuckLimit \in Nat \ {0} /\ MaxToolCalls \in Nat
      /\ toolLoop \in Nat /\ stuckCycles \in 0..(StuckLimit - 1)
      /\ steps \in Nat /\ moved \in BOOLEAN /\ sawUnknown \in BOOLEAN
  BY BoundsAssumption DEF SInv, Inv, TypeOK, STypeOK
<1>2. BudgetLeft \in Nat
  BY <1>1 DEF BudgetLeft
<1> QED BY <1>1, <1>2 DEF CyclesLeft

LEMMA CyclesLeftNext ==
  SInv' => /\ BudgetLeft' \in Nat /\ CyclesLeft' \in Nat \ {0} /\ steps' \in Nat
           /\ moved' \in BOOLEAN /\ sawUnknown' \in BOOLEAN
           /\ BudgetLeft' > 0 => CyclesLeft' = BudgetLeft' + StuckLimit
           /\ moved' => CyclesLeft' = BudgetLeft' + StuckLimit
           /\ BudgetLeft' = 0 /\ ~moved' => CyclesLeft' = StuckLimit - stuckCycles'
<1> DEFINE Facts == /\ BudgetLeft \in Nat /\ CyclesLeft \in Nat \ {0} /\ steps \in Nat
                    /\ moved \in BOOLEAN /\ sawUnknown \in BOOLEAN
                    /\ BudgetLeft > 0 => CyclesLeft = BudgetLeft + StuckLimit
                    /\ moved => CyclesLeft = BudgetLeft + StuckLimit
                    /\ BudgetLeft = 0 /\ ~moved => CyclesLeft = StuckLimit - stuckCycles
<1>1. SInv => Facts
  BY CyclesLeftFacts
<1> HIDE DEF Facts
<1>2. SInv' => Facts'
  BY <1>1, PTL
<1> QED BY <1>2 DEF Facts

\* Every step of a model that keeps to registered names is paid for.
LEMMA BudgetPaysNext == RInv /\ [SNext]_superVars => RInv'
<1> SUFFICES ASSUME RInv, [SNext]_superVars PROVE RInv'
  OBVIOUS
<1>1. SInv /\ SInv' /\ BudgetPays
  BY SNextPreserves DEF RInv
<1>2. StuckLimit \in Nat \ {0} /\ MaxToolCalls \in Nat /\ toolLoop \in Nat /\ stuckCycles \in Nat
  BY <1>1, BoundsAssumption DEF SInv, Inv, TypeOK
<1> DEFINE most == 2 * (MaxToolCalls + StuckLimit)
           b == BudgetLeft
           c == CyclesLeft
           pb == BudgetLeft'
           pc == CyclesLeft'
<1>3. /\ most \in Nat /\ steps \in Nat /\ b \in Nat /\ c \in Nat \ {0}
      /\ pb \in Nat /\ pc \in Nat \ {0}
  BY <1>1, <1>2, CyclesLeftFacts, CyclesLeftNext
<1>4. CASE SNext
  <2> SUFFICES ASSUME ~sawUnknown' PROVE BudgetPays'
    BY <1>1 DEF RInv, BudgetPays
  <2>1. CountSuperstep /\ ~sawUnknown
    BY <1>4 DEF SNext, CountSuperstep
  <2>2. /\ node = "parse_preferences" => steps + 2 * c <= most
        /\ node = "agent" => steps + 2 * c <= most + 1
        /\ node = "tool_executor" /\ ~moved => steps + 2 * c <= most + 2 /\ (pending = 0 => b = 0)
        /\ node = "tool_executor" /\ moved => steps + 2 * c <= most
        /\ node = "write_narrative" => steps <= most + 1
        /\ node = "record_evaluation" => steps <= most + 2
    BY <1>1, <2>1 DEF BudgetPays
  <2>3. CASE ParsePreferences \/ AgentProposes \/ AgentSynthesizes \/ AgentOutOfBudget
               \/ WriteNarrative \/ RecordEvaluation
    <3>1. UNCHANGED <<phase, toolLoop, stuckCycles>>
      BY <1>1, <2>3 DEF ParsePreferences, AgentProposes, AgentSynthesizes, BudgetSpent,
           AgentOutOfBudget, WriteNarrative, RecordEvaluation, flags, stuck, SInv, Inv, BudgetAborts
    <3>2. \/ node = "parse_preferences" /\ node' = "agent"
          \/ node = "agent" /\ node' = "tool_executor" /\ (toolLoop >= MaxToolCalls \/ pending' > 0)
          \/ node = "write_narrative" /\ node' = "record_evaluation"
          \/ node = "record_evaluation" /\ node' = "end"
      BY <2>3, BoundsAssumption
         DEF ParsePreferences, AgentProposes, AgentSynthesizes, AgentOutOfBudget, BudgetSpent,
             WriteNarrative, RecordEvaluation
    <3>3. ~moved /\ ~moved' /\ steps' = steps + 1
      BY <1>1, <2>1, <3>1, <3>2, OneSuperstep DEF CountSuperstep, SInv, OvershootIsCounted
    <3>4. pb = b /\ pc = c
      BY <3>1, <3>3 DEF BudgetLeft, CyclesLeft
    <3>5. toolLoop >= MaxToolCalls => pb = 0
      BY <3>4 DEF BudgetLeft
    <3> HIDE DEF b, c, pb, pc, most
    <3>6. /\ node' = "agent" => steps' + 2 * pc <= most + 1
          /\ node' = "tool_executor" => steps' + 2 * pc <= most + 2 /\ (pending' = 0 => pb = 0)
          /\ node' = "record_evaluation" => steps' <= most + 2
          /\ node' = "end" => steps' <= most + 3
      BY <1>3, <2>2, <3>2, <3>3, <3>4, <3>5
    <3> QED BY <3>2, <3>3, <3>6 DEF BudgetPays, pb, pc, most
  <2>4. CASE \E t \in (IF byDefault THEN {DefaultTool} ELSE LlmNames) : ExecuteCall(t)
    <3>1. PICK t \in Registry \cup {"unknown"} : ExecuteCall(t)
      BY <1>1, <2>4, DispatchedNames DEF SInv, Inv
    <3>2. toolLoop' = toolLoop + 1
      <4>1. pending' < pending /\ toolLoop' = CountedCalls(t)
        BY <1>1, <3>1 DEF ExecuteCall, ApplyToolResult, SInv, Inv, TypeOK
      <4>2. toolLoop' # toolLoop
        BY <2>1, <4>1 DEF CountSuperstep
      <4> QED BY <4>1, <4>2 DEF CountedCalls
    <3>3. node = "tool_executor" /\ node' = node /\ steps' = steps /\ pending > 0
      BY <2>1, <3>1 DEF ExecuteCall, CountSuperstep
    <3>4. moved' = TRUE
      <4>1. toolLoop' # toolLoop
        BY <1>2, <3>2
      <4> QED BY <2>1, <3>3, <4>1 DEF CountSuperstep
    <3>5. pc = pb + StuckLimit
      BY <1>1, <3>4, CyclesLeftNext
    <3>6. \/ moved /\ pb <= b /\ c = b + StuckLimit
          \/ ~moved /\ pb = b - 1 /\ c = b + StuckLimit
      <4>1. toolLoop < MaxToolCalls => pb = b - 1 /\ b > 0
        BY <1>2, <3>2 DEF BudgetLeft
      <4>2. toolLoop >= MaxToolCalls => pb = b /\ moved
        BY <1>1, <1>2, <3>2, <3>3 DEF BudgetLeft, SInv, OvershootIsCounted
      <4>3. (b > 0 \/ moved) => c = b + StuckLimit
        BY <1>1, CyclesLeftFacts
      <4> HIDE DEF b, c, pb, pc, most
      <4>4. CASE toolLoop < MaxToolCalls
        BY <1>3, <4>1, <4>3, <4>4
      <4>5. CASE toolLoop >= MaxToolCalls
        BY <1>3, <4>2, <4>3, <4>5
      <4> QED BY <1>2, <4>4, <4>5
    <3> HIDE DEF b, c, pb, pc, most
    <3>7. steps' + 2 * pc <= most
      BY <1>2, <1>3, <2>2, <3>3, <3>5, <3>6
    <3> QED BY <3>3, <3>4, <3>7 DEF BudgetPays, pb, pc, most
  <2>5. CASE FinishBatch
    <3>1. /\ node = "tool_executor" /\ pending = 0 /\ toolLoop' = toolLoop
          /\ node' = RouteAfterTools /\ node' \in {"agent", "write_narrative", "end"}
      BY <2>5 DEF FinishBatch, RouteAfterTools
    <3>2. steps' = steps + 1 /\ ~moved'
      BY <1>1, <2>1, <3>1, OneSuperstep DEF CountSuperstep
    <3>3. pb = b
      BY <3>1 DEF BudgetLeft
    <3>4. steps + 2 * c <= most + 2 /\ (moved => steps + 2 * c <= most)
      <4>1. moved \in BOOLEAN
        BY <1>1, CyclesLeftFacts
      <4> HIDE DEF c, most
      <4>2. (moved => steps + 2 * c <= most) /\ (~moved => steps + 2 * c <= most + 2)
        BY <2>2, <3>1
      <4> QED BY <1>3, <4>1, <4>2
    <3>5. moved => pc <= c
      <4> SUFFICES ASSUME moved PROVE pc <= c
        OBVIOUS
      <4>1. c = b + StuckLimit /\ stuckCycles' \in Nat
        BY <1>1, CyclesLeftFacts, BoundsAssumption DEF SInv, Inv, TypeOK
      <4>2. (pb > 0 => pc = pb + StuckLimit) /\ (pb = 0 => pc = StuckLimit - stuckCycles')
        BY <1>1, <3>2, CyclesLeftNext
      <4> DEFINE s == stuckCycles'
      <4> HIDE DEF b, c, pb, pc, s
      <4>3. s \in Nat /\ (pb = 0 => pc = StuckLimit - s)
        BY <4>1, <4>2 DEF s
      <4> QED BY <1>2, <1>3, <3>3, <4>1, <4>2, <4>3
    <3>6. ~moved /\ node' = "agent" => pc <= c - 1
      <4> SUFFICES ASSUME ~moved, node' = "agent" PROVE pc <= c - 1
        OBVIOUS
      <4>1. b = 0
        BY <2>2, <3>1
      <4>2. toolLoop >= MaxToolCalls
        BY <1>2, <4>1 DEF BudgetLeft
      <4>3. phase = "WRAP_UP"
        BY <1>1, <4>2 DEF SInv, Inv, BudgetAborts
      <4>4. StuckCyclesNow < StuckLimit
        BY <2>5, <3>1, <4>3
           DEF FinishBatch, RunStuckDetector, AdvanceStuckPhase, RouteAfterTools
      <4>5. stuckCycles' = StuckCyclesNow
        BY <2>5, <4>4 DEF FinishBatch, RunStuckDetector
      <4>6. stuckCycles > 0 => fingerprint = ProgressFingerprint
        BY <1>1, <3>1 DEF SInv, FingerprintIsCurrent
      <4>7. stuckCycles' = stuckCycles + 1
        BY <1>2, <4>5, <4>6 DEF StuckCyclesNow
      <4>8. c = StuckLimit - stuckCycles /\ pc = StuckLimit - stuckCycles'
        BY <1>1, <3>2, <3>3, <4>1, CyclesLeftFacts, CyclesLeftNext
      <4> HIDE DEF b, c, pb, pc
      <4> QED BY <1>2, <1>3, <4>7, <4>8
    <3>7. moved \in BOOLEAN
      BY <1>1, CyclesLeftFacts
    <3> HIDE DEF b, c, pb, pc, most
    <3>8. /\ node' = "agent" => steps' + 2 * pc <= most + 1
          /\ steps' <= most + 1
      <4>1. CASE moved
        BY <1>3, <3>2, <3>4, <3>5, <4>1
      <4>2. CASE ~moved
        BY <1>3, <3>2, <3>4, <3>6, <4>2
      <4> QED BY <3>7, <4>1, <4>2
    <3>9. steps' <= most + 3
      BY <1>3, <3>2, <3>8
    <3> QED BY <3>1, <3>2, <3>8, <3>9 DEF BudgetPays, pc, most
  <2> QED BY <1>4, <2>3, <2>4, <2>5 DEF SNext, Next
<1>5. CASE UNCHANGED superVars
  BY <1>1, <1>5 DEF RInv, superVars, vars, flags, stuck, BudgetPays, CyclesLeft, BudgetLeft
<1> QED BY <1>4, <1>5

\* A model that keeps to registered names is stopped by the tool budget, whatever
\* it calls: the graph ends within two supersteps for every call the budget
\* allows and for every cycle the stuck detector then takes to force the end.
THEOREM RegisteredNamesAreBounded == SSpec => []RegisteredNamesSuffice
<1>1. SInit => RInv
  <2> SUFFICES ASSUME SInit PROVE RInv
    OBVIOUS
  <2>1. SInv
    BY InitialPotential
  <2>2. CyclesLeft <= MaxToolCalls + StuckLimit /\ CyclesLeft \in Nat
    <3>1. BudgetLeft <= MaxToolCalls /\ BudgetLeft \in Nat
      BY BoundsAssumption DEF SInit, Init, BudgetLeft
    <3>2. CyclesLeft = BudgetLeft + StuckLimit
      BY BoundsAssumption DEF SInit, Init, CyclesLeft
    <3> QED BY <3>1, <3>2, BoundsAssumption
  <2>3. node = "parse_preferences" /\ steps = 0
    BY DEF SInit, Init
  <2> QED BY <2>1, <2>2, <2>3, BoundsAssumption DEF RInv, BudgetPays
<1>2. RInv /\ [SNext]_superVars => RInv'
  BY BudgetPaysNext
<1>3. RInv => RegisteredNamesSuffice
  <2> SUFFICES ASSUME RInv, ~sawUnknown PROVE steps <= 2 * (MaxToolCalls + StuckLimit) + 3
    BY DEF RegisteredNamesSuffice
  <2> DEFINE most == 2 * (MaxToolCalls + StuckLimit)
             c == CyclesLeft
  <2>1. most \in Nat /\ steps \in Nat /\ c \in Nat /\ moved \in BOOLEAN
    BY BoundsAssumption, CyclesLeftFacts DEF RInv
  <2>2. /\ node = "parse_preferences" => steps + 2 * c <= most
        /\ node = "agent" => steps + 2 * c <= most + 1
        /\ node = "tool_executor" => steps + 2 * c <= most + 2 \/ steps + 2 * c <= most
        /\ node = "write_narrative" => steps <= most + 1
        /\ node = "record_evaluation" => steps <= most + 2
        /\ node = "end" => steps <= most + 3
    BY <2>1 DEF RInv, BudgetPays
  <2>3. node \in Nodes
    BY DEF RInv, SInv, Inv, TypeOK
  <2> HIDE DEF most, c
  <2>4. steps <= most + 3
    BY <2>1, <2>2, <2>3 DEF Nodes
  <2> QED BY <2>4 DEF most
<1> QED BY <1>1, <1>2, <1>3, PTL DEF SSpec

\* _recursion_limit is enough, for all limits, as long as the model keeps to
\* registered names: only unknown_tool calls can make it too small.
THEOREM RegisteredNamesStayInLimit == SSpec => [](~sawUnknown => RecursionLimitSuffices)
<1>1. /\ MaxToolCalls \in Nat /\ StuckLimit \in Nat
      /\ RecursionLimit = MaxToolCalls * 2 + StuckLimit * 8 + 4
  BY BoundsAssumption DEF RecursionLimit, StuckPhaseHops, GraphBookendSteps
<1>2. STypeOK /\ RegisteredNamesSuffice => (~sawUnknown => RecursionLimitSuffices)
  BY <1>1 DEF STypeOK, RegisteredNamesSuffice, RecursionLimitSuffices
<1>3. SInv => STypeOK
  BY DEF SInv
<1>4. SSpec => []SInv
  BY InitialPotential, SNextPreserves, PTL DEF SSpec
<1> QED BY <1>2, <1>3, <1>4, RegisteredNamesAreBounded, PTL
=============================================================================
