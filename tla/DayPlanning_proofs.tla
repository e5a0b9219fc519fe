-------------------------- MODULE DayPlanning_proofs --------------------------
(***************************************************************************)
(* Proofs about DayPlanning, for every set of places, days and categories, *)
(* every limit and every input.                                            *)
(*                                                                         *)
(* A place is followed through the stages: it is selected or gave way to a *)
(* better one (SelectionInv), waits in one cluster or is on one day        *)
(* (Apart), or is left out, and stays so because days only grow            *)
(* (AllocationInv); its day drops it or orders it (RouteInv) and then      *)
(* times it (ScheduleInv).  What a day can accept is a sum over a set,     *)
(* which the code adds up in some order: the first section shows that the  *)
(* order does not matter and that the sum grows with the set.              *)
(***************************************************************************)
EXTENDS DayPlanning, FiniteSetTheorems, WellFoundedInduction, TLAPS

(***************************************************************************)
(* The sum of visit minutes over a set of places                           *)
(***************************************************************************)
\* Induction over the subsets of a finite set, as a fact about a set of them.
LEMMA SubsetInduction ==
  ASSUME NEW S, IsFiniteSet(S), NEW T,
         \A U \in SUBSET S : (\A x \in U : U \ {x} \in T) => U \in T
  PROVE  SUBSET S \subseteq T
<1> DEFINE Bad == (SUBSET S) \ T
<1> SUFFICES ASSUME Bad # {} PROVE FALSE
  OBVIOUS
<1>1. IsWellFoundedOn(StrictSubsetOrdering(S), SUBSET S)
  <2>1. IsWellFoundedOn(StrictSubsetOrdering(S), FiniteSubsetsOf(S))
    BY FS_StrictSubsetOrderingWellFounded, Zenon
  <2>2. FiniteSubsetsOf(S) = SUBSET S
    BY FS_FiniteSubsetsOfFinite, Zenon
  <2> QED
    BY <2>1, <2>2, Zenon
<1>2. PICK U \in Bad : \A V \in Bad : <<V, U>> \notin StrictSubsetOrdering(S)
  BY <1>1, WFMin
<1>3. ASSUME NEW x \in U PROVE U \ {x} \in T
  <2>1. <<U \ {x}, U>> \in StrictSubsetOrdering(S)
    BY DEF StrictSubsetOrdering
  <2> QED
    BY <1>2, <2>1
<1> QED
  BY <1>2, <1>3

\* What the fold over a set S computes on the way, for every subset of S.
SumStep(f, s) ==
  IF s = {} THEN 0 ELSE LET x == CHOOSE x \in s : TRUE IN Visit(x) + f[s \ {x}]
IsSum(f, S) == f = [s \in SUBSET S |-> SumStep(f, s)]
SumOver(S) == CHOOSE f : IsSum(f, S)

LEMMA VisitMinutesIsSum ==
  ASSUME NEW S PROVE VisitMinutes(S) = SumOver(S)[S]
  BY DEF VisitMinutes, MapThenSumSet, MapThenFoldSet, SumOver, IsSum, SumStep

LEMMA SumOfSubsets ==
  ASSUME NEW S, IsFiniteSet(S)
  PROVE  \A U \in SUBSET S : IsSum(SumOver(U), U) /\ \A s \in SUBSET U : SumOver(U)[s] = VisitMinutes(s)
<1> DEFINE Good(U) == IsSum(SumOver(U), U) /\ \A s \in SUBSET U : SumOver(U)[s] = VisitMinutes(s)
           T == {U \in SUBSET S : Good(U)}
<1>1. ASSUME NEW U \in SUBSET S, \A x \in U : U \ {x} \in T
      PROVE  U \in T
  <2> DEFINE Part == (SUBSET U) \ {U}
             last == IF U = {} THEN 0
                     ELSE LET x == CHOOSE x \in U : TRUE IN Visit(x) + VisitMinutes(U \ {x})
             g == [s \in SUBSET U |-> IF s = U THEN last ELSE VisitMinutes(s)]
  <2>1. ASSUME NEW s \in Part
        PROVE  VisitMinutes(s) = IF s = {} THEN 0
                 ELSE LET x == CHOOSE x \in s : TRUE IN Visit(x) + VisitMinutes(s \ {x})
    <3>1. PICK y \in U : s \subseteq U \ {y}
      OBVIOUS
    <3>2. Good(U \ {y})
      BY <3>1, <1>1
    <3>3. SumOver(U \ {y})[s] = SumStep(SumOver(U \ {y}), s)
      BY <3>1, <3>2 DEF IsSum
    <3>4. \A t \in SUBSET s : SumOver(U \ {y})[t] = VisitMinutes(t)
      BY <3>1, <3>2
    <3> QED
      BY <3>3, <3>4 DEF SumStep
  <2>2. ASSUME NEW s \in SUBSET U PROVE g[s] = SumStep(g, s)
    <3>1. CASE s = {}
      BY <3>1, <2>1 DEF SumStep
    <3>2. CASE s # {}
      <4> DEFINE x == CHOOSE x \in s : TRUE
      <4>1. x \in s
        BY <3>2
      <4>2. s \ {x} \in Part
        BY <4>1
      <4>3. g[s] = Visit(x) + VisitMinutes(s \ {x})
        BY <2>1, <3>2
      <4> QED
        BY <4>2, <4>3, <3>2 DEF SumStep
    <3> QED
      BY <3>1, <3>2
  <2>3. IsSum(g, U)
    BY <2>2 DEF IsSum
  <2>4. IsSum(SumOver(U), U)
    BY <2>3 DEF SumOver
  <2>5. SUBSET U \subseteq {s \in SUBSET U : SumOver(U)[s] = VisitMinutes(s)}
    <3> DEFINE Same == {s \in SUBSET U : SumOver(U)[s] = VisitMinutes(s)}
    <3>1. ASSUME NEW s \in SUBSET U, \A x \in s : s \ {x} \in Same
          PROVE  s \in Same
      <4>1. SumOver(U)[s] = SumStep(SumOver(U), s)
        BY <2>4 DEF IsSum
      <4>2. CASE s = U
        BY <4>2, VisitMinutesIsSum
      <4>3. CASE s # U
        BY <4>1, <4>3, <3>1, <2>1 DEF SumStep
      <4> QED
        BY <4>2, <4>3
    <3>2. IsFiniteSet(U)
      BY FS_Subset
    <3> HIDE DEF Same
    <3>3. SUBSET U \subseteq Same
      BY <3>1, <3>2, SubsetInduction
    <3> QED
      BY <3>3 DEF Same
  <2> QED
    BY <2>4, <2>5
<1> HIDE DEF T
<1>2. SUBSET S \subseteq T
  BY <1>1, SubsetInduction
<1> QED
  BY <1>2 DEF T

LEMMA VisitMinutesUnfolds ==
  ASSUME NEW S, IsFiniteSet(S)
  PROVE  VisitMinutes(S) = IF S = {} THEN 0
           ELSE LET x == CHOOSE x \in S : TRUE IN Visit(x) + VisitMinutes(S \ {x})
<1>1. IsSum(SumOver(S), S) /\ \A s \in SUBSET S : SumOver(S)[s] = VisitMinutes(s)
  BY SumOfSubsets
<1>2. SumOver(S)[S] = SumStep(SumOver(S), S)
  BY <1>1 DEF IsSum
<1> QED
  BY <1>1, <1>2 DEF SumStep

LEMMA VisitMinutesType ==
  ASSUME NEW S, IsFiniteSet(S), \A p \in S : Visit(p) \in Nat
  PROVE  VisitMinutes(S) \in Nat
<1> DEFINE T == {U \in SUBSET S : VisitMinutes(U) \in Nat}
<1>1. ASSUME NEW U \in SUBSET S, \A x \in U : U \ {x} \in T
      PROVE  U \in T
  <2>1. IsFiniteSet(U)
    BY FS_Subset
  <2>2. CASE U = {}
    <3>1. VisitMinutes(U) = 0
      BY <2>1, <2>2, VisitMinutesUnfolds
    <3> QED
      BY <3>1
  <2>3. CASE U # {}
    <3> DEFINE x == CHOOSE x \in U : TRUE
    <3>1. x \in U /\ Visit(x) \in Nat /\ VisitMinutes(U \ {x}) \in Nat
      BY <2>3, <1>1
    <3>2. VisitMinutes(U) = Visit(x) + VisitMinutes(U \ {x})
      BY <2>1, <2>3, VisitMinutesUnfolds
    <3> HIDE DEF x
    <3> QED
      BY <3>1, <3>2
  <2> QED
    BY <2>2, <2>3
<1> HIDE DEF T
<1>2. SUBSET S \subseteq T
  BY <1>1, SubsetInduction
<1> QED
  BY <1>2 DEF T

\* The sum does not depend on the order in which the fold takes the places.
LEMMA VisitMinutesRemove ==
  ASSUME NEW S, IsFiniteSet(S), \A q \in S : Visit(q) \in Nat, NEW p \in S
  PROVE  VisitMinutes(S) = Visit(p) + VisitMinutes(S \ {p})
<1> DEFINE Good(U) == \A q \in U : VisitMinutes(U) = Visit(q) + VisitMinutes(U \ {q})
           T == {U \in SUBSET S : Good(U)}
<1>1. ASSUME NEW U \in SUBSET S, \A x \in U : U \ {x} \in T
      PROVE  U \in T
  <2> SUFFICES ASSUME NEW q \in U
               PROVE  VisitMinutes(U) = Visit(q) + VisitMinutes(U \ {q})
    OBVIOUS
  <2> DEFINE x == CHOOSE x \in U : TRUE
             rest == (U \ {x}) \ {q}
  <2>1. IsFiniteSet(U) /\ IsFiniteSet(rest)
    BY FS_Subset
  <2>2. x \in U /\ VisitMinutes(U) = Visit(x) + VisitMinutes(U \ {x})
    BY <2>1, VisitMinutesUnfolds
  <2>3. CASE q = x
    BY <2>2, <2>3
  <2>4. CASE q # x
    <3>1. VisitMinutes(U \ {x}) = Visit(q) + VisitMinutes(rest)
      BY <1>1, <2>2, <2>4
    <3>2. VisitMinutes(U \ {q}) = Visit(x) + VisitMinutes((U \ {q}) \ {x})
      BY <1>1, <2>2, <2>4
    <3>3. (U \ {q}) \ {x} = rest
      OBVIOUS
    <3>4. Visit(q) \in Nat /\ Visit(x) \in Nat
      BY <2>2
    <3>5. VisitMinutes(rest) \in Nat
      BY <2>1, VisitMinutesType
    <3>6. VisitMinutes(U \ {q}) = Visit(x) + VisitMinutes(rest)
      BY <3>2, <3>3
    <3>7. VisitMinutes(U) = Visit(x) + (Visit(q) + VisitMinutes(rest))
      BY <2>2, <3>1
    <3> HIDE DEF x, rest
    <3> QED
      BY <3>4, <3>5, <3>6, <3>7
  <2> QED
    BY <2>3, <2>4
<1> HIDE DEF T
<1>2. SUBSET S \subseteq T
  BY <1>1, SubsetInduction
<1> QED
  BY <1>2 DEF T

LEMMA VisitMinutesMonotone ==
  ASSUME NEW S, IsFiniteSet(S), \A q \in S : Visit(q) \in Nat, NEW R \in SUBSET S
  PROVE  VisitMinutes(R) <= VisitMinutes(S)
<1> DEFINE T == {U \in SUBSET S : R \subseteq U => VisitMinutes(R) <= VisitMinutes(U)}
<1>1. ASSUME NEW U \in SUBSET S, \A x \in U : U \ {x} \in T
      PROVE  U \in T
  <2>1. IsFiniteSet(U) /\ VisitMinutes(U) \in Nat /\ VisitMinutes(R) \in Nat
    BY FS_Subset, VisitMinutesType
  <2>2. CASE R = U
    BY <2>1, <2>2
  <2>3. CASE R \subseteq U /\ R # U
    <3>1. PICK x \in U : R \subseteq U \ {x}
      BY <2>3
    <3>2. VisitMinutes(R) <= VisitMinutes(U \ {x})
      BY <1>1, <3>1
    <3>3. VisitMinutes(U) = Visit(x) + VisitMinutes(U \ {x})
      BY <2>1, VisitMinutesRemove
    <3>4. Visit(x) \in Nat /\ VisitMinutes(U \ {x}) \in Nat
      <4>1. IsFiniteSet(U \ {x})
        BY <2>1, FS_Subset
      <4> QED
        BY <4>1, VisitMinutesType
    <3> QED
      BY <2>1, <3>2, <3>3, <3>4
  <2> QED
    BY <2>2, <2>3
<1> HIDE DEF T
<1>2. SUBSET S \subseteq T
  BY <1>1, SubsetInduction
<1> QED
  BY <1>2 DEF T

(***************************************************************************)
(* The inductive invariant: what each stage leaves to the next             *)
(***************************************************************************)
Packing == {"select", "cluster", "allocate"}
Timing == {"schedule", "validate", "done"}

TypeOK ==
  /\ input \in Inputs
  /\ stage \in Packing \cup {"route"} \cup Timing
  /\ todo \subseteq (IF stage \in Packing THEN Places ELSE Days)
  /\ selected \subseteq Places
  /\ clusters \subseteq SUBSET Places
  /\ stage = "allocate" /\ todo # {} => target \in Days
  /\ days \in [Days -> SUBSET Places]
  /\ ordered \in [Days -> Seq(Places)]
  /\ travel = [d \in Days |-> travel[d]]
  /\ dropped \in [Days -> SUBSET Places]
  /\ schedule \in [Days -> Seq([place : Places, start : Nat])]
  /\ lunch \in [Days -> BOOLEAN]
  /\ verdict \in {"none", "passed", "failed"}

\* A place that is not selected is yet to be looked at, or gave way to a better one.
SelectionInv ==
  /\ stage = "select" => \A q \in selected, p \in todo : Before(q, p)
  /\ \A p \in Places \ selected :
       \/ stage = "select" /\ p \in todo
       \/ \E q \in selected : Conflicts(p, q) /\ Before(q, p)

\* What is being allocated, the clusters and the days share no place.
Waiting == IF stage \in Packing \ {"select"} THEN todo ELSE {}
Apart ==
  /\ \A c \in clusters : c \cap Waiting = {}
  /\ \A c, e \in clusters : c # e => c \cap e = {}
  /\ \A d \in Days : days[d] \cap Waiting = {}
  /\ \A d \in Days, c \in clusters : days[d] \cap c = {}
  /\ \A d, e \in Days : d # e => days[d] \cap days[e] = {}

\* Days keep their limits; a selected place waits, is on a day, or fits into none.
LeftOut(p) == \A d \in Days : ~CanAdd(days[d], p)
WithinLimits(day) ==
  /\ Cardinality(day) <= MaxPlaces
  /\ Cardinality(Mornings(day)) <= MorningSlots
  /\ VisitMinutes(day) <= VisitBudget

AllocationInv ==
  /\ stage = "select" => clusters = {}
  /\ stage \notin Packing => clusters = {}
  /\ stage \in {"select", "cluster"} => \A d \in Days : days[d] = {}
  /\ \A d \in Days : WithinLimits(days[d])
  /\ stage # "select" => \A p \in selected :
       p \in Waiting \/ (\E c \in clusters : p \in c) \/ (\E d \in Days : p \in days[d]) \/ LeftOut(p)

\* The days optimize_route is done with.
RoutedDays == CASE stage = "route" -> Days \ todo [] stage \in Timing -> Days [] OTHER -> {}
IsRouted(d) ==
  /\ ToSet(ordered[d]) = days[d] \ dropped[d]
  /\ IsInjective(ordered[d])
  /\ travel[d] = Travel(ordered[d])
  /\ \/ travel[d] <= MaxTravel
     \/ Cardinality(days[d] \ dropped[d]) <= 1
     \/ Cardinality(dropped[d]) >= MaxPlaces - 1

\* Dropped stops are of the day and weaker than those it keeps; the last is kept.
RouteInv ==
  /\ stage \in Packing => \A d \in Days : dropped[d] = {}
  /\ \A d \in Days : /\ dropped[d] \subseteq days[d]
                     /\ \A p \in dropped[d], q \in days[d] \ dropped[d] :
                          input.score[p] <= input.score[q]
                     /\ dropped[d] = days[d] => days[d] = {}
  /\ \A d \in RoutedDays : IsRouted(d)

\* The days build_day_schedule is done with.
TimedDays == CASE stage = "schedule" -> Days \ todo [] stage \in {"validate", "done"} -> Days
               [] OTHER -> {}
\* A schedule leaves time for every hop, unless lunch covers it, and crosses lunch
\* with no visit; whoever had lunch has passed its start.
EndOf(stop) == stop.start + Visit(stop.place)
Reachable(stops, i) ==
  IF i = 1 THEN stops[1].start >= DayStart + Leg(Base, stops[1].place)
  ELSE \/ stops[i].start >= EndOf(stops[i - 1]) + Leg(stops[i - 1].place, stops[i].place)
       \/ EndOf(stops[i - 1]) < LunchStart /\ stops[i].start = LunchStart + LunchBreak
IsTimed(stops, had) ==
  /\ \A i \in DOMAIN stops : /\ Reachable(stops, i)
                             /\ ~(stops[i].start < LunchStart /\ LunchStart < EndOf(stops[i]))
  /\ \A i, j \in DOMAIN stops : stops[i].place = stops[j].place => i = j
  /\ had => stops # <<>> /\ EndOf(stops[Len(stops)]) >= LunchStart

\* Schedules visit what the route keeps, and all of it once their day is done.
ScheduleInv ==
  /\ stage \notin Timing => \A d \in Days : schedule[d] = <<>> /\ ~lunch[d]
  /\ \A d \in Days : Visited(d) \subseteq Kept(ordered[d]) /\ IsTimed(schedule[d], lunch[d])
  /\ \A d \in TimedDays : Kept(ordered[d]) \subseteq Visited(d)

VerdictInv ==
  verdict = "passed" => stage = "done" /\ \A d \in Days : TravelCap(d) /\ HasAnchor(d)

IInv == TypeOK /\ SelectionInv /\ Apart /\ AllocationInv /\ RouteInv /\ ScheduleInv /\ VerdictInv

(***************************************************************************)
(* Lemmas about the operators of the stages                                *)
(***************************************************************************)
LEMMA InputFacts ==
  ASSUME input \in Inputs
  PROVE  /\ \A p \in Places : Visit(p) \in Nat /\ input.score[p] \in Nat
         /\ \A p \in Places, from \in Places \cup {Base} : Leg(from, p) \in Nat
<1>1. /\ input.score \in [Places -> Nat]
      /\ input.category \in [Places -> DOMAIN Duration]
      /\ input.minutes \in [(Places \cup {Base}) \X Places -> Nat]
  BY DayPlanningAssumption
<1>2. Duration \in [DOMAIN Duration -> Nat]
  BY DayPlanningAssumption
<1>3. ASSUME NEW p \in Places PROVE Visit(p) \in Nat /\ input.score[p] \in Nat
  BY <1>1, <1>2 DEF Visit, Category
<1>4. ASSUME NEW p \in Places, NEW from \in Places \cup {Base}
      PROVE  Leg(from, p) \in Nat
  <2>1. <<from, p>> \in (Places \cup {Base}) \X Places
    OBVIOUS
  <2> QED
    BY <1>1, <2>1 DEF Leg
<1> QED
  BY <1>3, <1>4

LEMMA ConstantFacts ==
  /\ MaxPlaces \in Nat /\ VisitBudget \in Nat /\ MorningSlots \in Nat
  /\ DayStart \in Nat /\ LunchStart \in Nat /\ LunchBreak \in Nat
  /\ Places \subseteq Nat /\ Days \subseteq Nat
  BY DayPlanningAssumption

LEMMA PlacesFinite ==
  ASSUME NEW S \in SUBSET Places
  PROVE  IsFiniteSet(S) /\ Cardinality(S) \in Nat
  BY DayPlanningAssumption, FS_Subset, FS_CardinalityType

\* An order of optimize_route visits every place of the day once.
LEMMA OrdersVisitAll ==
  ASSUME NEW S \in SUBSET Places, NEW order \in BestOrders(S)
  PROVE  order \in Seq(S) /\ IsInjective(order) /\ ToSet(order) = S
<1> DEFINE D == 1..Cardinality(S)
<1>1. Cardinality(S) \in Nat /\ IsFiniteSet(S)
  BY PlacesFinite
<1>2. order \in [D -> S] /\ \A i, j \in D : i # j => order[i] # order[j]
  BY DEF BestOrders, SetToSeqs
<1>3. IsInjective(order)
  BY <1>2 DEF IsInjective
<1>4. order \in Seq(S) /\ Len(order) = Cardinality(S)
  BY <1>1, <1>2
<1>5. Cardinality(D) = Cardinality(S)
  BY <1>1, FS_Interval
<1>6. order \in Injection(D, S)
  BY <1>2, <1>3 DEF Injection
<1>7. order \in Surjection(D, S)
  BY <1>1, <1>5, <1>6, FS_Injection
<1>8. ToSet(order) = S
  BY <1>2, <1>7 DEF Surjection, ToSet
<1> QED
  BY <1>3, <1>4, <1>8

\* optimize_route tries no further.
MayStop(d, order) ==
  \/ Travel(order) <= MaxTravel
  \/ Cardinality(days[d] \ dropped[d]) <= 1
  \/ Cardinality(dropped[d]) >= MaxPlaces - 1

\* What one attempt of optimize_route does for day d, whose best order is "order".
Attempt(d, order) ==
  LET remaining == days[d] \ dropped[d]
  IN \/ /\ MayStop(d, order)
        /\ ordered' = [ordered EXCEPT ![d] = order]
        /\ travel' = [travel EXCEPT ![d] = Travel(order)]
        /\ todo' = todo \ {d}
        /\ UNCHANGED dropped
     \/ /\ ~MayStop(d, order)
        /\ \E victim \in remaining :
             /\ LowestScored(victim, remaining)
             /\ dropped' = [dropped EXCEPT ![d] = @ \cup {victim}]
        /\ UNCHANGED <<todo, ordered, travel>>

\* What build_day_schedule does for stop p of day d.
Stop(d, p) ==
  LET at == StartVisit(Arrival(d, p), Visit(p))
  IN /\ schedule' = [schedule EXCEPT ![d] = Append(@, [place |-> p, start |-> at.clock])]
     /\ lunch' = [lunch EXCEPT ![d] = at.lunch]
     /\ todo' = IF Kept(ordered[d]) \ Visited(d) = {p} THEN todo \ {d} ELSE todo

At == [clock : Nat, lunch : BOOLEAN]

LEMMA StartVisitType ==
  ASSUME NEW at \in At, NEW visit \in Nat
  PROVE  StartVisit(at, visit) \in At
  BY ConstantFacts DEF At, StartVisit

LEMMA GoOnType ==
  ASSUME NEW end \in Nat, NEW minutes \in Nat, NEW had \in BOOLEAN
  PROVE  GoOn(end, minutes, had) \in At
  BY ConstantFacts DEF At, GoOn

LEMMA ElementType ==
  ASSUME NEW T, NEW s \in Seq(T), NEW i \in 1..Len(s)
  PROVE  s[i] \in T
  OBVIOUS

LEMMA LastType ==
  ASSUME NEW T, NEW s \in Seq(T), Len(s) # 0
  PROVE  s[Len(s)] \in T
<1>1. Len(s) \in 1..Len(s)
  OBVIOUS
<1> QED
  BY <1>1

LEMMA ArrivalType ==
  ASSUME TypeOK, NEW d \in Days, NEW p \in Places
  PROVE  Arrival(d, p) \in At
<1> DEFINE n == Len(schedule[d])
           last == schedule[d][n]
<1>1. schedule[d] \in Seq([place : Places, start : Nat]) /\ lunch[d] \in BOOLEAN
  BY DEF TypeOK
<1> HIDE DEF TypeOK
<1>2. CASE n = 0
  <2>1. Leg(Base, p) \in Nat
    BY InputFacts DEF TypeOK
  <2>2. Arrival(d, p) = [clock |-> DayStart + Leg(Base, p), lunch |-> FALSE]
    BY <1>2 DEF Arrival
  <2>3. DayStart + Leg(Base, p) \in Nat
    BY <2>1, ConstantFacts
  <2> QED
    BY <2>2, <2>3 DEF At
<1>3. CASE n # 0
  <2>1. last \in [place : Places, start : Nat]
    BY <1>1, <1>3, LastType
  <2>2. last.start + Visit(last.place) \in Nat /\ Leg(last.place, p) \in Nat
    <3>1. last.place \in Places /\ last.start \in Nat
      BY <2>1
    <3>2. input \in Inputs
      BY DEF TypeOK
    <3> HIDE DEF last
    <3>3. Visit(last.place) \in Nat
      BY <3>1, <3>2, InputFacts
    <3>4. Leg(last.place, p) \in Nat
      BY <3>1, <3>2, InputFacts
    <3> QED
      BY <3>1, <3>3, <3>4
  <2>4. Arrival(d, p) = GoOn(last.start + Visit(last.place), Leg(last.place, p), lunch[d])
    BY <1>3 DEF Arrival
  <2> HIDE DEF last
  <2> QED
    BY <1>1, <2>2, <2>4, GoOnType
<1> QED
  BY <1>2, <1>3

(***************************************************************************)
(* Types                                                                   *)
(***************************************************************************)
LEMMA InitType == Init => TypeOK
<1> SUFFICES ASSUME Init PROVE TypeOK
  OBVIOUS
<1>1. \A S : <<>> \in Seq(S)
  OBVIOUS
<1> QED
  BY <1>1 DEF Init, TypeOK, Packing, Timing

LEMMA NextType == TypeOK /\ [Next]_vars => TypeOK'
<1> SUFFICES ASSUME TypeOK, [Next]_vars PROVE TypeOK'
  OBVIOUS
<1> USE DEF TypeOK, Packing, Timing, routes
<1>1. CASE Select
  BY <1>1 DEF Select
<1>2. CASE Selected
  BY <1>2 DEF Selected
<1>3. CASE Cluster
  BY <1>3 DEF Cluster
<1>4. CASE Clustered
  BY <1>4 DEF Clustered
<1>5. CASE Prefer
  BY <1>5 DEF Prefer
<1>6. CASE Allocate
  <2>1. PICK p \in todo : /\ todo' = todo \ {p}
                          /\ \/ \E d \in DaysFor(p) : days' = [days EXCEPT ![d] = @ \cup {p}]
                             \/ UNCHANGED days
    BY <1>6 DEF Allocate
  <2>2. DaysFor(p) \subseteq Days /\ p \in Places
    BY <1>6, <2>1 DEF Allocate, DaysFor
  <2>3. days' \in [Days -> SUBSET Places]
    <3>1. CASE UNCHANGED days
      BY <3>1
    <3>2. ASSUME NEW d \in DaysFor(p), days' = [days EXCEPT ![d] = @ \cup {p}]
          PROVE  days' \in [Days -> SUBSET Places]
      <4>1. days[d] \cup {p} \in SUBSET Places
        BY <2>2
      <4> QED
        BY <2>2, <3>2, <4>1
    <3> QED
      BY <2>1, <3>1, <3>2
  <2> QED
    BY <1>6, <2>1, <2>3 DEF Allocate
<1>7. CASE Allocated
  BY <1>7 DEF Allocated
<1>8. CASE OptimizeRoute
  <2>0. PICK d \in todo : \E order \in BestOrders(days[d] \ dropped[d]) : Attempt(d, order)
    BY <1>8 DEF OptimizeRoute, Attempt, MayStop
  <2>1. PICK order \in BestOrders(days[d] \ dropped[d]) : Attempt(d, order)
    BY <2>0
  <2>2. d \in Days /\ days[d] \ dropped[d] \in SUBSET Places
    BY <1>8 DEF OptimizeRoute
  <2>3. order \in Seq(Places)
    <3>1. order \in Seq(days[d] \ dropped[d])
      BY <2>2, OrdersVisitAll
    <3> QED
      BY <2>2, <3>1
  <2>4. UNCHANGED <<input, stage, selected, clusters, target, days, schedule, lunch, verdict>>
    BY <1>8 DEF OptimizeRoute
  <2>5. dropped' \in [Days -> SUBSET Places]
    <3> SUFFICES ASSUME NEW victim \in days[d] \ dropped[d],
                        dropped' = [dropped EXCEPT ![d] = @ \cup {victim}]
                 PROVE  dropped' \in [Days -> SUBSET Places]
      BY <2>1 DEF Attempt
    <3>1. dropped[d] \cup {victim} \in SUBSET Places
      BY <2>2
    <3> QED
      BY <2>2, <3>1
  <2>7. todo' \subseteq todo /\ ordered' \in [Days -> Seq(Places)]
    BY <2>1, <2>2, <2>3 DEF Attempt
  <2>6. travel' = [e \in Days |-> travel'[e]]
    BY <2>1, <2>2 DEF Attempt
  <2> QED
    BY <1>8, <2>4, <2>5, <2>6, <2>7 DEF OptimizeRoute
<1>9. CASE Routed
  BY <1>9 DEF Routed
<1>10. CASE ScheduleStop
  <2>0. PICK d \in todo : \E p \in Kept(ordered[d]) \ Visited(d) : Stop(d, p)
    BY <1>10 DEF ScheduleStop, Stop
  <2>1. PICK p \in Kept(ordered[d]) \ Visited(d) : Stop(d, p)
    BY <2>0
  <2>2. d \in Days
    BY <1>10 DEF ScheduleStop
  <2>20. p \in Places
    <3>1. PICK i \in DOMAIN ordered[d] : p = ordered[d][i]
      BY <2>1 DEF Kept
    <3>2. ordered[d] \in Seq(Places)
      BY <2>2
    <3> QED
      BY <3>1, <3>2
  <2> DEFINE at == StartVisit(Arrival(d, p), Visit(p))
  <2>3. at \in At
    BY <2>2, <2>20, ArrivalType, StartVisitType, InputFacts
  <2>4. at.clock \in Nat /\ at.lunch \in BOOLEAN
    BY <2>3 DEF At
  <2>5. schedule' = [schedule EXCEPT ![d] = Append(@, [place |-> p, start |-> at.clock])]
        /\ lunch' = [lunch EXCEPT ![d] = at.lunch] /\ todo' \subseteq todo
    BY <2>1 DEF Stop
  <2> HIDE DEF at
  <2>6. Append(schedule[d], [place |-> p, start |-> at.clock]) \in Seq([place : Places, start : Nat])
    <3>1. [place |-> p, start |-> at.clock] \in [place : Places, start : Nat]
      BY <2>20, <2>4
    <3>2. schedule[d] \in Seq([place : Places, start : Nat])
      BY <2>2
    <3> QED
      BY <3>1, <3>2
  <2>7. schedule' \in [Days -> Seq([place : Places, start : Nat])] /\ lunch' \in [Days -> BOOLEAN]
    BY <2>2, <2>4, <2>5, <2>6
  <2> QED
    BY <1>10, <2>5, <2>7 DEF ScheduleStop
<1>11. CASE Scheduled
  BY <1>11 DEF Scheduled
<1>12. CASE Validate
  BY <1>12 DEF Validate
<1>13. CASE UNCHANGED vars
  BY <1>13 DEF vars
<1> QED
  BY <1>1, <1>2, <1>3, <1>4, <1>5, <1>6, <1>7, <1>8, <1>9, <1>10, <1>11, <1>12, <1>13 DEF Next

LEMMA InputUnchanged == [Next]_vars => input' = input
  BY DEF Next, vars, Select, Selected, Cluster, Clustered, Prefer, Allocate, Allocated,
         OptimizeRoute, Routed, ScheduleStop, Scheduled, Validate

\* After the selection, only the allocation moves places.
LEMMA AfterSelection ==
  ASSUME [Next]_vars, ~Select, ~Selected
  PROVE  UNCHANGED selected /\ (stage = "select" <=> stage' = "select")
         /\ (stage = "select" => UNCHANGED todo)
  BY DEF Next, vars, Cluster, Clustered, Prefer, Allocate, Allocated,
         OptimizeRoute, Routed, ScheduleStop, Scheduled, Validate

LEMMA AfterAllocation ==
  ASSUME TypeOK, [Next]_vars, ~Select, ~Selected, ~Cluster, ~Clustered, ~Prefer, ~Allocate, ~Allocated
  PROVE  /\ UNCHANGED <<clusters, days>>
         /\ stage \in Packing => UNCHANGED <<stage, todo>>
         /\ stage \notin Packing => stage' \notin Packing
  BY DEF Next, vars, TypeOK, Packing, Timing,
         OptimizeRoute, Routed, ScheduleStop, Scheduled, Validate

(***************************************************************************)
(* Selection                                                               *)
(***************************************************************************)
LEMMA NextSelection == TypeOK /\ SelectionInv /\ [Next]_vars => SelectionInv'
<1> SUFFICES ASSUME TypeOK, SelectionInv, [Next]_vars PROVE SelectionInv'
  OBVIOUS
<1> USE DEF SelectionInv, Conflicts, Before, Category
<1>0. input' = input
  BY InputUnchanged
<1>1. CASE Select
  <2>1. PICK p \in todo : /\ First(p, todo)
                          /\ selected' = IF \E q \in selected : Conflicts(p, q)
                                         THEN selected ELSE selected \cup {p}
                          /\ todo' = todo \ {p}
    BY <1>1 DEF Select
  <2>2. stage = "select" /\ stage' = "select"
    BY <1>1 DEF Select
  <2>3. ASSUME NEW q \in selected', NEW r \in todo' PROVE Before(q, r)'
    BY <1>0, <2>1, <2>2, <2>3 DEF First
  <2>4. ASSUME NEW r \in Places \ selected', r \notin todo'
        PROVE  \E q \in selected' : Conflicts(r, q)' /\ Before(q, r)'
    <3>1. CASE r = p
      <4>1. PICK q \in selected : Conflicts(p, q)
        BY <2>1, <2>4, <3>1
      <4>2. q \in selected' /\ Before(q, p)
        BY <2>1, <2>2, <4>1
      <4> QED
        BY <1>0, <3>1, <4>1, <4>2
    <3>2. CASE r # p
      <4>1. r \in Places \ selected /\ r \notin todo
        BY <2>1, <2>4, <3>2
      <4>2. PICK q \in selected : Conflicts(r, q) /\ Before(q, r)
        BY <4>1
      <4>3. q \in selected'
        BY <2>1
      <4> QED
        BY <1>0, <4>2, <4>3
    <3> QED
      BY <3>1, <3>2
  <2> QED
    BY <2>2, <2>3, <2>4
<1>2. CASE Selected
  BY <1>0, <1>2 DEF Selected
<1>3. CASE ~Select /\ ~Selected
  BY <1>0, <1>3, AfterSelection
<1> QED
  BY <1>1, <1>2, <1>3

(***************************************************************************)
(* No place is in two places                                               *)
(***************************************************************************)
LEMMA NextApart == TypeOK /\ AllocationInv /\ Apart /\ [Next]_vars => Apart'
<1> SUFFICES ASSUME TypeOK, AllocationInv, Apart, [Next]_vars PROVE Apart'
  OBVIOUS
<1> USE DEF Apart, Waiting, Packing
<1>1. CASE Select
  BY <1>1 DEF Select
<1>2. CASE Selected
  BY <1>2 DEF Selected, AllocationInv
<1>3. CASE Cluster
  <2>1. PICK p \in todo : /\ todo' = todo \ {p}
                          /\ \/ clusters' = clusters \cup {{p}}
                             \/ \E c \in clusters : clusters' = (clusters \ {c}) \cup {c \cup {p}}
    BY <1>3 DEF Cluster
  <2>2. stage = "cluster" /\ stage' = "cluster" /\ days' = days /\ Waiting = todo /\ Waiting' = todo'
    BY <1>3 DEF Cluster
  <2>3. p \in Waiting /\ Waiting' = Waiting \ {p}
    BY <2>1, <2>2
  <2>4. ASSUME NEW b, b \cap Waiting = {}, NEW c \in clusters', c \notin clusters,
               c \subseteq b \cup {p}, \A e \in clusters \cap clusters' : b \cap e = {},
               \A d \in Days : b \cap days[d] = {}
        PROVE  /\ c \cap Waiting' = {}
               /\ \A e \in clusters \cap clusters' : e \cap c = {}
               /\ \A d \in Days : days[d] \cap c = {}
    <3> HIDE DEF Waiting
    <3> QED
      BY <2>3, <2>4
  <2>5. \A c, e \in clusters' : c \notin clusters /\ e \notin clusters => c = e
    BY <2>1
  <2>6. ASSUME NEW c \in clusters', c \notin clusters
        PROVE  /\ c \cap Waiting' = {}
               /\ \A e \in clusters \cap clusters' : e \cap c = {}
               /\ \A d \in Days : days[d] \cap c = {}
    <3>1. CASE clusters' = clusters \cup {{p}}
      <4>1. c = {p}
        BY <2>6, <3>1
      <4>2. p \in Waiting /\ p \notin Waiting'
        BY <2>3
      <4> QED
        BY <4>1, <4>2
    <3>2. ASSUME NEW b \in clusters, clusters' = (clusters \ {b}) \cup {b \cup {p}}
          PROVE  /\ c \cap Waiting' = {}
                 /\ \A e \in clusters \cap clusters' : e \cap c = {}
                 /\ \A d \in Days : days[d] \cap c = {}
      <4>1. c = b \cup {p}
        BY <2>6, <3>2
      <4>2. \A e \in clusters \cap clusters' : b \cap e = {}
        <5>1. b \notin clusters'
          BY <2>6, <3>2, <4>1
        <5> QED
          BY <5>1
      <4>3. \A d \in Days : b \cap days[d] = {}
        BY <3>2
      <4>4. b \cap Waiting = {}
        BY <3>2
      <4> HIDE DEF Waiting
      <4> QED
        BY <2>4, <2>6, <4>1, <4>2, <4>3, <4>4
    <3> QED
      BY <2>1, <3>1, <3>2
  <2>7. \A c \in clusters' : c \cap Waiting' = {}
    BY <2>3, <2>6
  <2>8. \A c, e \in clusters' : c # e => c \cap e = {}
    BY <2>5, <2>6
  <2>9. \A d \in Days : days'[d] \cap Waiting' = {}
    BY <2>2, <2>3
  <2>10. \A d \in Days, c \in clusters' : days'[d] \cap c = {}
    BY <2>2, <2>6
  <2> QED
    BY <2>2, <2>7, <2>8, <2>9, <2>10
<1>4. CASE Clustered
  BY <1>4 DEF Clustered
<1>5. CASE Prefer
  BY <1>5 DEF Prefer
<1>6. CASE Allocate
  <2>1. PICK p \in todo : /\ todo' = todo \ {p}
                          /\ \/ \E d \in DaysFor(p) : days' = [days EXCEPT ![d] = @ \cup {p}]
                             \/ UNCHANGED days
    BY <1>6 DEF Allocate
  <2>2. stage = "allocate" /\ stage' = "allocate" /\ clusters' = clusters /\ Waiting = todo /\ Waiting' = todo'
    BY <1>6 DEF Allocate
  <2>3. CASE UNCHANGED days
    BY <2>1, <2>2, <2>3
  <2>4. ASSUME NEW d \in DaysFor(p), days' = [days EXCEPT ![d] = @ \cup {p}]
        PROVE  Apart'
    <3>1. \A e \in Days : days'[e] = IF e = d THEN days[d] \cup {p} ELSE days[e]
      BY <2>4 DEF TypeOK
    <3> QED
      BY <2>1, <2>2, <3>1
  <2> QED
    BY <2>1, <2>3, <2>4
<1>7. CASE Allocated
  BY <1>7 DEF Allocated
<1>8. CASE ~Select /\ ~Selected /\ ~Cluster /\ ~Clustered /\ ~Prefer /\ ~Allocate /\ ~Allocated
  BY <1>8, AfterAllocation
<1> QED
  BY <1>1, <1>2, <1>3, <1>4, <1>5, <1>6, <1>7, <1>8

(***************************************************************************)
(* Allocation: no day exceeds its limits, and a place that no day can      *)
(* accept is never acceptable again, because days only grow                *)
(***************************************************************************)
LEMMA LimitsOfMore ==
  ASSUME input \in Inputs, NEW day \in SUBSET Places, NEW p \in Places \ day,
         WithinLimits(day), CanAdd(day, p)
  PROVE  WithinLimits(day \cup {p})
<1> DEFINE more == day \cup {p}
<1>1. IsFiniteSet(day) /\ IsFiniteSet(more) /\ IsFiniteSet(Mornings(day))
  BY PlacesFinite DEF Mornings
<1>2. Cardinality(more) = Cardinality(day) + 1 /\ Cardinality(day) \in Nat
  BY <1>1, FS_AddElement, FS_CardinalityType
<1>3. Cardinality(more) <= MaxPlaces
  BY <1>2, ConstantFacts DEF CanAdd
<1>4. Cardinality(Mornings(more)) <= MorningSlots
  <2>1. CASE IsMorning(p)
    <3>1. Mornings(more) = Mornings(day) \cup {p} /\ p \notin Mornings(day)
      BY <2>1 DEF Mornings
    <3>2. Cardinality(Mornings(more)) = Cardinality(Mornings(day)) + 1
      BY <1>1, <3>1, FS_AddElement
    <3>3. Cardinality(Mornings(day)) \in Nat
      BY <1>1, FS_CardinalityType
    <3> QED
      BY <2>1, <3>2, <3>3, ConstantFacts DEF CanAdd
  <2>2. CASE ~IsMorning(p)
    <3>1. Mornings(more) = Mornings(day)
      BY <2>2 DEF Mornings
    <3> QED
      BY <3>1 DEF WithinLimits
  <2> QED
    BY <2>1, <2>2
<1>5. VisitMinutes(more) = Visit(p) + VisitMinutes(day)
  <2>1. \A q \in more : Visit(q) \in Nat
    BY InputFacts
  <2>2. p \in more /\ more \ {p} = day
    OBVIOUS
  <2> HIDE DEF more
  <2> QED
    BY <1>1, <2>1, <2>2, VisitMinutesRemove
<1>6. VisitMinutes(day) \in Nat /\ Visit(p) \in Nat
  BY <1>1, InputFacts, VisitMinutesType
<1>7. VisitMinutes(more) <= VisitBudget
  BY <1>5, <1>6, ConstantFacts DEF CanAdd
<1> QED
  BY <1>3, <1>4, <1>7 DEF WithinLimits

LEMMA StillLeftOut ==
  ASSUME input \in Inputs, NEW more \in SUBSET Places, NEW day \in SUBSET more, NEW p \in Places,
         CanAdd(more, p)
  PROVE  CanAdd(day, p)
<1>1. IsFiniteSet(more) /\ IsFiniteSet(day) /\ IsFiniteSet(Mornings(more)) /\ IsFiniteSet(Mornings(day))
  BY PlacesFinite DEF Mornings
<1>2. Cardinality(day) <= Cardinality(more) /\ Cardinality(day) \in Nat /\ Cardinality(more) \in Nat
  BY <1>1, FS_Subset, FS_CardinalityType
<1>3. Mornings(day) \in SUBSET Mornings(more)
  BY DEF Mornings
<1>4. Cardinality(Mornings(day)) <= Cardinality(Mornings(more))
      /\ Cardinality(Mornings(day)) \in Nat /\ Cardinality(Mornings(more)) \in Nat
  BY <1>1, <1>3, FS_Subset, FS_CardinalityType
<1>5. \A q \in more : Visit(q) \in Nat
  BY InputFacts
<1>6. VisitMinutes(day) <= VisitMinutes(more) /\ VisitMinutes(day) \in Nat /\ VisitMinutes(more) \in Nat
  BY <1>1, <1>5, VisitMinutesMonotone, VisitMinutesType
<1>7. Visit(p) \in Nat
  BY InputFacts
<1> QED
  BY <1>2, <1>4, <1>6, <1>7, ConstantFacts DEF CanAdd

LEMMA EmptyDay == input \in Inputs => WithinLimits({})
<1> SUFFICES ASSUME input \in Inputs PROVE WithinLimits({})
  OBVIOUS
<1>1. Mornings({}) = {} /\ Cardinality({}) = 0 /\ IsFiniteSet({})
  BY FS_EmptySet DEF Mornings
<1>2. VisitMinutes({}) = 0
  BY <1>1, VisitMinutesUnfolds
<1> QED
  BY <1>1, <1>2, ConstantFacts DEF WithinLimits

\* The input stays, so what a day can accept depends on the day alone.
LEMMA SameLimits ==
  ASSUME UNCHANGED input
  PROVE  \A d : /\ WithinLimits(days[d])' = WithinLimits(days'[d])
                /\ \A p : CanAdd(days[d], p)' = CanAdd(days'[d], p)
  BY DEF WithinLimits, CanAdd, VisitMinutes, MapThenSumSet, MapThenFoldSet, Mornings,
         IsMorning, Visit, Category

LEMMA NextAllocation == TypeOK /\ Apart /\ AllocationInv /\ [Next]_vars => AllocationInv'
<1> SUFFICES ASSUME TypeOK, Apart, AllocationInv, [Next]_vars PROVE AllocationInv'
  OBVIOUS
<1>0. input' = input /\ input \in Inputs
  BY InputUnchanged DEF TypeOK
<1> DEFINE Somewhere(p) ==
      p \in Waiting \/ (\E c \in clusters : p \in c) \/ (\E d \in Days : p \in days[d])
<1>1. ASSUME UNCHANGED days
      PROVE  /\ \A d \in Days : WithinLimits(days[d])'
             /\ \A p : LeftOut(p) => LeftOut(p)'
  BY <1>0, <1>1, SameLimits DEF LeftOut, AllocationInv
<1>2. CASE Select
  BY <1>1, <1>2 DEF Select, AllocationInv, Packing
<1>3. CASE Selected
  BY <1>1, <1>3 DEF Selected, AllocationInv, Packing, Waiting
<1>4. CASE Cluster
  <2>1. PICK p \in todo : /\ todo' = todo \ {p}
                          /\ \/ clusters' = clusters \cup {{p}}
                             \/ \E c \in clusters : clusters' = (clusters \ {c}) \cup {c \cup {p}}
    BY <1>4 DEF Cluster
  <2>2. stage = "cluster" /\ UNCHANGED <<stage, selected, days>> /\ Waiting = todo /\ Waiting' = todo'
    BY <1>4 DEF Cluster, Waiting, Packing
  <2>3. ASSUME NEW q \in selected, q \in todo \/ \E c \in clusters : q \in c
        PROVE  q \in todo' \/ \E c \in clusters' : q \in c
    <3>1. CASE q = p
      <4>1. \E c \in clusters' : p \in c
        BY <2>1
      <4> QED
        BY <3>1, <4>1
    <3>2. CASE q \in todo /\ q # p
      BY <2>1, <3>2
    <3>3. ASSUME NEW c \in clusters, q \in c
          PROVE  \E e \in clusters' : q \in e
      <4>1. CASE clusters' = clusters \cup {{p}}
        BY <3>3, <4>1
      <4>2. ASSUME NEW e \in clusters, clusters' = (clusters \ {e}) \cup {e \cup {p}}
            PROVE  \E b \in clusters' : q \in b
        <5>1. CASE c = e
          <6>1. c \cup {p} \in clusters' /\ q \in c \cup {p}
            BY <3>3, <4>2, <5>1
          <6> QED
            BY <6>1
        <5>2. CASE c # e
          BY <3>3, <4>2, <5>2
        <5> QED
          BY <5>1, <5>2
      <4> QED
        BY <2>1, <4>1, <4>2
    <3> QED
      BY <2>3, <3>1, <3>2, <3>3
  <2> QED
    BY <1>1, <2>2, <2>3 DEF AllocationInv, Packing
<1>5. CASE Clustered
  BY <1>1, <1>5 DEF Clustered, AllocationInv, Packing, Waiting
<1>6. CASE Prefer
  BY <1>1, <1>6 DEF Prefer, AllocationInv, Packing, Waiting
<1>7. CASE Allocate
  <2>1. PICK p \in todo : /\ todo' = todo \ {p}
                          /\ \/ \E d \in DaysFor(p) : days' = [days EXCEPT ![d] = @ \cup {p}]
                             \/ DaysFor(p) = {} /\ UNCHANGED days
    BY <1>7 DEF Allocate
  <2>2. stage = "allocate" /\ UNCHANGED <<stage, selected, clusters>> /\ Waiting = todo /\ Waiting' = todo'
    BY <1>7 DEF Allocate, Waiting, Packing
  <2>3. p \in Places /\ target \in Days
    BY <2>1, <2>2 DEF TypeOK, Packing
  <2>4. CASE DaysFor(p) = {} /\ UNCHANGED days
    <3>1. LeftOut(p)
      BY <2>3, <2>4 DEF DaysFor, LeftOut
    <3> QED
      BY <1>1, <2>1, <2>2, <2>4, <3>1 DEF AllocationInv, Packing
  <2>5. ASSUME NEW d \in DaysFor(p), days' = [days EXCEPT ![d] = @ \cup {p}]
        PROVE  AllocationInv'
    <3>1. d \in Days /\ CanAdd(days[d], p)
      BY <2>3 DEF DaysFor
    <3>2. ASSUME NEW e \in Days
          PROVE  /\ days'[e] = IF e = d THEN days[d] \cup {p} ELSE days[e]
                 /\ days[e] \in SUBSET Places /\ days'[e] \in SUBSET Places
                 /\ days[e] \in SUBSET days'[e]
      <4>1. \A x \in Days : days'[x] = (IF x = d THEN days[d] \cup {p} ELSE days[x])
                             /\ days[x] \in SUBSET Places
        BY <2>5 DEF TypeOK
      <4> QED
        BY <2>3, <4>1
    <3>3. p \notin days[d]
      BY <2>1, <2>2, <3>1 DEF Apart
    <3>4. WithinLimits(days[d] \cup {p})
      <4>1. days[d] \in SUBSET Places /\ p \in Places \ days[d] /\ WithinLimits(days[d])
        BY <2>3, <3>1, <3>2, <3>3 DEF AllocationInv
      <4> QED
        BY <1>0, <3>1, <4>1, LimitsOfMore
    <3>5. ASSUME NEW e \in Days PROVE WithinLimits(days[e])'
      <4>1. WithinLimits(days'[e])
        BY <3>2, <3>4 DEF AllocationInv
      <4>2. WithinLimits(days[e])' = WithinLimits(days'[e])
        BY <1>0, SameLimits
      <4> QED
        BY <4>1, <4>2
    <3>6. ASSUME NEW q \in Places, LeftOut(q) PROVE LeftOut(q)'
      <4>1. ASSUME NEW e \in Days PROVE ~CanAdd(days'[e], q)
        <5>1. days'[e] \in SUBSET Places /\ days[e] \in SUBSET days'[e] /\ ~CanAdd(days[e], q)
          BY <3>2, <3>6 DEF LeftOut
        <5> QED
          BY <1>0, <5>1, StillLeftOut
      <4> QED
        BY <1>0, <4>1, SameLimits DEF LeftOut
    <3>7. ASSUME NEW q \in selected, Somewhere(q) PROVE Somewhere(q)'
      <4>1. p \in days'[d] /\ \A e \in Days : days[e] \subseteq days'[e]
        BY <3>1, <3>2
      <4>2. q = p \/ q \in Waiting' \/ (\E c \in clusters' : q \in c) \/ (\E e \in Days : q \in days[e])
        BY <2>1, <2>2, <3>7
      <4> QED
        BY <3>1, <4>1, <4>2
    <3>8. selected \subseteq Places
      BY DEF TypeOK
    <3> QED
      BY <2>2, <3>5, <3>6, <3>7, <3>8 DEF AllocationInv, Packing
  <2> QED
    BY <2>1, <2>4, <2>5
<1>8. CASE Allocated
  BY <1>1, <1>8 DEF Allocated, AllocationInv, Packing, Waiting
<1>9. CASE ~Select /\ ~Selected /\ ~Cluster /\ ~Clustered /\ ~Prefer /\ ~Allocate /\ ~Allocated
  <2>1. UNCHANGED <<clusters, days, selected, Waiting>> /\ (stage = "select" <=> stage' = "select")
        /\ (stage \in Packing => UNCHANGED stage) /\ (stage \notin Packing => stage' \notin Packing)
    BY <1>9, AfterAllocation, AfterSelection DEF Waiting
  <2> QED
    BY <1>1, <2>1 DEF AllocationInv, Packing
<1> QED
  BY <1>2, <1>3, <1>4, <1>5, <1>6, <1>7, <1>8, <1>9

(***************************************************************************)
(* Routing                                                                 *)
(***************************************************************************)
LEMMA SameTravel ==
  ASSUME UNCHANGED input
  PROVE  \A d : Travel(ordered[d])' = Travel(ordered'[d])
  BY DEF Travel, Hop, Leg

LEMMA AfterRouting ==
  ASSUME TypeOK, [Next]_vars, ~OptimizeRoute
  PROVE  /\ UNCHANGED <<ordered, travel, dropped>>
         /\ stage \notin Packing => UNCHANGED days /\ stage' \notin Packing
         /\ RoutedDays' \subseteq RoutedDays
         /\ stage \in Packing => RoutedDays' = {}
  BY DEF Next, vars, routes, TypeOK, Packing, Timing, RoutedDays, Select, Selected, Cluster, Clustered,
         Prefer, Allocate, Allocated, Routed, ScheduleStop, Scheduled, Validate

LEMMA StillRouted ==
  ASSUME UNCHANGED input, NEW d, IsRouted(d),
         ordered'[d] = ordered[d], travel'[d] = travel[d], days'[d] = days[d], dropped'[d] = dropped[d]
  PROVE  IsRouted(d)'
<1>1. Travel(ordered[d])' = Travel(ordered[d])
  BY SameTravel
<1>2. (days[d] \ dropped[d])' = days[d] \ dropped[d]
  OBVIOUS
<1>3. (ToSet(ordered[d]) = days[d] \ dropped[d] /\ IsInjective(ordered[d]) /\ travel[d] = Travel(ordered[d]))'
  BY <1>1 DEF IsRouted, ToSet, IsInjective
<1>4. Cardinality(days[d] \ dropped[d])' = Cardinality(days[d] \ dropped[d])
      /\ Cardinality(dropped[d])' = Cardinality(dropped[d])
  BY <1>2
<1>5. (\/ travel[d] <= MaxTravel
       \/ Cardinality(days[d] \ dropped[d]) <= 1
       \/ Cardinality(dropped[d]) >= MaxPlaces - 1)'
  BY <1>4 DEF IsRouted
<1> QED
  BY <1>3, <1>5 DEF IsRouted

LEMMA NextRoute == TypeOK /\ RouteInv /\ [Next]_vars => RouteInv'
<1> SUFFICES ASSUME TypeOK, RouteInv, [Next]_vars PROVE RouteInv'
  OBVIOUS
<1>0. input' = input /\ input \in Inputs
  BY InputUnchanged DEF TypeOK
<1>1. CASE OptimizeRoute
  <2>1. PICK d \in todo : \E order \in BestOrders(days[d] \ dropped[d]) : Attempt(d, order)
    BY <1>1 DEF OptimizeRoute, Attempt, MayStop
  <2>2. PICK order \in BestOrders(days[d] \ dropped[d]) : Attempt(d, order)
    BY <2>1
  <2>3. stage = "route" /\ UNCHANGED <<stage, days>>
    BY <1>1 DEF OptimizeRoute
  <2>4. d \in Days /\ d \notin RoutedDays /\ days[d] \ dropped[d] \in SUBSET Places
    BY <2>3 DEF TypeOK, RoutedDays, Packing, Timing
  <2>5. \A e \in Days : /\ dropped[e] \subseteq days[e]
                        /\ \A p \in dropped[e], q \in days[e] \ dropped[e] :
                             input.score[p] <= input.score[q]
                        /\ dropped[e] = days[e] => days[e] = {}
    BY DEF RouteInv
  <2>6. CASE /\ MayStop(d, order)
             /\ ordered' = [ordered EXCEPT ![d] = order]
             /\ travel' = [travel EXCEPT ![d] = Travel(order)]
             /\ todo' = todo \ {d}
             /\ UNCHANGED dropped
    <3>1. ordered'[d] = order /\ travel'[d] = Travel(order)
      BY <2>4, <2>6 DEF TypeOK
    <3>2. Travel(ordered[d])' = Travel(order)
      BY <1>0, <3>1, SameTravel
    <3>3. ToSet(order) = days[d] \ dropped[d] /\ IsInjective(order)
      BY <2>4, OrdersVisitAll
    <3>4. IsRouted(d)'
      BY <2>3, <2>6, <3>1, <3>2, <3>3 DEF IsRouted, MayStop, ToSet, IsInjective
    <3>5. ASSUME NEW e \in RoutedDays PROVE IsRouted(e)'
      <4>1. e \in Days /\ e # d
        BY <2>3, <2>4 DEF RoutedDays, Timing
      <4>2. ordered'[e] = ordered[e] /\ travel'[e] = travel[e]
        BY <2>6, <4>1 DEF TypeOK
      <4> QED
        BY <1>0, <2>3, <2>6, <4>2, StillRouted DEF RouteInv
    <3>6. RoutedDays' \subseteq RoutedDays \cup {d}
      BY <2>3, <2>6 DEF RoutedDays, Timing
    <3> QED
      BY <1>0, <2>3, <2>5, <2>6, <3>4, <3>5, <3>6 DEF RouteInv, Packing
  <2>7. ASSUME ~MayStop(d, order), NEW victim \in days[d] \ dropped[d], LowestScored(victim, days[d] \ dropped[d]),
               dropped' = [dropped EXCEPT ![d] = @ \cup {victim}], UNCHANGED <<todo, ordered, travel>>
        PROVE  RouteInv'
    <3>1. ASSUME NEW e \in Days PROVE dropped'[e] = IF e = d THEN dropped[d] \cup {victim} ELSE dropped[e]
      BY <2>7 DEF TypeOK
    <3>2. \A q \in days[d] \ dropped[d] : input.score[victim] <= input.score[q]
      <4>1. \A q \in days[d] \ dropped[d] : input.score[q] \in Nat
        BY <1>0, <2>4, InputFacts
      <4> QED
        BY <2>7, <4>1 DEF LowestScored
    <3>3. ASSUME NEW e \in Days, NEW p \in dropped'[e], NEW q \in days[e] \ dropped'[e]
          PROVE  input.score[p] <= input.score[q]
      BY <2>5, <3>1, <3>2
    <3>4. ASSUME NEW e \in Days PROVE dropped'[e] \subseteq days[e]
      BY <2>5, <2>7, <3>1
    <3>5. ASSUME NEW e \in RoutedDays PROVE IsRouted(e)'
      <4>1. e \in Days /\ e # d
        BY <2>3, <2>4 DEF RoutedDays, Timing
      <4>2. dropped'[e] = dropped[e]
        BY <3>1, <4>1
      <4> QED
        BY <1>0, <2>3, <2>7, <4>2, StillRouted DEF RouteInv
    <3>6. RoutedDays' = RoutedDays
      BY <2>3, <2>7 DEF RoutedDays, Timing
    <3>7. ASSUME NEW e \in Days, dropped'[e] = days[e] PROVE days[e] = {}
      <4>1. CASE e = d
        <5>1. days[d] \ dropped[d] = {victim}
          BY <2>7, <3>1, <3>7, <4>1
        <5>2. Cardinality(days[d] \ dropped[d]) = 1
          BY <5>1, FS_Singleton
        <5> QED
          BY <2>7, <5>2 DEF MayStop
      <4>2. CASE e # d
        BY <2>5, <3>1, <3>7, <4>2
      <4> QED
        BY <4>1, <4>2
    <3> QED
      BY <1>0, <2>3, <3>3, <3>4, <3>5, <3>6, <3>7 DEF RouteInv, Packing
  <2> QED
    BY <2>2, <2>6, <2>7 DEF Attempt
<1>2. CASE ~OptimizeRoute
  <2>1. /\ UNCHANGED <<ordered, travel, dropped>>
        /\ stage \notin Packing => UNCHANGED days /\ stage' \notin Packing
        /\ RoutedDays' \subseteq RoutedDays
        /\ stage \in Packing => RoutedDays' = {}
    BY <1>2, AfterRouting
  <2>2. CASE stage \in Packing
    BY <1>0, <2>1, <2>2 DEF RouteInv
  <2>3. CASE stage \notin Packing
    <3>1. ASSUME NEW e \in RoutedDays PROVE IsRouted(e)'
      BY <1>0, <2>1, <2>3, StillRouted DEF RouteInv
    <3> QED
      BY <1>0, <2>1, <2>3, <3>1 DEF RouteInv
  <2> QED
    BY <2>2, <2>3
<1> QED
  BY <1>1, <1>2

(***************************************************************************)
(* Scheduling                                                              *)
(***************************************************************************)
LEMMA FirstStopIsTimed ==
  ASSUME NEW arrival \in Nat, NEW visit \in Nat,
         NEW at, at = StartVisit([clock |-> arrival, lunch |-> FALSE], visit)
  PROVE  /\ at.clock >= arrival
         /\ ~(at.clock < LunchStart /\ LunchStart < at.clock + visit)
         /\ at.lunch => at.clock + visit >= LunchStart
  BY ConstantFacts DEF StartVisit

LEMMA NextStopIsTimed ==
  ASSUME NEW end \in Nat, NEW minutes \in Nat, NEW visit \in Nat, NEW had \in BOOLEAN,
         had => end >= LunchStart,
         NEW at, at = StartVisit(GoOn(end, minutes, had), visit)
  PROVE  /\ \/ at.clock >= end + minutes
            \/ end < LunchStart /\ at.clock = LunchStart + LunchBreak
         /\ ~(at.clock < LunchStart /\ LunchStart < at.clock + visit)
         /\ at.lunch => at.clock + visit >= LunchStart
  BY ConstantFacts DEF StartVisit, GoOn

LEMMA AfterTiming ==
  ASSUME TypeOK, [Next]_vars, ~ScheduleStop, ~Routed
  PROVE  /\ UNCHANGED <<schedule, lunch>>
         /\ stage \in Timing => UNCHANGED ordered /\ stage' \in Timing /\ TimedDays' = TimedDays
         /\ stage \notin Timing => stage' \notin Timing /\ TimedDays' = {}
  BY DEF Next, vars, routes, TypeOK, Packing, Timing, TimedDays, Select, Selected, Cluster, Clustered,
         Prefer, Allocate, Allocated, OptimizeRoute, Scheduled, Validate

LEMMA SameSchedule ==
  ASSUME UNCHANGED input
  PROVE  \A d : /\ Kept(ordered[d])' = Kept(ordered'[d])
                /\ IsTimed(schedule[d], lunch[d])' <=> IsTimed(schedule'[d], lunch'[d])
  BY DEF Kept, IsMorning, IsTimed, Reachable, EndOf, Leg, Visit, Category

LEMMA NextSchedule == TypeOK /\ ScheduleInv /\ [Next]_vars => ScheduleInv'
<1> SUFFICES ASSUME TypeOK, ScheduleInv, [Next]_vars PROVE ScheduleInv'
  OBVIOUS
<1>0. input' = input /\ input \in Inputs
  BY InputUnchanged DEF TypeOK
<1>1. \A d \in Days : Visited(d) \subseteq Kept(ordered[d]) /\ IsTimed(schedule[d], lunch[d])
  BY DEF ScheduleInv
<1>2. CASE ScheduleStop
  <2>1. PICK d \in todo : \E p \in Kept(ordered[d]) \ Visited(d) : Stop(d, p)
    BY <1>2 DEF ScheduleStop, Stop
  <2>2. PICK p \in Kept(ordered[d]) \ Visited(d) : Stop(d, p)
    BY <2>1
  <2>3. stage = "schedule" /\ UNCHANGED <<stage, ordered>> /\ stage \in Timing
    BY <1>2 DEF ScheduleStop, routes, Timing
  <2>4. d \in Days
    BY <2>3 DEF TypeOK, Packing
  <2>5. p \in Places
    <3>1. PICK i \in DOMAIN ordered[d] : p = ordered[d][i]
      BY DEF Kept
    <3>2. ordered[d] \in Seq(Places)
      BY <2>4 DEF TypeOK
    <3> QED
      BY <3>1, <3>2
  <2> DEFINE at == StartVisit(Arrival(d, p), Visit(p))
             stop == [place |-> p, start |-> at.clock]
             stops == schedule[d]
             n == Len(stops)
             now == Append(stops, stop)
  <2>6. schedule' = [schedule EXCEPT ![d] = now] /\ lunch' = [lunch EXCEPT ![d] = at.lunch]
        /\ todo' = IF Kept(ordered[d]) \ Visited(d) = {p} THEN todo \ {d} ELSE todo
    BY <2>2 DEF Stop
  <2>7. at \in At /\ Visit(p) \in Nat
    BY <1>0, <2>4, <2>5, ArrivalType, StartVisitType, InputFacts
  <2>8. at.clock \in Nat /\ at.lunch \in BOOLEAN
    BY <2>7 DEF At
  <2>9. stops \in Seq([place : Places, start : Nat]) /\ lunch[d] \in BOOLEAN
    BY <2>4 DEF TypeOK
  <2>10. n \in Nat /\ DOMAIN stops = 1..n
    BY <2>9
  <2>11. DOMAIN now = 1..(n + 1) /\ now[n + 1] = stop /\ \A i \in 1..n : now[i] = stops[i]
    BY <2>9, <2>10
  <2>12. schedule'[d] = now /\ lunch'[d] = at.lunch
         /\ \A e \in Days : e # d => schedule'[e] = schedule[e] /\ lunch'[e] = lunch[e]
    <3> HIDE DEF now, at
    <3> QED
      BY <2>4, <2>6 DEF TypeOK
  <2>13. Visited(d)' = Visited(d) \cup {p}
    <3>1. Visited(d)' = {now[i].place : i \in DOMAIN now}
      BY <2>12 DEF Visited
    <3>2. now[n + 1].place = p
      BY <2>11
    <3>3. Visited(d) = {stops[i].place : i \in 1..n}
      BY <2>10 DEF Visited
    <3> HIDE DEF now, stops, n
    <3>4. \A i \in 1..(n + 1) : i \in 1..n \/ i = n + 1
      BY <2>10
    <3>5. 1..n \subseteq 1..(n + 1) /\ n + 1 \in 1..(n + 1)
      BY <2>10
    <3> QED
      BY <2>11, <3>1, <3>2, <3>3, <3>4, <3>5
  <2>14. IsTimed(stops, lunch[d])
    BY <1>1, <2>4
  <2>15. /\ Reachable(now, n + 1)
         /\ ~(stop.start < LunchStart /\ LunchStart < EndOf(stop))
         /\ at.lunch => EndOf(stop) >= LunchStart
    <3>1. EndOf(stop) = at.clock + Visit(p)
      BY DEF EndOf
    <3>2. CASE n = 0
      <4>1. Leg(Base, p) \in Nat /\ DayStart + Leg(Base, p) \in Nat
        <5>1. Base \in Places \cup {Base}
          OBVIOUS
        <5>2. Leg(Base, p) \in Nat
          BY <1>0, <2>5, <5>1, InputFacts
        <5> QED
          BY <5>2, ConstantFacts
      <4>2. Arrival(d, p) = [clock |-> DayStart + Leg(Base, p), lunch |-> FALSE]
        BY <3>2 DEF Arrival
      <4>3. /\ at.clock >= DayStart + Leg(Base, p)
            /\ ~(at.clock < LunchStart /\ LunchStart < at.clock + Visit(p))
            /\ at.lunch => at.clock + Visit(p) >= LunchStart
        BY <2>7, <4>1, <4>2, FirstStopIsTimed
      <4>4. now[1] = stop /\ n + 1 = 1
        BY <2>11, <3>2
      <4> HIDE DEF at, now, n
      <4> QED
        BY <3>1, <4>3, <4>4 DEF Reachable
    <3>3. CASE n # 0
      <4> DEFINE last == stops[n]
      <4>1. last \in [place : Places, start : Nat]
        BY <2>9, <3>3, LastType
      <4>2. last.place \in Places /\ last.start \in Nat
        BY <4>1
      <4> HIDE DEF last
      <4>3. EndOf(last) \in Nat /\ Leg(last.place, p) \in Nat
        BY <1>0, <2>5, <4>2, InputFacts DEF EndOf
      <4>4. Arrival(d, p) = GoOn(EndOf(last), Leg(last.place, p), lunch[d])
        BY <3>3 DEF Arrival, EndOf, last
      <4>5. lunch[d] => EndOf(last) >= LunchStart
        BY <2>14 DEF IsTimed, last
      <4>6. /\ \/ at.clock >= EndOf(last) + Leg(last.place, p)
               \/ EndOf(last) < LunchStart /\ at.clock = LunchStart + LunchBreak
            /\ ~(at.clock < LunchStart /\ LunchStart < at.clock + Visit(p))
            /\ at.lunch => at.clock + Visit(p) >= LunchStart
        BY <2>7, <2>9, <4>3, <4>4, <4>5, NextStopIsTimed
      <4>7. now[n] = last /\ now[n + 1] = stop /\ n + 1 # 1 /\ (n + 1) - 1 = n
        BY <2>10, <2>11, <3>3 DEF last
      <4> HIDE DEF at, now, n
      <4> QED
        BY <3>1, <4>6, <4>7 DEF Reachable
    <3> QED
      BY <3>2, <3>3
  <2>16. IsTimed(now, at.lunch)
    <3>1. ASSUME NEW i \in DOMAIN now
          PROVE  Reachable(now, i) /\ ~(now[i].start < LunchStart /\ LunchStart < EndOf(now[i]))
      <4>1. CASE i = n + 1
        BY <2>11, <2>15, <4>1
      <4>2. CASE i # n + 1
        <5>1. i \in 1..n /\ (i # 1 => i - 1 \in 1..n)
          BY <2>10, <2>11, <4>2
        <5>2. now[i] = stops[i] /\ (i # 1 => now[i - 1] = stops[i - 1])
          BY <2>11, <5>1
        <5>3. Reachable(stops, i) /\ ~(stops[i].start < LunchStart /\ LunchStart < EndOf(stops[i]))
          BY <2>10, <2>14, <5>1 DEF IsTimed
        <5> HIDE DEF now, stops
        <5> QED
          BY <5>2, <5>3 DEF Reachable
      <4> QED
        BY <4>1, <4>2
    <3>2. ASSUME NEW i \in DOMAIN now, NEW j \in DOMAIN now, now[i].place = now[j].place
          PROVE  i = j
      <4>1. \A k \in 1..n : stops[k].place # p
        BY <2>2, <2>10 DEF Visited
      <4>2. \A k \in DOMAIN now : IF k = n + 1 THEN now[k].place = p
                                  ELSE k \in 1..n /\ now[k].place = stops[k].place
        BY <2>10, <2>11
      <4>3. \A k, m \in 1..n : stops[k].place = stops[m].place => k = m
        BY <2>10, <2>14 DEF IsTimed
      <4> HIDE DEF now, stops, n
      <4> QED
        BY <3>2, <4>1, <4>2, <4>3
    <3>3. at.lunch => now # <<>> /\ EndOf(now[Len(now)]) >= LunchStart
      <4>1. Len(now) = n + 1
        BY <2>9
      <4> HIDE DEF at
      <4> QED
        BY <2>10, <2>11, <2>15, <4>1
    <3> HIDE DEF now, at
    <3> QED
      BY <3>1, <3>2, <3>3 DEF IsTimed
  <2>17. IsTimed(schedule[d], lunch[d])' /\ Kept(ordered[d])' = Kept(ordered[d])
    <3>1. IsTimed(schedule'[d], lunch'[d])
      BY <2>12, <2>16
    <3> QED
      BY <1>0, <2>3, <3>1, SameSchedule
  <2>18. ASSUME NEW e \in Days, e # d
         PROVE  /\ IsTimed(schedule[e], lunch[e])' /\ Kept(ordered[e])' = Kept(ordered[e])
                /\ Visited(e)' = Visited(e)
    <3>1. IsTimed(schedule'[e], lunch'[e])
      BY <1>1, <2>12, <2>18
    <3>2. Visited(e)' = Visited(e)
      BY <2>12, <2>18 DEF Visited
    <3> QED
      BY <1>0, <2>3, <3>1, <3>2, SameSchedule
  <2>19. ASSUME NEW e \in Days PROVE Visited(e)' \subseteq Kept(ordered[e])' /\ IsTimed(schedule[e], lunch[e])'
    BY <1>1, <2>2, <2>13, <2>17, <2>18
  <2>20. ASSUME NEW e \in TimedDays' PROVE Kept(ordered[e])' \subseteq Visited(e)'
    <3>1. e \in Days /\ e \notin todo'
      BY <2>3, <2>20 DEF TimedDays
    <3>2. CASE e = d
      <4>1. Kept(ordered[d]) \ Visited(d) = {p}
        BY <2>6, <3>1, <3>2
      <4> QED
        BY <2>13, <2>17, <3>2, <4>1
    <3>3. CASE e # d
      <4>1. e \in TimedDays
        BY <2>3, <2>6, <3>1, <3>3 DEF TimedDays
      <4>2. Kept(ordered[e]) \subseteq Visited(e)
        BY <4>1 DEF ScheduleInv
      <4> QED
        BY <2>18, <3>1, <3>3, <4>2
    <3> QED
      BY <3>2, <3>3
  <2> QED
    BY <2>3, <2>19, <2>20 DEF ScheduleInv
<1>3. CASE Routed
  <2>1. stage = "route" /\ stage' = "schedule" /\ UNCHANGED <<ordered, schedule, lunch>>
        /\ todo' = {d \in Days : ordered[d] # <<>>}
    BY <1>3 DEF Routed, routes
  <2>2. \A d \in Days : IsTimed(schedule[d], lunch[d])' /\ Kept(ordered[d])' = Kept(ordered[d])
    BY <1>0, <1>1, <2>1, SameSchedule
  <2>3. \A d : Visited(d)' = Visited(d)
    BY <2>1 DEF Visited
  <2>4. ASSUME NEW d \in TimedDays' PROVE Kept(ordered[d])' = {}
    <3>1. d \in Days /\ ordered[d] = <<>>
      BY <2>1, <2>4 DEF TimedDays
    <3>2. Kept(<<>>) = {}
      BY DEF Kept
    <3> QED
      BY <2>2, <3>1, <3>2
  <2> QED
    BY <1>1, <2>1, <2>2, <2>3, <2>4 DEF ScheduleInv, Timing
<1>4. CASE ~ScheduleStop /\ ~Routed
  <2>1. /\ UNCHANGED <<schedule, lunch>>
        /\ stage \in Timing => UNCHANGED ordered /\ stage' \in Timing /\ TimedDays' = TimedDays
        /\ stage \notin Timing => stage' \notin Timing /\ TimedDays' = {}
    BY <1>4, AfterTiming
  <2>2. ASSUME NEW d
        PROVE  /\ Visited(d)' = Visited(d)
               /\ IsTimed(schedule[d], lunch[d])' <=> IsTimed(schedule[d], lunch[d])
    <3>1. schedule'[d] = schedule[d] /\ lunch'[d] = lunch[d]
      BY <2>1
    <3>2. IsTimed(schedule[d], lunch[d])' <=> IsTimed(schedule'[d], lunch'[d])
      BY <1>0, SameSchedule
    <3> QED
      BY <2>1, <3>1, <3>2 DEF Visited
  <2>3. CASE stage \in Timing
    <3>1. ASSUME NEW d PROVE Kept(ordered[d])' = Kept(ordered[d])
      <4>1. ordered'[d] = ordered[d]
        BY <2>1, <2>3
      <4>2. Kept(ordered[d])' = Kept(ordered'[d])
        BY <1>0, SameSchedule
      <4> QED
        BY <4>1, <4>2
    <3> QED
      BY <1>1, <2>1, <2>2, <2>3, <3>1 DEF ScheduleInv
  <2>4. CASE stage \notin Timing
    <3>1. \A d \in Days : Visited(d) = {}
      BY <2>4 DEF ScheduleInv, Visited
    <3> QED
      BY <1>1, <2>1, <2>2, <2>4, <3>1 DEF ScheduleInv
  <2> QED
    BY <2>3, <2>4
<1> QED
  BY <1>2, <1>3, <1>4

(***************************************************************************)
(* The inductive invariant                                                 *)
(***************************************************************************)
LEMMA NextVerdict == TypeOK /\ VerdictInv /\ [Next]_vars => VerdictInv'
<1> SUFFICES ASSUME TypeOK, VerdictInv, [Next]_vars, verdict' = "passed"
             PROVE  stage' = "done" /\ \A d \in Days : TravelCap(d)' /\ HasAnchor(d)'
  BY DEF VerdictInv
<1>1. CASE Validate
  <2>1. \A d \in Days : TravelCap(d) /\ HasAnchor(d)
    BY <1>1 DEF Validate
  <2>2. stage' = "done" /\ UNCHANGED <<input, travel, schedule>>
    BY <1>1 DEF Validate, routes
  <2> QED
    BY <2>1, <2>2 DEF TravelCap, HasAnchor
<1>2. CASE ~Validate
  <2>1. verdict = "passed"
    BY <1>2 DEF Next, vars, Select, Selected, Cluster, Clustered, Prefer, Allocate, Allocated,
                OptimizeRoute, Routed, ScheduleStop, Scheduled
  <2>2. stage = "done" /\ \A d \in Days : TravelCap(d) /\ HasAnchor(d)
    BY <2>1 DEF VerdictInv
  <2>3. UNCHANGED vars
    BY <1>2, <2>2 DEF Next, Select, Selected, Cluster, Clustered, Prefer, Allocate, Allocated,
                OptimizeRoute, Routed, ScheduleStop, Scheduled
  <2> QED
    BY <2>2, <2>3 DEF vars, routes, TravelCap, HasAnchor
<1> QED
  BY <1>1, <1>2

LEMMA InitIInv == Init => IInv
<1> SUFFICES ASSUME Init PROVE IInv
  OBVIOUS
<1>1. TypeOK
  BY InitType
<1>2. stage = "select" /\ clusters = {} /\ todo = Places /\ selected = {} /\ verdict = "none"
      /\ \A d \in Days : days[d] = {} /\ ordered[d] = <<>> /\ dropped[d] = {} /\ schedule[d] = <<>> /\ ~lunch[d]
  BY DEF Init
<1>3. SelectionInv /\ Apart /\ VerdictInv
  BY <1>2 DEF SelectionInv, Apart, Waiting, Packing, VerdictInv
<1>4. AllocationInv
  BY <1>1, <1>2, EmptyDay DEF AllocationInv, Packing, TypeOK
<1>5. RouteInv
  BY <1>2 DEF RouteInv, RoutedDays, Packing, Timing
<1>6. ScheduleInv
  <2>1. \A d \in Days : IsTimed(schedule[d], lunch[d]) /\ Visited(d) = {}
    BY <1>2 DEF IsTimed, Visited
  <2>2. TimedDays = {}
    BY <1>2 DEF TimedDays
  <2> QED
    BY <1>2, <2>1, <2>2 DEF ScheduleInv
<1> QED
  BY <1>1, <1>3, <1>4, <1>5, <1>6 DEF IInv

LEMMA NextIInv == IInv /\ [Next]_vars => IInv'
  BY NextType, NextSelection, NextApart, NextAllocation, NextRoute, NextSchedule, NextVerdict DEF IInv

(***************************************************************************)
(* What follows from it                                                    *)
(***************************************************************************)
\* The allocation has capped the morning-only places of a day, so the schedule
\* omits none: the safety net of _extract_morning_first never catches one.
LEMMA NoneOmitted ==
  ASSUME TypeOK, NEW d \in Days, IsRouted(d), dropped[d] \subseteq days[d], WithinLimits(days[d])
  PROVE  Kept(ordered[d]) = days[d] \ dropped[d]
<1> DEFINE order == ordered[d]
           M == Mornings(days[d])
<1>1. order \in Seq(Places) /\ IsInjective(order) /\ ToSet(order) = days[d] \ dropped[d]
  BY DEF TypeOK, IsRouted
<1>2. Len(order) \in Nat /\ DOMAIN order = 1..Len(order)
  BY <1>1
<1>3. days[d] \in SUBSET Places /\ M \in SUBSET Places
  BY DEF TypeOK, Mornings
<1>4. ASSUME NEW i \in DOMAIN order, IsMorning(order[i])
      PROVE  Cardinality({j \in DOMAIN order : j < i /\ IsMorning(order[j])}) < MorningSlots
  <2> DEFINE J == {j \in DOMAIN order : j < i /\ IsMorning(order[j])}
             f == [j \in J |-> order[j]]
             rest == M \ {order[i]}
  <2>1. \A j \in DOMAIN order : order[j] \in days[d]
    BY <1>1 DEF ToSet
  <2>2. order[i] \in M
    BY <1>4, <2>1 DEF Mornings
  <2>3. IsFiniteSet(M) /\ IsFiniteSet(rest) /\ Cardinality(rest) = Cardinality(M) - 1
    BY <1>3, <2>2, PlacesFinite, FS_RemoveElement
  <2>4. ASSUME NEW j \in J PROVE order[j] \in rest
    <3>1. j \in DOMAIN order /\ j # i /\ IsMorning(order[j])
      BY <1>2
    <3> QED
      BY <1>1, <2>1, <3>1 DEF IsInjective, Mornings
  <2>5. f \in Injection(J, rest)
    BY <1>1, <2>4 DEF Injection, IsInjective
  <2> HIDE DEF f, rest
  <2>6. IsFiniteSet(J) /\ Cardinality(J) <= Cardinality(rest)
    BY <2>3, <2>5, FS_Injection
  <2>7. Cardinality(J) \in Nat /\ Cardinality(M) \in Nat
    BY <2>3, <2>6, FS_CardinalityType
  <2>8. Cardinality(M) <= MorningSlots
    BY DEF WithinLimits
  <2> HIDE DEF J, M
  <2>9. Cardinality(J) < MorningSlots
    BY <2>3, <2>6, <2>7, <2>8, ConstantFacts
  <2> QED
    BY <2>9 DEF J
<1>5. Kept(order) = ToSet(order)
  BY <1>4 DEF Kept, ToSet
<1> QED
  BY <1>1, <1>5

LEMMA SettledDays ==
  ASSUME IInv, stage \in {"validate", "done"}, NEW d \in Days
  PROVE  /\ Visited(d) = days[d] \ dropped[d]
         /\ travel[d] = Travel(ordered[d])
         /\ IsTimed(schedule[d], lunch[d])
         /\ dropped[d] \subseteq days[d]
         /\ WithinLimits(days[d])
<1>1. RoutedDays = Days /\ TimedDays = Days
  BY DEF RoutedDays, TimedDays, Timing
<1>2. IsRouted(d) /\ dropped[d] \subseteq days[d] /\ WithinLimits(days[d]) /\ TypeOK
  BY <1>1 DEF IInv, RouteInv, AllocationInv
<1>3. Kept(ordered[d]) = days[d] \ dropped[d]
  BY <1>2, NoneOmitted
<1>4. Visited(d) = Kept(ordered[d]) /\ IsTimed(schedule[d], lunch[d])
  BY <1>1 DEF IInv, ScheduleInv
<1> QED
  BY <1>2, <1>3, <1>4 DEF IsRouted

LEMMA IInvNoRepeats ==
  ASSUME IInv, stage \in {"validate", "done"}
  PROVE  NoRepeats
<1> SUFFICES ASSUME NEW d \in Days, NEW e \in Days, NEW i \in DOMAIN schedule[d], NEW j \in DOMAIN schedule[e],
                    schedule[d][i].place = schedule[e][j].place
             PROVE  d = e /\ i = j
  BY DEF NoRepeats
<1>1. schedule[d][i].place \in days[d] /\ schedule[e][j].place \in days[e]
  BY SettledDays DEF Visited
<1>2. d = e
  BY <1>1 DEF IInv, Apart
<1>3. IsTimed(schedule[d], lunch[d])
  BY SettledDays
<1> QED
  BY <1>2, <1>3 DEF IsTimed

LEMMA IInvAccounted == IInv => PlacesAreAccountedFor
<1> SUFFICES ASSUME IInv, stage \in {"validate", "done"}, NEW p \in Places
             PROVE  \/ \E d \in Days : p \in Visited(d)
                    \/ \E q \in selected : Conflicts(p, q) /\ Before(q, p)
                    \/ /\ p \in selected
                       /\ \A d \in Days : p \notin days[d] /\ ~CanAdd(days[d], p)
                    \/ \E d \in Days : /\ p \in dropped[d]
                                       /\ \A q \in Visited(d) : input.score[q] >= input.score[p]
  BY IInvNoRepeats DEF PlacesAreAccountedFor
<1>1. CASE p \notin selected
  BY <1>1 DEF IInv, SelectionInv
<1>2. CASE p \in selected
  <2>1. (\E d \in Days : p \in days[d]) \/ LeftOut(p)
    BY <1>2 DEF IInv, AllocationInv, Waiting, Packing
  <2>2. ASSUME NEW d \in Days, p \in days[d], p \notin dropped[d]
        PROVE  p \in Visited(d)
    BY <2>2, SettledDays
  <2>3. ASSUME NEW d \in Days, p \in dropped[d], NEW q \in Visited(d)
        PROVE  input.score[q] >= input.score[p]
    <3>1. q \in days[d] \ dropped[d]
      BY SettledDays
    <3>2. input.score[p] <= input.score[q]
      BY <2>3, <3>1 DEF IInv, RouteInv
    <3>3. p \in Places /\ q \in Places /\ input \in Inputs
      BY <3>1 DEF IInv, TypeOK
    <3>4. input.score[p] \in Nat /\ input.score[q] \in Nat
      BY <3>3, InputFacts
    <3> QED
      BY <3>2, <3>4
  <2> QED
    BY <1>2, <2>1, <2>2, <2>3 DEF LeftOut
<1> QED
  BY <1>1, <1>2

LEMMA IInvLimits == IInv => PassedTripsKeepTheirLimits
<1> SUFFICES ASSUME IInv, verdict = "passed", NEW d \in Days
             PROVE  LET order == [i \in DOMAIN schedule[d] |-> schedule[d][i].place]
                        start(i) == schedule[d][i].start
                        end(i) == start(i) + Visit(order[i])
                    IN /\ order # <<>> /\ Len(order) <= MaxPlaces
                       /\ VisitMinutes(Visited(d)) <= VisitBudget
                       /\ order = ordered[d] => Travel(order) <= MaxTravel
                       /\ start(1) >= DayStart + Hop(order, 1)
                       /\ \A i \in 2..Len(order) :
                            \/ start(i) >= end(i - 1) + Hop(order, i)
                            \/ end(i - 1) < LunchStart /\ start(i) = LunchStart + LunchBreak
                       /\ \A i \in DOMAIN order :
                            ~(start(i) < LunchStart /\ LunchStart < end(i))
  BY DEF PassedTripsKeepTheirLimits
<1> DEFINE stops == schedule[d]
           n == Len(stops)
           order == [i \in DOMAIN stops |-> stops[i].place]
<1>1. stage = "done" /\ TravelCap(d) /\ HasAnchor(d) /\ input \in Inputs
  BY DEF IInv, VerdictInv, TypeOK
<1>2. Visited(d) = days[d] \ dropped[d] /\ travel[d] = Travel(ordered[d])
      /\ IsTimed(stops, lunch[d]) /\ WithinLimits(days[d])
  BY <1>1, SettledDays
<1>3. stops \in Seq([place : Places, start : Nat]) /\ days[d] \in SUBSET Places
  BY DEF IInv, TypeOK
<1>4. n \in Nat /\ DOMAIN stops = 1..n /\ n # 0
  BY <1>1, <1>3 DEF HasAnchor
<1>5. order \in Seq(Places) /\ Len(order) = n /\ DOMAIN order = 1..n
  <2>1. ASSUME NEW i \in 1..n PROVE stops[i] \in [place : Places, start : Nat]
    BY <1>3, ElementType
  <2>2. \A i \in 1..n : stops[i].place \in Places
    BY <2>1
  <2> HIDE DEF stops, n
  <2>3. order \in [1..n -> Places]
    BY <1>4, <2>2
  <2> HIDE DEF order
  <2> QED
    BY <1>4, <2>3
<1>6. n <= MaxPlaces
  <2>1. \A i \in 1..n : order[i] \in days[d]
    BY <1>2, <1>4 DEF Visited
  <2>2. order \in Injection(1..n, days[d])
    BY <1>2, <1>4, <1>5, <2>1 DEF Injection, IsInjective, IsTimed
  <2>3. Cardinality(1..n) <= Cardinality(days[d]) /\ Cardinality(1..n) = n
    <3>1. IsFiniteSet(days[d])
      BY <1>3, PlacesFinite
    <3>2. Cardinality(1..n) <= Cardinality(days[d])
      BY <2>2, <3>1, FS_Injection
    <3>3. Cardinality(1..n) = n
      BY <1>4, FS_Interval
    <3> QED
      BY <3>2, <3>3
  <2>4. Cardinality(days[d]) \in Nat /\ Cardinality(days[d]) <= MaxPlaces
    BY <1>2, <1>3, PlacesFinite DEF WithinLimits
  <2> QED
    BY <1>4, <2>3, <2>4, ConstantFacts
<1>7. VisitMinutes(Visited(d)) <= VisitBudget
  <2>1. Visited(d) \in SUBSET days[d] /\ IsFiniteSet(days[d]) /\ IsFiniteSet(Visited(d))
    BY <1>2, <1>3, PlacesFinite
  <2>2. \A p \in days[d] : Visit(p) \in Nat
    BY <1>1, <1>3, InputFacts
  <2>3. VisitMinutes(Visited(d)) <= VisitMinutes(days[d])
    BY <2>1, <2>2, VisitMinutesMonotone
  <2>4. VisitMinutes(Visited(d)) \in Nat /\ VisitMinutes(days[d]) \in Nat
    BY <2>1, <2>2, VisitMinutesType
  <2> QED
    BY <1>2, <2>3, <2>4, ConstantFacts DEF WithinLimits
<1>8. order = ordered[d] => Travel(order) <= MaxTravel
  BY <1>1, <1>2 DEF TravelCap
<1>9. \A i \in 1..n : Reachable(stops, i) /\ ~(stops[i].start < LunchStart /\ LunchStart < EndOf(stops[i]))
  BY <1>2, <1>4 DEF IsTimed
<1>10. \A i \in 1..n : EndOf(stops[i]) = stops[i].start + Visit(order[i])
  BY <1>4 DEF EndOf
<1>11. stops[1].start >= DayStart + Hop(order, 1)
  BY <1>4, <1>9 DEF Reachable, Hop
<1>12. ASSUME NEW i \in 2..n
       PROVE  \/ stops[i].start >= (stops[i - 1].start + Visit(order[i - 1])) + Hop(order, i)
              \/ /\ stops[i - 1].start + Visit(order[i - 1]) < LunchStart
                 /\ stops[i].start = LunchStart + LunchBreak
  <2>1. i \in 1..n /\ i - 1 \in 1..n /\ i # 1
    BY <1>4
  <2>2. Hop(order, i) = Leg(stops[i - 1].place, stops[i].place)
    BY <1>4, <2>1 DEF Hop
  <2> HIDE DEF order, stops
  <2> QED
    BY <1>9, <1>10, <2>1, <2>2 DEF Reachable
<1>13. \A i \in 1..n : ~(stops[i].start < LunchStart /\ LunchStart < stops[i].start + Visit(order[i]))
  BY <1>9, <1>10
<1>14. order # <<>>
  BY <1>4, <1>5
<1> QED
  BY <1>5, <1>6, <1>7, <1>8, <1>11, <1>12, <1>13, <1>14

\* IInv holds in every reachable state.
LEMMA SpecIInv == Spec => []IInv
  BY InitIInv, NextIInv, PTL DEF Spec

\* The variables keep their types.
THEOREM DayPlanningTypes == Spec => []TypeOK
<1>1. IInv => TypeOK
  BY DEF IInv
<1> QED
  BY <1>1, SpecIInv, PTL

\* Every candidate is visited once, or missing for a reason that still holds when
\* the trip is scheduled (select_places, allocate_days, optimize_route,
\* build_day_schedule one after another).
THEOREM EveryPlaceIsAccountedFor == Spec => []PlacesAreAccountedFor
  BY SpecIInv, IInvAccounted, PTL

\* build_day_schedule times every stop that optimize_route kept: the cap of
\* allocate_days leaves the safety net of _extract_morning_first nothing to omit.
THEOREM ScheduleOmitsNoStop ==
  Spec => [](stage \in {"validate", "done"} => \A d \in Days : Visited(d) = ToSet(ordered[d]))
<1>1. ASSUME IInv, stage \in {"validate", "done"}, NEW d \in Days
      PROVE  Visited(d) = ToSet(ordered[d])
  <2>1. IsRouted(d)
    BY <1>1 DEF IInv, RouteInv, RoutedDays, Timing
  <2> QED
    BY <1>1, <2>1, SettledDays DEF IsRouted
<1>2. IInv => (stage \in {"validate", "done"} => \A d \in Days : Visited(d) = ToSet(ordered[d]))
  BY <1>1
<1> QED
  BY <1>2, SpecIInv, PTL

\* A day that optimize_route leaves over the travel limit (still_over_budget) has
\* one stop: allocate_days gives it no more places than MAX_ROUTE_DROP_ATTEMPTS allows.
THEOREM OverBudgetDaysHaveOneStop ==
  Spec => [](stage \in Timing => \A d \in Days : travel[d] <= MaxTravel \/ Len(ordered[d]) <= 1)
<1>1. ASSUME IInv, stage \in Timing, NEW d \in Days
      PROVE  travel[d] <= MaxTravel \/ Len(ordered[d]) <= 1
  <2> DEFINE order == ordered[d]
             kept == days[d] \ dropped[d]
  <2>1. TypeOK /\ IsRouted(d) /\ dropped[d] \subseteq days[d] /\ WithinLimits(days[d])
    BY <1>1 DEF IInv, RouteInv, RoutedDays, AllocationInv, Timing
  <2>2. days[d] \in SUBSET Places /\ order \in Seq(Places)
    BY <2>1 DEF TypeOK
  <2>3. IsFiniteSet(days[d]) /\ IsFiniteSet(dropped[d]) /\ IsFiniteSet(kept)
    BY <2>1, <2>2, PlacesFinite, FS_Subset
  <2>4. Cardinality(dropped[d]) >= MaxPlaces - 1 => Cardinality(kept) <= 1
    <3>1. Cardinality(kept) = Cardinality(days[d]) - Cardinality(days[d] \cap dropped[d])
      BY <2>3, FS_Difference
    <3>2. days[d] \cap dropped[d] = dropped[d]
      BY <2>1
    <3>3. Cardinality(days[d]) \in Nat /\ Cardinality(dropped[d]) \in Nat
      BY <2>3, FS_CardinalityType
    <3>4. Cardinality(kept) = Cardinality(days[d]) - Cardinality(dropped[d])
      BY <3>1, <3>2
    <3>5. Cardinality(days[d]) <= MaxPlaces /\ MaxPlaces \in Nat
      BY <2>1, ConstantFacts DEF WithinLimits
    <3> HIDE DEF kept
    <3> QED
      BY <3>3, <3>4, <3>5
  <2>5. Cardinality(kept) <= 1 => Len(order) <= 1
    <3> SUFFICES ASSUME Len(order) > 1 PROVE Cardinality(kept) > 1
      BY <2>2, <2>3, FS_CardinalityType
    <3>1. order[1] # order[2] /\ {order[1], order[2]} \subseteq kept
      BY <2>1, <2>2 DEF IsRouted, IsInjective, ToSet
    <3>2. Cardinality({order[1], order[2]}) = 2
      <4>1. IsFiniteSet({order[1]}) /\ Cardinality({order[1]}) = 1
        BY FS_Singleton
      <4>2. {order[1], order[2]} = {order[1]} \cup {order[2]}
        OBVIOUS
      <4>3. order[2] \notin {order[1]}
        BY <3>1
      <4>4. Cardinality({order[1]} \cup {order[2]}) = Cardinality({order[1]}) + 1
        BY <4>1, <4>3, FS_AddElement
      <4> QED
        BY <4>1, <4>2, <4>4
    <3> QED
      BY <2>3, <3>1, <3>2, FS_Subset, FS_CardinalityType
  <2> QED
    BY <2>1, <2>4, <2>5 DEF IsRouted
<1>2. IInv => (stage \in Timing => \A d \in Days : travel[d] <= MaxTravel \/ Len(ordered[d]) <= 1)
  BY <1>1
<1> QED
  BY <1>2, SpecIInv, PTL

\* A plan made from any candidate has a stop, which AgentLoop takes for granted of
\* every schedule: a day with room accepts some place, and no stage gives up the last one.
THEOREM PlansHaveStops ==
  Spec => [](stage \in {"validate", "done"} /\ Places # {} => \E d \in Days : Visited(d) # {})
<1>1. ASSUME IInv, stage \in {"validate", "done"}, Places # {}
      PROVE  \E d \in Days : Visited(d) # {}
  <2>1. PICK p \in selected : TRUE
    BY <1>1 DEF IInv, SelectionInv
  <2>2. p \in Places /\ input \in Inputs
    BY <1>1 DEF IInv, TypeOK
  <2>3. (\E d \in Days : p \in days[d]) \/ LeftOut(p)
    BY <1>1, <2>1 DEF IInv, AllocationInv, Waiting, Packing
  <2>4. CanAdd({}, p)
    <3>1. Cardinality({}) = 0 /\ Mornings({}) = {}
      BY FS_EmptySet DEF Mornings
    <3>2. VisitMinutes({}) = 0
      BY FS_EmptySet, VisitMinutesUnfolds
    <3>3. Visit(p) \in Nat /\ Visit(p) <= VisitBudget
      BY <2>2, InputFacts, RoomAssumption, DayPlanningAssumption DEF Visit, Category
    <3> QED
      BY <3>1, <3>2, <3>3, RoomAssumption DEF CanAdd
  <2>5. PICK d \in Days : days[d] # {}
    BY <2>3, <2>4, RoomAssumption DEF LeftOut
  <2>6. dropped[d] # days[d]
    BY <1>1, <2>5 DEF IInv, RouteInv
  <2> QED
    BY <1>1, <2>5, <2>6, SettledDays
<1>2. IInv => (stage \in {"validate", "done"} /\ Places # {} => \E d \in Days : Visited(d) # {})
  BY <1>1
<1> QED
  BY <1>2, SpecIInv, PTL

\* A trip that validate_trip passed has its stops and visits within the limits of
\* the engine, and lacks the time of no hop but one that lunch interrupts.
THEOREM EveryPassedTripKeepsItsLimits == Spec => []PassedTripsKeepTheirLimits
  BY SpecIInv, IInvLimits, PTL
=============================================================================
