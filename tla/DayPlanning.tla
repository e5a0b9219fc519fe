------------------------------ MODULE DayPlanning ------------------------------
(***************************************************************************)
(* The travel engine, from candidates to a verdict: select_places,         *)
(* allocate_days, optimize_route, build_day_schedule and validate_trip, as *)
(* the tools of the planner chain them.  Each loop of the code is an       *)
(* action, so that what a stage leaves out can be followed to the end.  A  *)
(* loop over a sorted list takes the first of the set that is left.        *)
(*                                                                         *)
(* Where the places lie is left out: a place may join any cluster, a spill *)
(* may go to any day that can accept it, a day may be coherent or not.     *)
(* Travel times are given; times of day are minutes after midnight.        *)
(***************************************************************************)
EXTENDS Naturals, FiniteSets, Sequences, FiniteSetsExt, SequencesExt

CONSTANTS
  Places,       \* numbered in the order that breaks ties: by name, then id
  Base,         \* where every day starts; not a place
  Days,         \* 1..n
  Duration,     \* visit minutes, by category
  MorningOnly,  \* categories
  Avoided,      \* categories of which only one place is selected
  MaxPlaces, VisitBudget, MorningSlots,           \* of a day
  MaxTravel, LatestMorning, AnchorMin,            \* limits the validator checks
  DayStart, LunchStart, LunchBreak, Midnight,
  Inputs        \* [category, score, minutes]

ASSUME DayPlanningAssumption ==
  /\ Places \subseteq Nat /\ IsFiniteSet(Places) /\ Base \notin Places
  /\ Days \subseteq Nat /\ IsFiniteSet(Days)
  /\ Duration \in [DOMAIN Duration -> Nat]
  /\ {MaxPlaces, VisitBudget, MorningSlots, DayStart, LunchStart, LunchBreak} \subseteq Nat
  /\ \A i \in Inputs : /\ i.score \in [Places -> Nat]
                       /\ i.category \in [Places -> DOMAIN Duration]
                       /\ i.minutes \in [(Places \cup {Base}) \X Places -> Nat]

\* There is a day (allocate_days raises otherwise), and by the values of
\* travel_rules any one place fits into it.
ASSUME RoomAssumption ==
  Days # {} /\ MaxPlaces > 0 /\ MorningSlots > 0 /\ \A c \in DOMAIN Duration : Duration[c] <= VisitBudget

VARIABLES
  input,
  stage,     \* of the planner's chain
  todo,      \* the places, or the days, a stage has yet to look at
  selected,  \* select_places
  clusters,  \* the clusters to allocate
  target,    \* the day preferred for the cluster being allocated
  days,      \* allocate_days, by day; the order of arrival does not matter
  ordered, travel, dropped,  \* optimize_route, by day
  schedule,  \* build_day_schedule, by day: a sequence of [place, start]
  lunch,     \* by day, whether lunch has been taken
  verdict    \* validate_trip: "none", "passed" or "failed"

routes == <<ordered, travel, dropped>>
vars == <<input, stage, todo, selected, clusters, target, days, routes, schedule, lunch, verdict>>

Category(p) == input.category[p]
Visit(p) == Duration[Category(p)]
IsMorning(p) == Category(p) \in MorningOnly

\* The key (-score, name, id) of every sort and choice of the engine.
Before(p, q) ==
  \/ input.score[p] > input.score[q]
  \/ input.score[p] = input.score[q] /\ p < q
First(p, S) == p \in S /\ \A q \in S \ {p} : Before(p, q)

Init ==
  /\ input \in Inputs
  /\ stage = "select"
  /\ todo = Places
  /\ selected = {} /\ clusters = {}
  /\ target = 0
  /\ days = [d \in Days |-> {}]
  /\ ordered = [d \in Days |-> <<>>]
  /\ travel = [d \in Days |-> 0]
  /\ dropped = [d \in Days |-> {}]
  /\ schedule = [d \in Days |-> <<>>]
  /\ lunch = [d \in Days |-> FALSE]
  /\ verdict = "none"

(***************************************************************************)
(* select_places                                                           *)
(***************************************************************************)
Conflicts(p, q) == Category(p) = Category(q) /\ Category(p) \in Avoided

Select ==
  /\ stage = "select"
  /\ \E p \in todo :
       /\ First(p, todo)
       /\ selected' = IF \E q \in selected : Conflicts(p, q) THEN selected ELSE selected \cup {p}
       /\ todo' = todo \ {p}
  /\ UNCHANGED <<input, stage, clusters, target, days, routes, schedule, lunch, verdict>>

Selected ==
  /\ stage = "select" /\ todo = {}
  /\ stage' = "cluster"
  /\ todo' = selected
  /\ UNCHANGED <<input, selected, clusters, target, days, routes, schedule, lunch, verdict>>

(***************************************************************************)
(* allocate_days                                                           *)
(***************************************************************************)
\* _build_clusters: into the first cluster that is near enough, or a new one.
Cluster ==
  /\ stage = "cluster"
  /\ \E p \in todo :
       /\ First(p, todo)
       /\ \/ clusters' = clusters \cup {{p}}
          \/ \E c \in clusters : clusters' = (clusters \ {c}) \cup {c \cup {p}}
       /\ todo' = todo \ {p}
  /\ UNCHANGED <<input, stage, selected, target, days, routes, schedule, lunch, verdict>>

Clustered ==
  /\ stage = "cluster" /\ todo = {}
  /\ stage' = "allocate"
  /\ UNCHANGED <<input, todo, selected, clusters, target, days, routes, schedule, lunch, verdict>>

\* By the score of the best member, then by size; the sort is stable, and the
\* clusters were created in the order of their best members.
Precedes(c, e) ==
  LET best(S) == CHOOSE p \in S : First(p, S)
      score(S) == input.score[best(S)]
  IN \/ score(c) > score(e)
     \/ score(c) = score(e) /\ Cardinality(c) > Cardinality(e)
     \/ score(c) = score(e) /\ Cardinality(c) = Cardinality(e) /\ best(c) < best(e)

VisitMinutes(day) == MapThenSumSet(Visit, day)
Mornings(S) == {p \in S : IsMorning(p)}

CanAdd(day, p) ==
  /\ Cardinality(day) < MaxPlaces
  /\ IsMorning(p) => Cardinality(Mornings(day)) < MorningSlots
  /\ VisitMinutes(day) + Visit(p) <= VisitBudget

\* The day with the fewest places, the first of those.
Prefer ==
  /\ stage = "allocate" /\ todo = {}
  /\ \E c \in clusters :
       /\ \A e \in clusters \ {c} : Precedes(c, e)
       /\ clusters' = clusters \ {c}
       /\ todo' = c
  /\ target' \in {d \in Days : \A e \in Days :
                    \/ Cardinality(days[d]) < Cardinality(days[e])
                    \/ Cardinality(days[d]) = Cardinality(days[e]) /\ d <= e}
  /\ UNCHANGED <<input, stage, selected, days, routes, schedule, lunch, verdict>>

MPreferredOnly(p) == IF CanAdd(days[target], p) THEN {target} ELSE {}
DaysFor(p) ==
  IF CanAdd(days[target], p) THEN {target} ELSE {d \in Days : CanAdd(days[d], p)}

\* A place no day can accept is left out.
Allocate ==
  /\ stage = "allocate"
  /\ \E p \in todo :
       /\ First(p, todo)
       /\ \/ \E d \in DaysFor(p) : days' = [days EXCEPT ![d] = @ \cup {p}]
          \/ DaysFor(p) = {} /\ UNCHANGED days
       /\ todo' = todo \ {p}
  /\ UNCHANGED <<input, stage, selected, clusters, target, routes, schedule, lunch, verdict>>

Allocated ==
  /\ stage = "allocate" /\ todo = {} /\ clusters = {}
  /\ stage' = "route"
  /\ todo' = Days
  /\ UNCHANGED <<input, selected, clusters, target, days, routes, schedule, lunch, verdict>>

(***************************************************************************)
(* optimize_route; todo holds the days to route                            *)
(***************************************************************************)
\* Every pair has a leg: the matrices of both routing providers are full, so that
\* neither the penalty of a missing leg nor the error it raises is ever met.
Leg(from, to) == input.minutes[<<from, to>>]
Hop(order, i) == Leg(IF i = 1 THEN Base ELSE order[i - 1], order[i])
Travel(order) ==
  LET upTo[i \in 0..Len(order)] == IF i = 0 THEN 0 ELSE upTo[i - 1] + Hop(order, i)
  IN upTo[Len(order)]

\* All orders, the shortest; ties are broken by ids that mean nothing.
BestOrders(S) ==
  LET orders == SetToSeqs(S)
  IN {o \in orders : \A other \in orders : Travel(o) <= Travel(other)}

LowestScored(p, S) == p \in S /\ \A q \in S \ {p} :
  input.score[p] < input.score[q] \/ (input.score[p] = input.score[q] /\ p < q)

\* One attempt: the day is settled, or loses its weakest stop.
OptimizeRoute ==
  /\ stage = "route"
  /\ \E d \in todo :
       LET remaining == days[d] \ dropped[d]
       IN /\ \A e \in todo : d <= e
          /\ \E order \in BestOrders(remaining) :
               IF \/ Travel(order) <= MaxTravel
                  \/ Cardinality(remaining) <= 1
                  \/ Cardinality(dropped[d]) >= MaxPlaces - 1
               THEN /\ ordered' = [ordered EXCEPT ![d] = order]
                    /\ travel' = [travel EXCEPT ![d] = Travel(order)]
                    /\ todo' = todo \ {d}
                    /\ UNCHANGED dropped
               ELSE /\ \E victim \in remaining :
                         /\ LowestScored(victim, remaining)
                         /\ dropped' = [dropped EXCEPT ![d] = @ \cup {victim}]
                    /\ UNCHANGED <<todo, ordered, travel>>
  /\ UNCHANGED <<input, stage, selected, clusters, target, days, schedule, lunch, verdict>>

Routed ==
  /\ stage = "route" /\ todo = {}
  /\ stage' = "schedule"
  /\ todo' = {d \in Days : ordered[d] # <<>>}
  /\ UNCHANGED <<input, selected, clusters, target, days, routes, schedule, lunch, verdict>>

(***************************************************************************)
(* build_day_schedule; todo holds the days to time                         *)
(***************************************************************************)
\* The first morning-only stops lead the day; more of them are omitted.
Kept(order) ==
  {order[i] : i \in {i \in DOMAIN order : IsMorning(order[i]) =>
     Cardinality({j \in DOMAIN order : j < i /\ IsMorning(order[j])}) < MorningSlots}}
Leads(order, p, q) ==
  LET at(x) == CHOOSE i \in DOMAIN order : order[i] = x
  IN IF IsMorning(p) = IsMorning(q) THEN at(p) < at(q) ELSE IsMorning(p)

\* A visit that would cross the start of lunch, or comes after it, waits for it.
StartVisit(at, visit) ==
  IF ~at.lunch /\ at.clock < LunchStart /\ LunchStart < at.clock + visit
  THEN [clock |-> LunchStart + LunchBreak, lunch |-> TRUE]
  ELSE IF ~at.lunch /\ at.clock >= LunchStart
  THEN [clock |-> at.clock + LunchBreak, lunch |-> TRUE]
  ELSE at

\* A hop over the start of lunch ends when lunch does, however long it is.
MTravelForgotten(end, minutes, had) == [clock |-> end, lunch |-> had]
GoOn(end, minutes, had) ==
  IF ~had /\ end < LunchStart /\ LunchStart <= end + minutes
  THEN [clock |-> LunchStart + LunchBreak, lunch |-> TRUE]
  ELSE [clock |-> end + minutes, lunch |-> had]

Visited(d) == {schedule[d][i].place : i \in DOMAIN schedule[d]}
Arrival(d, p) ==
  LET n == Len(schedule[d])
      last == schedule[d][n]
  IN IF n = 0 THEN [clock |-> DayStart + Leg(Base, p), lunch |-> FALSE]
     ELSE GoOn(last.start + Visit(last.place), Leg(last.place, p), lunch[d])

ScheduleStop ==
  /\ stage = "schedule"
  /\ \E d \in todo :
       LET remaining == Kept(ordered[d]) \ Visited(d)
       IN /\ \A e \in todo : d <= e
          /\ \E p \in remaining :
               LET at == StartVisit(Arrival(d, p), Visit(p))
               IN /\ \A q \in remaining \ {p} : Leads(ordered[d], p, q)
                  /\ schedule' = [schedule EXCEPT ![d] = Append(@, [place |-> p, start |-> at.clock])]
                  /\ lunch' = [lunch EXCEPT ![d] = at.lunch]
                  /\ todo' = IF remaining = {p} THEN todo \ {d} ELSE todo
  /\ UNCHANGED <<input, stage, selected, clusters, target, days, routes, verdict>>

Scheduled ==
  /\ stage = "schedule" /\ todo = {}
  /\ stage' = "validate"
  /\ UNCHANGED <<input, todo, selected, clusters, target, days, routes, schedule, lunch, verdict>>

(***************************************************************************)
(* validate_trip: the day's travel is still the optimiser's                *)
(***************************************************************************)
TravelCap(d) == travel[d] <= MaxTravel
MorningSlot(d) ==
  \A i \in DOMAIN schedule[d] :
    IsMorning(schedule[d][i].place) => i <= MorningSlots /\ schedule[d][i].start % Midnight <= LatestMorning
HasAnchor(d) == \E i \in DOMAIN schedule[d] : input.score[schedule[d][i].place] > AnchorMin
NoRepeats ==
  \A d, e \in Days : \A i \in DOMAIN schedule[d], j \in DOMAIN schedule[e] :
    schedule[d][i].place = schedule[e][j].place => d = e /\ i = j

Validate ==
  /\ stage = "validate"
  /\ \E coherent \in BOOLEAN :
       verdict' = IF /\ coherent /\ NoRepeats
                     /\ \A d \in Days : TravelCap(d) /\ MorningSlot(d) /\ HasAnchor(d)
                  THEN "passed" ELSE "failed"
  /\ stage' = "done"
  /\ UNCHANGED <<input, todo, selected, clusters, target, days, routes, schedule, lunch>>

Next ==
  \/ Select \/ Selected
  \/ Cluster \/ Clustered \/ Prefer \/ Allocate \/ Allocated
  \/ OptimizeRoute \/ Routed
  \/ ScheduleStop \/ Scheduled \/ Validate

Spec == Init /\ [][Next]_vars

(***************************************************************************)
(* Properties                                                              *)
(***************************************************************************)
\* No place vanishes between the stages.  Once the trip is scheduled, every
\* candidate is visited once, or is missing for a reason that still holds then:
\* it may not share a trip with a better place that was selected, no day of the
\* allocation could accept it, even now that all are filled, or its day dropped
\* it for travel and kept no place scored lower.  (Of places scored alike it drops
\* the one the other stages rank first.)
PlacesAreAccountedFor ==
  stage \in {"validate", "done"} =>
    /\ NoRepeats
    /\ \A p \in Places :
         \/ \E d \in Days : p \in Visited(d)
         \/ \E q \in selected : Conflicts(p, q) /\ Before(q, p)
         \/ /\ p \in selected
            /\ \A d \in Days : p \notin days[d] /\ ~CanAdd(days[d], p)
         \/ \E d \in Days : /\ p \in dropped[d]
                            /\ \A q \in Visited(d) : input.score[q] >= input.score[p]

\* What openspec/specs/travel-engine-schedule-builder/spec.md asks of the clock: it
\* advances by the travel between consecutive stops.  The code breaks it: a hop over
\* the start of lunch ends when lunch does, however long it is.
HopsTakeTheirTime ==
  \A d \in Days : \A i \in 2..Len(schedule[d]) :
    LET last == schedule[d][i - 1]
        next == schedule[d][i]
    IN next.start >= last.start + Visit(last.place) + Leg(last.place, next.place)

\* What a passing verdict is worth all the same: every day has a stop and is within
\* the limits on its stops and visits, whatever was dropped and moved; no visit
\* crosses the start of lunch; and the only hop that may lack its time is the one
\* that lunch interrupts.  The travel limit is known to hold of a day visited as it
\* was routed, and of no other: the validator trusts the travel of the route also
\* when morning-only stops were moved to its front.
PassedTripsKeepTheirLimits ==
  verdict = "passed" => \A d \in Days :
    LET order == [i \in DOMAIN schedule[d] |-> schedule[d][i].place]
        start(i) == schedule[d][i].start
        end(i) == start(i) + Visit(order[i])
    IN /\ order # <<>> /\ Len(order) <= MaxPlaces
       /\ VisitMinutes(Visited(d)) <= VisitBudget
       /\ order = ordered[d] => Travel(order) <= MaxTravel
       /\ start(1) >= DayStart + Hop(order, 1)
       /\ \A i \in 2..Len(order) :
            \/ start(i) >= end(i - 1) + Hop(order, i)
            \/ end(i - 1) < LunchStart /\ start(i) = LunchStart + LunchBreak
       /\ \A i \in DOMAIN order :
            ~(start(i) < LunchStart /\ LunchStart < end(i))
=============================================================================
