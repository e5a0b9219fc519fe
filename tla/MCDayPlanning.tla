---------------------------- MODULE MCDayPlanning ----------------------------
(* An instance of DayPlanning for TLC. *)
EXTENDS DayPlanning, TLC

FourPlaces == 1..4
TwoDays == 1..2
Minutes == [viewpoint |-> 20, museum |-> 60, monastery |-> 45, trailhead |-> 90]
Views == {"viewpoint"}
Monasteries == {"monastery"}

\* Three viewpoints for two days of one slot each; two monasteries; long visits.
Categories ==
  {<<"viewpoint", "viewpoint", "museum", "viewpoint">>,
   <<"monastery", "viewpoint", "monastery", "museum">>,
   <<"trailhead", "museum", "trailhead", "viewpoint">>}
Scores == {<<3, 2, 2, 1>>, <<1, 0, 0, 2>>}

\* Minutes along one road, on both sides of the base; from the far end it takes
\* a day's travel to reach the base.
BaseAt == 200
Roads == [FourPlaces -> {90, 220, 310, 390}]
Between(a, b) == IF a > b THEN a - b ELSE b - a
OnRoad(x) ==
  [h \in (FourPlaces \cup {0}) \X FourPlaces |->
     Between(IF h[1] = 0 THEN BaseAt ELSE x[h[1]], x[h[2]])]

SomeInputs ==
  {[category |-> c, score |-> s, minutes |-> OnRoad(x)] :
     c \in Categories, s \in Scores, x \in Roads}
=============================================================================
