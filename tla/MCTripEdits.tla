----------------------------- MODULE MCTripEdits -----------------------------
(* Instances of TripEdits for TLC. *)
EXTENDS TripEdits, TLC
CONSTANTS e1, e2, u1, u2, a, b, m, n, nobody

TwoRequests == {e1, e2}
TwoUsers == {u1, u2}
FourPlaces == {a, b, m, n}
Mornings == {m, n}
TwoDays == {1, 2}

Stop(d, o) == [day |-> d, order |-> o]
Stops(x, y, z, w) == (a :> x) @@ (b :> y) @@ (m :> z) @@ (n :> w)
Unplaced == Stop(0, 0)

\* Two days with a place left to add; one full day, reordered, and an empty one.
SavedTrips ==
  {Stops(Stop(1, 1), Stop(1, 2), Stop(2, 1), Unplaced),
   Stops(Stop(1, 1), Stop(1, 2), Stop(1, 3), Unplaced)}

\* Two stops with one number, and a gap.
MixedTrips == {Stops(Stop(1, 1), Stop(1, 1), Stop(1, 3), Unplaced)}
=============================================================================
