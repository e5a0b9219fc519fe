----------------------------- MODULE TripHistory -----------------------------
(***************************************************************************)
(* What the requests on one saved trip amount to for whoever reads it.     *)
(*                                                                         *)
(* An edit plans a day from the rows it began with.  If the day is still   *)
(* as it was, the edit replaces it in one step by another whole day.  If   *)
(* it is not, the day may be a mixture of both, and is torn until the next *)
(* edit that nothing comes between.  In either case no other day changes,  *)
(* at most one place is added, and a row keeps its day and its identity    *)
(* for as long as it is there.  An owner is never lost, and a deletion     *)
(* never undone.                                                           *)
(***************************************************************************)
EXTENDS Naturals, FiniteSets

CONSTANTS Requests, Users, Places, Days, Nobody

VARIABLES
  trip,  \* its owner, and whether it is deleted
  rows,  \* by place: its day (0: not on the trip), its order, who added it
  base,  \* by request: the day it edits (0: none) and the rows it began with
  torn   \* the days that may be mixtures
vars == <<trip, rows, base, torn>>

Row == [day : Nat, order : Nat, by : Requests \cup {Nobody}]
NoRow == [day |-> 0, order |-> 0, by |-> Nobody]
NoBase == [day |-> 0, rows |-> [p \in Places |-> NoRow]]

On(d) == {p \in Places : rows[p].day = d}
IsNumbered(d) == {rows[p].order : p \in On(d)} = 1..Cardinality(On(d))
IsWhole(d) == On(d) # {} /\ IsNumbered(d)

Init ==
  /\ trip \in [owner : Users \cup {Nobody}, deleted : {FALSE}]
  /\ rows \in [Places -> Row]
  /\ base = [e \in Requests |-> NoBase]
  /\ torn \in SUBSET Days
  /\ \A d \in Days \ torn : IsNumbered(d)

Begin(e, d) ==
  /\ base[e] = NoBase
  /\ trip.owner # Nobody /\ ~trip.deleted
  /\ base' = [base EXCEPT ![e] = [day |-> d, rows |-> rows]]
  /\ UNCHANGED <<trip, rows, torn>>

End(e) == base' = [base EXCEPT ![e] = NoBase]
GiveUp(e) == End(e) /\ UNCHANGED <<trip, rows, torn>>

\* Nobody touched the day since the edit began.
AsBegun(e, d) ==
  \A p \in Places : d \in {rows[p].day, base[e].rows[p].day} => rows[p] = base[e].rows[p]

Removed(p, d) == rows[p].day = d /\ rows'[p].day = 0
Added(p, d, e) == rows[p].day = 0 /\ rows'[p].day = d /\ rows'[p].by = e
Renumbered(p, d) == rows[p].day = d /\ rows'[p] = [rows[p] EXCEPT !.order = rows'[p].order]

Edit(e, d) ==
  /\ base[e].day = d
  /\ rows' \in [Places -> Row]
  /\ \A p \in Places :
       rows'[p] = rows[p] \/ Removed(p, d) \/ Added(p, d, e) \/ Renumbered(p, d)
  /\ \A p, q \in Places : Added(p, d, e) /\ Added(q, d, e) => p = q
  /\ IF AsBegun(e, d) THEN IsWhole(d)' /\ torn' = torn \ {d} ELSE torn' = torn \cup {d}
  /\ End(e)
  /\ UNCHANGED trip

\* Of claims that overlap the later one keeps the trip.
Claim(u) ==
  /\ trip' = [trip EXCEPT !.owner = u]
  /\ UNCHANGED <<rows, base, torn>>

Delete ==
  /\ trip' = [trip EXCEPT !.deleted = TRUE]
  /\ UNCHANGED <<rows, base, torn>>

Next ==
  \/ \E e \in Requests : GiveUp(e) \/ \E d \in Days : Begin(e, d) \/ Edit(e, d)
  \/ \E u \in Users : Claim(u)
  \/ Delete

Spec == Init /\ [][Next]_vars
=============================================================================
