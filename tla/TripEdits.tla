------------------------------ MODULE TripEdits ------------------------------
(***************************************************************************)
(* The requests that change one saved trip: trips/service.py on top of     *)
(* PostgreSQL (READ COMMITTED).  A request loads the trip, plans the new   *)
(* day from what it loaded while it awaits routes, and then writes the day *)
(* back: a DELETE for each stop that is gone, one flush with the UPDATEs   *)
(* and the INSERT, the audit event, the commit.  Nothing is locked between *)
(* the load and the writes.                                                *)
(*                                                                         *)
(* Routes and travel times are left out: an optimised day is any order of  *)
(* its stops, and every request may be refused (a stop the optimiser       *)
(* drops, a failed validation, a stranger, an unknown trip or place).      *)
(* trip_places is keyed by the place, its unique key; a row remembers the  *)
(* request that inserted it, which stands for its primary key.             *)
(***************************************************************************)
EXTENDS Naturals, FiniteSets

CONSTANTS
  Requests,
  Users,
  Places,        \* the places of the trip's destination
  Days,          \* the day numbers a request may name
  MorningOnly,   \* places of a morning-only category
  MorningSlots,  \* morning-only stops that fit a day (2 in the code)
  Nobody,        \* not a request, a user or a place
  Itineraries,   \* what save_from_state stored: [Places -> [day, order]]
  Mixtures       \* what earlier, overlapping edits left of such a trip

ASSUME ConstantsAssumption ==
  /\ Nobody \notin Requests \cup Users
  /\ MorningSlots \in Nat \ {0}
  /\ IsFiniteSet(Places)

ASSUME DaysAssumption == Days \subseteq Nat \ {0}

ASSUME ItinerariesAssumption ==
  /\ Itineraries \cup Mixtures \subseteq [Places -> [day : Nat, order : 0..Cardinality(Places)]]
  /\ \A i \in Itineraries, d \in Days :
       LET stops == {p \in Places : i[p].day = d}
       IN {i[p].order : p \in stops} = 1..Cardinality(stops)

VARIABLES
  trip,    \* the committed trips row
  rows,    \* the committed trip_places; day 0: no such row
  holder,  \* whose open transaction deleted the row
  at,      \* where each request is
  job,     \* what it was asked to do
  seen,    \* the rows it loaded
  plan,    \* the order it gives the day's stops; 0: not scheduled
  answer,  \* what it told the client
  audit,   \* the requests whose TripEditEvent is committed
  torn     \* history: days whose last edit found rows it had not loaded

request == <<at, job, seen, plan, answer>>
vars == <<trip, rows, holder, request, audit, torn>>

EditKinds == {"reorder", "remove_stop", "add_stop", "reoptimize_day"}
Kinds == EditKinds \cup {"claim", "delete"}
Orders == 0..Cardinality(Places)
TripRow == [owner : Users \cup {Nobody}, deleted : BOOLEAN]
Row == [day : Nat, order : Orders, by : Requests \cup {Nobody}]
NoRow == [day |-> 0, order |-> 0, by |-> Nobody]
Job == [kind : Kinds \cup {"none"}, user : Users \cup {Nobody}, day : Nat,
        place : Places \cup {Nobody}]
NoJob == [kind |-> "none", user |-> Nobody, day |-> 0, place |-> Nobody]

On(d) == {p \in Places : rows[p].day = d}
IsOnTrip(p) == rows[p].day # 0

\* save_from_state: a guest's trip, or a user's; perhaps edited since.
Init ==
  /\ trip \in TripRow /\ ~trip.deleted
  /\ \E i \in Itineraries \cup Mixtures :
       /\ rows = [p \in Places |-> [day |-> i[p].day, order |-> i[p].order, by |-> Nobody]]
       /\ torn = IF i \in Itineraries THEN {} ELSE Days
  /\ holder = [p \in Places |-> Nobody]
  /\ at = [e \in Requests |-> "start"]
  /\ job = [e \in Requests |-> NoJob]
  /\ seen = [e \in Requests |-> [p \in Places |-> NoRow]]
  /\ plan = [e \in Requests |-> [p \in Places |-> 0]]
  /\ answer = [e \in Requests |-> "none"]
  /\ audit = {}

(***************************************************************************)
(* Planning a day                                                          *)
(***************************************************************************)
\* The orders that number the stops S from 1.
Numbered ==
  [S \in SUBSET Places |->
     {f \in [Places -> 0..Cardinality(S)] :
        /\ \A p \in Places : f[p] # 0 <=> p \in S
        /\ {f[p] : p \in S} = 1..Cardinality(S)}]

\* build_day_schedule without preserve_order: the first morning-only stops of
\* the route lead the day, those beyond the slots are omitted.
MFitsOneLess(S) ==
  LET morning == S \cap MorningOnly
  IN IF Cardinality(morning) < MorningSlots
     THEN {S}
     ELSE {T \in SUBSET S : /\ S \ T \subseteq morning
                            /\ Cardinality(T \cap morning) = MorningSlots - 1}
Fitting(S) ==
  LET morning == S \cap MorningOnly
  IN IF Cardinality(morning) <= MorningSlots
     THEN {S}
     ELSE {T \in SUBSET S : /\ S \ T \subseteq morning
                            /\ Cardinality(T \cap morning) = MorningSlots}

MorningFirst(f) ==
  \A p \in MorningOnly, q \in Places \ MorningOnly :
    f[p] # 0 /\ f[q] # 0 => f[p] < f[q]

Schedules ==
  [S \in SUBSET Places |->
     {f \in UNION {Numbered[T] : T \in Fitting(S)} : MorningFirst(f)}]

(***************************************************************************)
(* Edits: the load and the plan                                            *)
(***************************************************************************)
\* 401, 403, 404, 409, 422: nothing was written.
Refuse(e) ==
  /\ at[e] = "start"
  /\ at' = [at EXCEPT ![e] = "done"]
  /\ answer' = [answer EXCEPT ![e] = "refused"]
  /\ UNCHANGED <<trip, rows, holder, job, seen, plan, audit, torn>>

\* _load_owned_trip
LoadsOwned(e) == at[e] = "start" /\ ~trip.deleted /\ trip.owner # Nobody

\* The day is planned from the rows that were loaded.
Edit(e, kind, d, p, f) ==
  /\ at' = [at EXCEPT ![e] = "writing"]
  /\ job' = [job EXCEPT ![e] = [kind |-> kind, user |-> trip.owner, day |-> d, place |-> p]]
  /\ seen' = [seen EXCEPT ![e] = rows]
  /\ plan' = [plan EXCEPT ![e] = f]
  /\ UNCHANGED <<trip, rows, holder, answer, audit, torn>>

ReorderStops(e, d) ==
  /\ LoadsOwned(e)
  /\ On(d) # {}
  /\ \E f \in Numbered[On(d)] : Edit(e, "reorder", d, Nobody, f)

RemoveStop(e, d, p) ==
  /\ LoadsOwned(e)
  /\ p \in On(d) /\ On(d) # {p}
  /\ \E f \in Schedules[On(d) \ {p}] : Edit(e, "remove_stop", d, p, f)

AddStop(e, d, p) ==
  /\ LoadsOwned(e)
  /\ ~IsOnTrip(p)
  /\ \E f \in Schedules[On(d) \cup {p}] : Edit(e, "add_stop", d, p, f)

ReoptimizeDay(e, d) ==
  /\ LoadsOwned(e)
  /\ On(d) # {}
  /\ \E f \in Schedules[On(d)] : Edit(e, "reoptimize_day", d, Nobody, f)

(***************************************************************************)
(* Edits: _persist_day_and_audit                                           *)
(***************************************************************************)
Loaded(e) == {p \in Places : seen[e][p].day = job[e].day}
Planned(e) == {p \in Places : plan[e][p] # 0}
Renumbered(e) == {p \in Loaded(e) \cap Planned(e) : plan[e][p] # seen[e][p].order}
New(e) == Planned(e) \ Loaded(e)

Unlocked(e, S) == \A p \in S : holder[p] \in {Nobody, e}

\* DELETE ... WHERE place_id, day_number: of the rows that are there now.
MDeleteNothing(e) == {}
Doomed(e) == {p \in Loaded(e) \ Planned(e) : rows[p].day = job[e].day}
DeleteRows(e) ==
  /\ at[e] = "writing"
  /\ Unlocked(e, Doomed(e))
  /\ at' = [at EXCEPT ![e] = "flushing"]
  /\ holder' = [p \in Places |-> IF p \in Doomed(e) THEN e ELSE holder[p]]
  /\ UNCHANGED <<trip, rows, job, seen, plan, answer, audit, torn>>

\* UPDATE ... WHERE id, of the columns that changed: a row that vanished is
\* passed over, when the driver does not count the rows of a batch.
IsSameRow(e, p) == rows[p].day # 0 /\ rows[p].by = seen[e][p].by
MResurrect(e, p) ==
  [day |-> job[e].day, order |-> plan[e][p],
   by |-> IF IsSameRow(e, p) THEN rows[p].by ELSE e]
Updated(e, p) == IF IsSameRow(e, p) THEN [rows[p] EXCEPT !.order = plan[e][p]] ELSE rows[p]
Inserted(e, p) == [day |-> job[e].day, order |-> plan[e][p], by |-> e]

\* The transaction's writes, on the rows as they are at its commit.
Written(e) ==
  [p \in Places |->
     IF holder[p] = e THEN NoRow
     ELSE IF p \in Renumbered(e) THEN Updated(e, p)
     ELSE IF p \in New(e) THEN Inserted(e, p)
     ELSE rows[p]]

\* What the handler held is gone when it ends; only what it was asked is kept.
Forget(e) ==
  /\ job' = [job EXCEPT ![e] = [NoJob EXCEPT !.kind = job[e].kind]]
  /\ seen' = [seen EXCEPT ![e] = [p \in Places |-> NoRow]]
  /\ plan' = [plan EXCEPT ![e] = [p \in Places |-> 0]]

MKeepLocks(e) == holder
Released(e) == [p \in Places |-> IF holder[p] = e THEN Nobody ELSE holder[p]]

Overlapped(e) ==
  \E p \in Places : /\ job[e].day \in {rows[p].day, seen[e][p].day}
                    /\ rows[p] # seen[e][p]

\* The flush, the event and the commit.  Rows of which only the travel times
\* changed are updated too, and waited for, unless they are what they were.
Commit(e) ==
  /\ at[e] = "flushing"
  /\ \E touched \in SUBSET (Loaded(e) \cap Planned(e)) :
       /\ Renumbered(e) \subseteq touched
       /\ Unlocked(e, {p \in touched : IsSameRow(e, p)} \cup New(e))
  /\ \A p \in New(e) : ~IsOnTrip(p)
  /\ rows' = Written(e)
  /\ holder' = Released(e)
  /\ audit' = audit \cup {e}
  /\ torn' = IF Overlapped(e) THEN torn \cup {job[e].day} ELSE torn \ {job[e].day}
  /\ at' = [at EXCEPT ![e] = "reloading"]
  /\ Forget(e)
  /\ UNCHANGED <<trip, answer>>

\* The event would have to be written in the transaction of the edit.
MEventSurvives(e) ==
  /\ at' = [at EXCEPT ![e] = "done"]
  /\ answer' = [answer EXCEPT ![e] = "failed"]
  /\ holder' = Released(e)
  /\ audit' = audit \cup {e}
  /\ Forget(e)
  /\ UNCHANGED <<trip, rows, torn>>
RollBack(e) ==
  /\ at' = [at EXCEPT ![e] = "done"]
  /\ answer' = [answer EXCEPT ![e] = "failed"]
  /\ holder' = Released(e)
  /\ Forget(e)
  /\ UNCHANGED <<trip, rows, audit, torn>>

\* uq_trip_place: another transaction inserted the place first.
UniqueViolation(e) ==
  /\ at[e] = "flushing"
  /\ \E p \in New(e) : IsOnTrip(p) /\ holder[p] = Nobody
  /\ RollBack(e)

\* PostgreSQL aborts one of the transactions that wait for each other.
AwaitedBy(e) ==
  {holder[p] : p \in {q \in Renumbered(e) : IsSameRow(e, q)} \cup New(e)} \ {Nobody, e}
Deadlock(e) ==
  /\ \E C \in SUBSET Requests :
       e \in C /\ \A c \in C : at[c] = "flushing" /\ AwaitedBy(c) \cap C # {}
  /\ RollBack(e)

\* Any other exception of the database; a StaleDataError for a vanished row.
WriteFails(e) == at[e] \in {"writing", "flushing"} /\ RollBack(e)

\* The trip is read again for the response; when it is gone by now, an
\* assertion fails after the commit.
Reload(e) ==
  /\ at[e] = "reloading"
  /\ at' = [at EXCEPT ![e] = "done"]
  /\ answer' = [answer EXCEPT ![e] = IF trip.deleted THEN "failed" ELSE "ok"]
  /\ UNCHANGED <<trip, rows, holder, job, seen, plan, audit, torn>>

(***************************************************************************)
(* Claims and deletes                                                      *)
(***************************************************************************)
Load(e, kind, u, next) ==
  /\ at[e] = "start"
  /\ ~trip.deleted
  /\ at' = [at EXCEPT ![e] = next]
  /\ job' = [job EXCEPT ![e] = [NoJob EXCEPT !.kind = kind, !.user = u]]
  /\ UNCHANGED <<trip, rows, holder, seen, plan, answer, audit, torn>>

\* claim_trip and claim_for_user, with the cookie of the trip's session.
MClaimAny(e, u) == Load(e, "claim", u, "claiming")
ClaimLoads(e, u) == trip.owner = Nobody /\ Load(e, "claim", u, "claiming")

ClaimCommits(e) ==
  /\ at[e] = "claiming"
  /\ trip' = [trip EXCEPT !.owner = job[e].user]
  /\ at' = [at EXCEPT ![e] = "reloading"]
  /\ Forget(e)
  /\ UNCHANGED <<rows, holder, answer, audit, torn>>

\* soft_delete_for_user: assert_can_access, for the owner or the session of an
\* unclaimed trip.
DeleteLoads(e, u) == trip.owner \in {u, Nobody} /\ Load(e, "delete", u, "deleting")

\* soft_delete looks the trip up again, and not at its owner; another delete may
\* commit between that and its own update.
SoftDelete(e) ==
  /\ at[e] = "deleting"
  /\ trip' = [trip EXCEPT !.deleted = TRUE]
  /\ at' = [at EXCEPT ![e] = "done"]
  /\ \E told \in IF trip.deleted THEN {"refused", "ok"} ELSE {"ok"} :
       answer' = [answer EXCEPT ![e] = told]
  /\ Forget(e)
  /\ UNCHANGED <<rows, holder, audit, torn>>

(***************************************************************************)
(* Specification                                                           *)
(***************************************************************************)
Plan(e) ==
  \E d \in Days :
    \/ ReorderStops(e, d)
    \/ ReoptimizeDay(e, d)
    \/ \E p \in Places : RemoveStop(e, d, p) \/ AddStop(e, d, p)

Persist(e) ==
  DeleteRows(e) \/ Commit(e) \/ UniqueViolation(e) \/ Deadlock(e) \/ Reload(e)

Own(e) == \E u \in Users : ClaimLoads(e, u) \/ DeleteLoads(e, u)

Step(e) ==
  Refuse(e) \/ Plan(e) \/ Persist(e) \/ WriteFails(e) \/ Own(e) \/ ClaimCommits(e) \/ SoftDelete(e)

Next == \E e \in Requests : Step(e)

Spec == Init /\ [][Next]_vars

\* Requests that were started go on: the event loop resumes them, the database
\* answers and its deadlock detector runs.
FairSpec ==
  Spec /\ \A e \in Requests : WF_vars(Persist(e) \/ ClaimCommits(e) \/ SoftDelete(e))

(***************************************************************************)
(* Properties                                                              *)
(***************************************************************************)
\* A row is locked by a transaction that deletes it.
TypeOK ==
  /\ trip \in TripRow
  /\ rows \in [Places -> Row]
  /\ holder \in [Places -> Requests \cup {Nobody}]
  /\ at \in [Requests -> {"start", "writing", "flushing", "claiming", "deleting",
                          "reloading", "done"}]
  /\ job \in [Requests -> Job]
  /\ seen \in [Requests -> [Places -> Row]]
  /\ plan \in [Requests -> [Places -> Orders]]
  /\ answer \in [Requests -> {"none", "refused", "failed", "ok"}]
  /\ audit \subseteq Requests
  /\ torn \subseteq Nat
  /\ \A p \in Places :
       holder[p] # Nobody => /\ at[holder[p]] = "flushing"
                             /\ rows[p].day = job[holder[p]].day
                             /\ seen[holder[p]][p].day = job[holder[p]].day
                             /\ plan[holder[p]][p] = 0

\* The stops of a day are numbered from 1 without gaps or repetitions, whatever
\* edits, failures and deletes came before, unless the last edit of that day
\* overlapped another: then its numbers may be a mixture of both, until the next
\* edit repairs it.
IsNumbered(d) == {rows[p].order : p \in On(d)} = 1..Cardinality(On(d))
DaysInOrder == \A d \in Days \ torn : IsNumbered(d)

\* A stop comes onto the trip only with the commit of its own add_stop: what an
\* edit removed is not brought back by another edit that still had it loaded.
RemovedStaysRemoved ==
  [][\A p \in Places :
       ~IsOnTrip(p) /\ IsOnTrip(p)' =>
         \E e \in Requests : /\ at[e] = "flushing" /\ e \in audit'
                             /\ job[e].kind = "add_stop" /\ job[e].place = p]_vars

\* A stop leaves the trip only with the commit of an edit of its day: its own
\* remove_stop, or any but a reorder if it is a morning-only place, and the day as
\* that edit planned it has other morning-only stops in all its slots.
StopsLeaveForAReason ==
  [][\A p \in Places :
       IsOnTrip(p) /\ ~IsOnTrip(p)' =>
         \E e \in Requests :
           /\ at[e] = "flushing" /\ e \in audit' /\ job[e].day = rows[p].day
           /\ \/ job[e].kind = "remove_stop" /\ job[e].place = p
              \/ /\ job[e].kind # "reorder"
                 /\ p \in MorningOnly \ Planned(e)
                 /\ Cardinality(Planned(e) \cap MorningOnly) = MorningSlots]_vars

\* The answer, the audit trail and the trip agree: an edit is answered 200 only
\* when its event is committed, an edit with an event is told otherwise only if
\* the trip was deleted under it, and a refused or rolled-back request leaves
\* neither an event nor a lock.
AnswersAreTrue ==
  \A e \in Requests :
    /\ answer[e] = "ok" /\ job[e].kind \in EditKinds => e \in audit
    /\ e \in audit /\ answer[e] # "none" => answer[e] = "ok" \/ trip.deleted
    /\ answer[e] = "refused" => e \notin audit
    /\ at[e] = "done" => answer[e] # "none" /\ \A p \in Places : holder[p] # e

\* A request that comes too late is refused, whatever happens meanwhile: one that
\* has not loaded the trip when it is deleted neither commits an edit nor is told
\* that it succeeded, and one that has not loaded it when it has an owner does not
\* get to claim it.  (Requests that loaded it before do: an edit then commits on the
\* deleted trip, and one claim replaces another.)
LateRequestsFail ==
  \A e \in Requests :
    /\ [](at[e] = "start" /\ trip.deleted => [](answer[e] # "ok" /\ e \notin audit))
    /\ [](at[e] = "start" /\ trip.owner # Nobody => [](at[e] # "claiming"))

\* What the requests amount to, see TripHistory: an edit that none overlaps is one
\* change of one whole day, whatever requests load, write, fail or wait beside it;
\* no edit touches another day, loses the owner or undoes a deletion.
base == [e \in Requests |-> [day |-> job[e].day, rows |-> seen[e]]]
History == INSTANCE TripHistory
ImplementsHistory == History!Spec

\* Every request that loaded the trip is answered, also when transactions wait
\* for each other's rows.
EveryRequestIsAnswered ==
  \A e \in Requests : at[e] # "start" ~> answer[e] # "none"

\* docs/steps/step7.md, rule 19: no edit silently drops another stop; it is
\* refused with edit_would_drop_other_stops.
OnlyRemovedStopsLeave ==
  [][\A p \in Places :
       IsOnTrip(p) /\ ~IsOnTrip(p)' =>
         \E e \in Requests :
           /\ at[e] = "flushing" /\ e \in audit'
           /\ job[e].kind = "remove_stop" /\ job[e].place = p]_vars
=============================================================================
