-------------------------- MODULE TripEdits_proofs --------------------------
(***************************************************************************)
(* Proofs about TripEdits, for every set of requests, users, places and    *)
(* days.                                                                   *)
(***************************************************************************)
EXTENDS TripEdits, FiniteSetTheorems, TLAPS

Writes(e) == at[e] \in {"writing", "flushing"}

\* Where a request is, and what that says of its answer, its event and its job.
RequestOK(e) ==
  /\ answer[e] # "none" <=> at[e] = "done"
  /\ e \in audit => at[e] \in {"reloading", "done"}
  /\ Writes(e) => job[e].kind \in EditKinds /\ job[e].day \in Days
  /\ at[e] = "claiming" => job[e].kind = "claim" /\ job[e].user \in Users
  /\ at[e] = "deleting" => job[e].kind = "delete"
  /\ at[e] = "reloading" /\ job[e].kind \in EditKinds => e \in audit
  /\ answer[e] = "ok" /\ job[e].kind \in EditKinds => e \in audit
  /\ e \in audit /\ answer[e] # "none" => answer[e] = "ok" \/ trip.deleted
  /\ answer[e] = "refused" => e \notin audit
RequestsOK == \A e \in Requests : RequestOK(e)

\* A plan numbers the stops it keeps; what it adds and leaves out has a reason.
Adds(e, p) == job[e].kind = "add_stop" /\ job[e].place = p
FillsMorning(f) == Cardinality({p \in Places : f[p] # 0} \cap MorningOnly) = MorningSlots
MayOmit(e, p) ==
  \/ job[e].kind = "remove_stop" /\ job[e].place = p
  \/ job[e].kind # "reorder" /\ p \in MorningOnly /\ FillsMorning(plan[e])
IsPlan(f) ==
  LET S == {p \in Places : f[p] # 0} IN S # {} /\ {f[p] : p \in S} = 1..Cardinality(S)
PlanOK(e) ==
  Writes(e) =>
    /\ IsPlan(plan[e])
    /\ \A p \in Places :
         /\ plan[e][p] # 0 => seen[e][p].day = job[e].day \/ Adds(e, p)
         /\ plan[e][p] = 0 /\ seen[e][p].day = job[e].day => MayOmit(e, p)
PlansOK == \A e \in Requests : PlanOK(e)

\* Rows are told apart by who inserted them: a row that was loaded and is still
\* there is on the same day, and one that was to be deleted is locked or gone.
SeenOK(e, p) ==
  /\ seen[e][p].by \in audit \cup {Nobody}
  /\ IsSameRow(e, p) /\ seen[e][p].day # 0 => rows[p].day = seen[e][p].day
  /\ at[e] = "flushing" /\ seen[e][p].day = job[e].day /\ plan[e][p] = 0 =>
       holder[p] = e \/ ~IsSameRow(e, p)
RowsOK ==
  /\ \A p \in Places : rows[p].by \in audit \cup {Nobody}
  /\ \A e \in Requests, p \in Places : SeenOK(e, p)

\* A request that writes no day holds none.
IdleOK ==
  \A e \in Requests : ~Writes(e) => job[e].day = 0 /\ seen[e] = [p \in Places |-> NoRow]

IInv == IdleOK /\ TypeOK /\ RequestsOK /\ PlansOK /\ RowsOK /\ DaysInOrder

(***************************************************************************)
(* Plans                                                                   *)
(***************************************************************************)
LEMMA NumberedPlan ==
  ASSUME NEW S \in SUBSET Places, S # {}, NEW f \in Numbered[S]
  PROVE  /\ f \in [Places -> Orders]
         /\ IsPlan(f)
         /\ \A p \in Places : f[p] # 0 <=> p \in S
<1>1. /\ f \in [Places -> 0..Cardinality(S)]
      /\ \A p \in Places : f[p] # 0 <=> p \in S
      /\ {f[p] : p \in S} = 1..Cardinality(S)
  BY DEF Numbered
<1>2. IsFiniteSet(Places)
  BY ConstantsAssumption
<1>3. /\ Cardinality(S) \in Nat /\ Cardinality(Places) \in Nat
      /\ Cardinality(S) <= Cardinality(Places)
  BY <1>2, FS_Subset, FS_CardinalityType
<1>4. f \in [Places -> Orders]
  BY <1>1, <1>3 DEF Orders
<1>5. {p \in Places : f[p] # 0} = S
  BY <1>1
<1>6. IsPlan(f)
  BY <1>1, <1>5 DEF IsPlan
<1> QED BY <1>1, <1>4, <1>6

LEMMA ScheduledPlan ==
  ASSUME NEW S \in SUBSET Places, S # {}, NEW f \in Schedules[S]
  PROVE  /\ f \in [Places -> Orders]
         /\ IsPlan(f)
         /\ \A p \in Places : f[p] # 0 => p \in S
         /\ \A p \in S : f[p] = 0 => p \in MorningOnly /\ FillsMorning(f)
<1>1. f \in UNION {Numbered[T] : T \in Fitting(S)}
  BY DEF Schedules
<1>2. PICK T \in Fitting(S) : f \in Numbered[T]
  BY <1>1
<1>3. T \in SUBSET S /\ S \ T \subseteq MorningOnly
  BY <1>2 DEF Fitting
<1>4. T # {}
  <2>1. Cardinality({}) = 0 /\ {} \cap (S \cap MorningOnly) = {}
    BY FS_EmptySet
  <2>2. T = S \/ Cardinality(T \cap (S \cap MorningOnly)) = MorningSlots
    BY <1>2 DEF Fitting
  <2> QED BY <2>1, <2>2, ConstantsAssumption
<1>5. ASSUME T # S PROVE FillsMorning(f)
  <2>1. Cardinality(T \cap (S \cap MorningOnly)) = MorningSlots
    BY <1>2, <1>5 DEF Fitting
  <2>2. {p \in Places : f[p] # 0} = T
    BY <1>2, <1>3, <1>4, NumberedPlan
  <2>3. T \cap (S \cap MorningOnly) = T \cap MorningOnly
    BY <1>3
  <2> QED BY <2>1, <2>2, <2>3 DEF FillsMorning
<1> QED BY <1>2, <1>3, <1>4, <1>5, NumberedPlan

\* What every edit hands to _persist_day_and_audit.
PlansEdit(e, kind, d, p, f) ==
  /\ LoadsOwned(e)
  /\ kind \in EditKinds /\ d \in Days /\ p \in Places \cup {Nobody}
  /\ f \in [Places -> Orders] /\ IsPlan(f)
  /\ \A q \in Places :
       /\ f[q] # 0 => rows[q].day = d \/ (kind = "add_stop" /\ p = q)
       /\ f[q] = 0 /\ rows[q].day = d =>
            \/ kind = "remove_stop" /\ p = q
            \/ kind # "reorder" /\ q \in MorningOnly /\ FillsMorning(f)
  /\ Edit(e, kind, d, p, f)

LEMMA PlanEdits ==
  ASSUME NEW e \in Requests, Plan(e)
  PROVE  \E kind \in EditKinds, d \in Days, p \in Places \cup {Nobody}, f \in [Places -> Orders] :
           PlansEdit(e, kind, d, p, f)
<1>1. PICK d \in Days : \/ ReorderStops(e, d)
                        \/ ReoptimizeDay(e, d)
                        \/ \E p \in Places : RemoveStop(e, d, p) \/ AddStop(e, d, p)
  BY DEF Plan
<1>2. On(d) \in SUBSET Places /\ \A p \in Places : p \in On(d) <=> rows[p].day = d
  BY DEF On
<1>3. CASE ReorderStops(e, d)
  <2>1. PICK f \in Numbered[On(d)] : Edit(e, "reorder", d, Nobody, f)
    BY <1>3 DEF ReorderStops
  <2>2. PlansEdit(e, "reorder", d, Nobody, f)
    BY <1>2, <1>3, <2>1, NumberedPlan DEF PlansEdit, ReorderStops, EditKinds
  <2> QED BY <2>2 DEF PlansEdit
<1>4. CASE ReoptimizeDay(e, d)
  <2>1. PICK f \in Schedules[On(d)] : Edit(e, "reoptimize_day", d, Nobody, f)
    BY <1>4 DEF ReoptimizeDay
  <2>2. PlansEdit(e, "reoptimize_day", d, Nobody, f)
    BY <1>2, <1>4, <2>1, ScheduledPlan DEF PlansEdit, ReoptimizeDay, EditKinds
  <2> QED BY <2>2 DEF PlansEdit
<1>5. ASSUME NEW p \in Places, RemoveStop(e, d, p)
      PROVE  \E f \in [Places -> Orders] : PlansEdit(e, "remove_stop", d, p, f)
  <2>1. PICK f \in Schedules[On(d) \ {p}] : Edit(e, "remove_stop", d, p, f)
    BY <1>5 DEF RemoveStop
  <2>2. On(d) \ {p} \in SUBSET Places /\ On(d) \ {p} # {}
    BY <1>2, <1>5 DEF RemoveStop
  <2>3. /\ f \in [Places -> Orders] /\ IsPlan(f)
        /\ \A q \in Places : f[q] # 0 => q \in On(d) \ {p}
        /\ \A q \in On(d) \ {p} : f[q] = 0 => q \in MorningOnly /\ FillsMorning(f)
    BY <2>1, <2>2, ScheduledPlan
  <2>4. PlansEdit(e, "remove_stop", d, p, f)
    BY <1>2, <1>5, <2>1, <2>3 DEF PlansEdit, RemoveStop, EditKinds
  <2> QED BY <2>3, <2>4
<1>6. ASSUME NEW p \in Places, AddStop(e, d, p)
      PROVE  \E f \in [Places -> Orders] : PlansEdit(e, "add_stop", d, p, f)
  <2>1. PICK f \in Schedules[On(d) \cup {p}] : Edit(e, "add_stop", d, p, f)
    BY <1>6 DEF AddStop
  <2>2. On(d) \cup {p} \in SUBSET Places
    BY <1>2
  <2>3. /\ f \in [Places -> Orders] /\ IsPlan(f)
        /\ \A q \in Places : f[q] # 0 => q \in On(d) \cup {p}
        /\ \A q \in On(d) \cup {p} : f[q] = 0 => q \in MorningOnly /\ FillsMorning(f)
    BY <2>1, <2>2, ScheduledPlan
  <2>4. PlansEdit(e, "add_stop", d, p, f)
    BY <1>2, <1>6, <2>1, <2>3 DEF PlansEdit, AddStop, EditKinds
  <2> QED BY <2>3, <2>4
<1>7. {"remove_stop", "add_stop"} \subseteq EditKinds
  BY DEF EditKinds
<1> QED BY <1>1, <1>3, <1>4, <1>5, <1>6, <1>7

\* The steps of a request.
Rolls(e) == Writes(e) /\ RollBack(e)
ClaimOrDeleteLoads(e) ==
  \E u \in Users :
    \/ trip.owner = Nobody /\ Load(e, "claim", u, "claiming")
    \/ Load(e, "delete", u, "deleting")

LEMMA Steps ==
  ASSUME NEW e \in Requests, Step(e)
  PROVE  \/ Refuse(e)
         \/ \E kind \in EditKinds, d \in Days, p \in Places \cup {Nobody}, f \in [Places -> Orders] :
              PlansEdit(e, kind, d, p, f)
         \/ DeleteRows(e) \/ Commit(e) \/ Rolls(e) \/ Reload(e)
         \/ ClaimOrDeleteLoads(e) \/ ClaimCommits(e) \/ SoftDelete(e)
<1>1. UniqueViolation(e) \/ Deadlock(e) \/ WriteFails(e) => Rolls(e)
  BY DEF UniqueViolation, Deadlock, WriteFails, Rolls, Writes
<1>2. Own(e) => ClaimOrDeleteLoads(e)
  BY DEF Own, ClaimLoads, DeleteLoads, ClaimOrDeleteLoads
<1> QED BY <1>1, <1>2, PlanEdits DEF Step, Persist

(***************************************************************************)
(* Types and locks                                                         *)
(***************************************************************************)
\* A commit leaves the rows that others have deleted alone.
LEMMA OthersLocks ==
  ASSUME TypeOK, NEW e \in Requests, Commit(e),
         NEW p \in Places, holder[p] # e, holder[p] # Nobody
  PROVE  Written(e)[p] = rows[p]
<1>1. PICK touched \in SUBSET (Loaded(e) \cap Planned(e)) :
        /\ Renumbered(e) \subseteq touched
        /\ Unlocked(e, {q \in touched : IsSameRow(e, q)} \cup New(e))
  BY DEF Commit
<1>2. p \notin New(e)
  BY <1>1 DEF Unlocked
<1>3. p \in Renumbered(e) => ~IsSameRow(e, p)
  BY <1>1 DEF Unlocked
<1> QED BY <1>2, <1>3 DEF Written, Updated

LEMMA WrittenType ==
  ASSUME TypeOK, NEW e \in Requests
  PROVE  Written(e) \in [Places -> Row]
<1> SUFFICES ASSUME NEW p \in Places PROVE Written(e)[p] \in Row
  BY DEF Written
<1>1. rows[p] \in Row /\ plan[e][p] \in Orders /\ job[e].day \in Nat /\ e \in Requests \cup {Nobody}
  BY DEF TypeOK, Job
<1>2. NoRow \in Row
  <2>1. Cardinality(Places) \in Nat
    BY ConstantsAssumption, FS_CardinalityType
  <2> QED BY <2>1 DEF NoRow, Row, Orders
<1>3. Updated(e, p) \in Row
  BY <1>1 DEF Updated, Row
<1>4. Inserted(e, p) \in Row
  BY <1>1 DEF Inserted, Row
<1> QED BY <1>1, <1>2, <1>3, <1>4 DEF Written

\* What Forget leaves.
LEMMA ForgetType ==
  ASSUME TypeOK, NEW e \in Requests, Forget(e)
  PROVE  /\ job' \in [Requests -> Job]
         /\ seen' \in [Requests -> [Places -> Row]]
         /\ plan' \in [Requests -> [Places -> Orders]]
         /\ job'[e].kind = job[e].kind
         /\ \A r \in Requests \ {e} : job'[r] = job[r] /\ seen'[r] = seen[r] /\ plan'[r] = plan[r]
         /\ seen'[e] = [p \in Places |-> NoRow] /\ plan'[e] = [p \in Places |-> 0]
<1>1. Cardinality(Places) \in Nat
  BY ConstantsAssumption, FS_CardinalityType
<1>2. [NoJob EXCEPT !.kind = job[e].kind] \in Job
  BY DEF TypeOK, NoJob, Job
<1>3. [p \in Places |-> NoRow] \in [Places -> Row]
  BY <1>1 DEF NoRow, Row, Orders
<1>4. [p \in Places |-> 0] \in [Places -> Orders]
  BY <1>1 DEF Orders
<1>5. [NoJob EXCEPT !.kind = job[e].kind].kind = job[e].kind
  BY DEF NoJob
<1> QED BY <1>2, <1>3, <1>4, <1>5 DEF TypeOK, Forget

LEMMA TypeInit ==
  Init => TypeOK
<1> SUFFICES ASSUME Init PROVE TypeOK
  OBVIOUS
<1>1. Cardinality(Places) \in Nat
  BY ConstantsAssumption, FS_CardinalityType
<1>2. PICK i \in Itineraries \cup Mixtures :
        /\ rows = [p \in Places |-> [day |-> i[p].day, order |-> i[p].order, by |-> Nobody]]
        /\ torn = IF i \in Itineraries THEN {} ELSE Days
  BY DEF Init
<1>3. i \in [Places -> [day : Nat, order : 0..Cardinality(Places)]]
  BY ItinerariesAssumption
<1>4. rows \in [Places -> Row]
  BY <1>2, <1>3 DEF Row, Orders
<1>5. torn \subseteq Nat
  BY <1>2, DaysAssumption
<1>6. seen \in [Requests -> [Places -> Row]]
  BY <1>1 DEF Init, NoRow, Row, Orders
<1>7. plan \in [Requests -> [Places -> Orders]]
  BY <1>1 DEF Init, Orders
<1>8. job \in [Requests -> Job]
  BY DEF Init, NoJob, Job
<1>9. holder \in [Places -> Requests \cup {Nobody}] /\ \A p \in Places : holder[p] = Nobody
  BY DEF Init
<1> QED BY <1>4, <1>5, <1>6, <1>7, <1>8, <1>9 DEF Init, TypeOK

LEMMA TypeStep ==
  ASSUME TypeOK, NEW e \in Requests, Step(e)
  PROVE  TypeOK'
<1> USE DEF TypeOK
<1>1. CASE Refuse(e)
  BY <1>1 DEF Refuse
<1>2. ASSUME NEW kind \in EditKinds, NEW d \in Days, NEW p \in Places \cup {Nobody},
             NEW f \in [Places -> Orders], PlansEdit(e, kind, d, p, f)
      PROVE  TypeOK'
  <2>1. [kind |-> kind, user |-> trip.owner, day |-> d, place |-> p] \in Job
    BY <1>2, DaysAssumption DEF Job, Kinds, TripRow
  <2> QED BY <1>2, <2>1 DEF PlansEdit, Edit, LoadsOwned
<1>3. CASE DeleteRows(e)
  BY <1>3 DEF DeleteRows, Doomed, Loaded, Planned
<1>4. CASE Commit(e)
  <2>1. Forget(e) /\ rows' = Written(e) /\ holder' = Released(e) /\ at[e] = "flushing"
        /\ at' = [at EXCEPT ![e] = "reloading"] /\ UNCHANGED <<trip, answer>>
        /\ audit' = audit \cup {e}
        /\ torn' \subseteq torn \cup {job[e].day}
    BY <1>4 DEF Commit
  <2>2. job[e].day \in Nat
    BY DEF Job
  <2>3. ASSUME NEW p \in Places, holder'[p] # Nobody
        PROVE  /\ at'[holder'[p]] = "flushing"
               /\ rows'[p].day = job'[holder'[p]].day
               /\ seen'[holder'[p]][p].day = job'[holder'[p]].day
               /\ plan'[holder'[p]][p] = 0
    <3>1. holder'[p] = holder[p] /\ holder[p] # e
      BY <2>1, <2>3 DEF Released
    <3>2. rows'[p] = rows[p]
      BY <1>4, <2>1, <2>3, <3>1, OthersLocks
    <3> QED BY <2>1, <2>3, <3>1, <3>2, ForgetType
  <2>4. rows' \in [Places -> Row]
    BY <2>1, WrittenType
  <2>5. holder' \in [Places -> Requests \cup {Nobody}]
    BY <2>1 DEF Released
  <2> QED BY <2>1, <2>2, <2>3, <2>4, <2>5, ForgetType
<1>5. CASE Rolls(e)
  <2>1. Forget(e) /\ holder' = Released(e) /\ at' = [at EXCEPT ![e] = "done"]
        /\ answer' = [answer EXCEPT ![e] = "failed"]
        /\ UNCHANGED <<trip, rows, audit, torn>>
    BY <1>5 DEF Rolls, RollBack
  <2>2. \A p \in Places : holder'[p] # Nobody => holder'[p] = holder[p] /\ holder[p] # e
    BY <2>1 DEF Released
  <2>3. holder' \in [Places -> Requests \cup {Nobody}]
    BY <2>1 DEF Released
  <2> QED BY <2>1, <2>2, <2>3, ForgetType
<1>6. CASE Reload(e)
  BY <1>6 DEF Reload
<1>7. CASE ClaimOrDeleteLoads(e)
  <2>1. PICK kind \in {"claim", "delete"}, next \in {"claiming", "deleting"}, u \in Users :
          Load(e, kind, u, next)
    BY <1>7 DEF ClaimOrDeleteLoads
  <2>2. [NoJob EXCEPT !.kind = kind, !.user = u] \in Job
    BY DEF NoJob, Job, Kinds
  <2>3. \A p \in Places : holder[p] # e
    BY <2>1, ConstantsAssumption DEF Load
  <2> QED BY <2>1, <2>2, <2>3 DEF Load
<1>8. CASE ClaimCommits(e)
  <2>1. \A p \in Places : holder[p] # e
    BY <1>8, ConstantsAssumption DEF ClaimCommits
  <2>2. trip' \in TripRow
    BY <1>8 DEF ClaimCommits, TripRow, Job
  <2> QED BY <1>8, <2>1, <2>2, ForgetType DEF ClaimCommits
<1>9. CASE SoftDelete(e)
  <2>1. \A p \in Places : holder[p] # e
    BY <1>9, ConstantsAssumption DEF SoftDelete
  <2>2. trip' \in TripRow
    BY <1>9 DEF SoftDelete, TripRow
  <2> QED BY <1>9, <2>1, <2>2, ForgetType DEF SoftDelete
<1> QED BY <1>1, <1>2, <1>3, <1>4, <1>5, <1>6, <1>7, <1>8, <1>9, Steps

\* Every value stays of its type, and a row is locked only by the open transaction
\* that has deleted it.
THEOREM TypeCorrect == Spec => []TypeOK
<1>1. TypeOK /\ [Next]_vars => TypeOK'
  <2> SUFFICES ASSUME TypeOK, [Next]_vars PROVE TypeOK'
    OBVIOUS
  <2>1. CASE Next
    BY <2>1, TypeStep DEF Next
  <2>2. CASE UNCHANGED vars
    BY <2>2 DEF TypeOK, vars, request
  <2> QED BY <2>1, <2>2
<1> QED BY <1>1, TypeInit, PTL DEF Spec

(***************************************************************************)
(* Requests: answers, events and jobs                                      *)
(***************************************************************************)
\* Only the request that takes the step is changed, but for the row locks.
LEMMA OthersStay ==
  ASSUME TypeOK, NEW e \in Requests, Step(e), NEW r \in Requests \ {e}
  PROVE  /\ at'[r] = at[r] /\ answer'[r] = answer[r]
         /\ job'[r] = job[r] /\ seen'[r] = seen[r] /\ plan'[r] = plan[r]
         /\ r \in audit' <=> r \in audit
<1>1. Refuse(e) => at' = [at EXCEPT ![e] = "done"] /\ answer' = [answer EXCEPT ![e] = "refused"]
                   /\ UNCHANGED <<job, seen, plan, audit>>
  BY DEF Refuse
<1>2. ASSUME NEW kind \in EditKinds, NEW d \in Days, NEW p \in Places \cup {Nobody},
             NEW f \in [Places -> Orders], PlansEdit(e, kind, d, p, f)
      PROVE  /\ at'[r] = at[r] /\ answer'[r] = answer[r]
             /\ job'[r] = job[r] /\ seen'[r] = seen[r] /\ plan'[r] = plan[r]
             /\ r \in audit' <=> r \in audit
  BY <1>2 DEF PlansEdit, Edit, TypeOK
<1>3. CASE DeleteRows(e)
  BY <1>3 DEF DeleteRows, TypeOK
<1>4. CASE Commit(e)
  BY <1>4, ForgetType DEF Commit, TypeOK
<1>5. CASE Rolls(e)
  BY <1>5, ForgetType DEF Rolls, RollBack, TypeOK
<1>6. CASE Reload(e)
  BY <1>6 DEF Reload, TypeOK
<1>7. CASE ClaimOrDeleteLoads(e)
  BY <1>7 DEF ClaimOrDeleteLoads, Load, TypeOK
<1>8. CASE ClaimCommits(e)
  BY <1>8, ForgetType DEF ClaimCommits, TypeOK
<1>9. CASE SoftDelete(e)
  BY <1>9, ForgetType DEF SoftDelete, TypeOK
<1>10. CASE Refuse(e)
  BY <1>1, <1>10 DEF TypeOK
<1> QED BY <1>2, <1>3, <1>4, <1>5, <1>6, <1>7, <1>8, <1>9, <1>10, Steps

LEMMA DeletedStays ==
  ASSUME TypeOK, NEW e \in Requests, Step(e), trip.deleted
  PROVE  trip'.deleted
<1>1. CASE ClaimCommits(e)
  BY <1>1 DEF ClaimCommits, TypeOK, TripRow
<1>2. CASE SoftDelete(e)
  BY <1>2 DEF SoftDelete, TypeOK, TripRow
<1>3. CASE UNCHANGED trip
  BY <1>3
<1>4. UNCHANGED trip \/ ClaimCommits(e) \/ SoftDelete(e)
  BY Steps DEF Refuse, PlansEdit, Edit, DeleteRows, Commit, Rolls, RollBack, Reload,
     ClaimOrDeleteLoads, Load
<1> QED BY <1>1, <1>2, <1>3, <1>4

LEMMA RequestsStep ==
  ASSUME TypeOK, RequestsOK, NEW e \in Requests, Step(e)
  PROVE  RequestsOK'
<1> SUFFICES ASSUME NEW r \in Requests PROVE RequestOK(r)'
  BY DEF RequestsOK
<1>0. RequestOK(r) /\ RequestOK(e)
  BY DEF RequestsOK
<1>1. CASE r # e
  BY <1>0, <1>1, OthersStay, DeletedStays DEF RequestOK, Writes
<1>2. CASE r = e
  <2> /\ at \in [Requests -> {"start", "writing", "flushing", "claiming", "deleting",
                              "reloading", "done"}]
      /\ job \in [Requests -> Job]
      /\ answer \in [Requests -> {"none", "refused", "failed", "ok"}]
    BY DEF TypeOK
  <2>1. CASE Refuse(e)
    BY <1>0, <1>2, <2>1 DEF Refuse, RequestOK, Writes
  <2>2. ASSUME NEW kind \in EditKinds, NEW d \in Days, NEW p \in Places \cup {Nobody},
               NEW f \in [Places -> Orders], PlansEdit(e, kind, d, p, f)
        PROVE  RequestOK(e)'
    <3>1. at[e] = "start" /\ at'[e] = "writing" /\ job'[e].kind = kind /\ job'[e].day = d
          /\ UNCHANGED <<trip, answer, audit>>
      BY <2>2 DEF PlansEdit, Edit, LoadsOwned
    <3> QED BY <1>0, <3>1 DEF RequestOK, Writes
  <2>3. CASE DeleteRows(e)
    BY <1>0, <1>2, <2>3 DEF DeleteRows, RequestOK, Writes
  <2>4. CASE Commit(e)
    <3>1. at[e] = "flushing" /\ at'[e] = "reloading" /\ audit' = audit \cup {e}
          /\ UNCHANGED <<trip, answer>>
      BY <2>4 DEF Commit
    <3> QED BY <1>0, <1>2, <3>1 DEF RequestOK, Writes
  <2>5. CASE Rolls(e)
    <3>1. Writes(e) /\ at'[e] = "done" /\ answer'[e] = "failed" /\ UNCHANGED audit
      BY <2>5 DEF Rolls, RollBack
    <3> QED BY <1>0, <1>2, <3>1 DEF RequestOK, Writes
  <2>6. CASE Reload(e)
    BY <1>0, <1>2, <2>6 DEF Reload, RequestOK, Writes
  <2>7. CASE ClaimOrDeleteLoads(e)
    <3>1. PICK u \in Users :
            \/ Load(e, "claim", u, "claiming")
            \/ Load(e, "delete", u, "deleting")
      BY <2>7 DEF ClaimOrDeleteLoads
    <3>2. at[e] = "start" /\ UNCHANGED <<trip, answer, audit>>
          /\ \/ at'[e] = "claiming" /\ job'[e].kind = "claim" /\ job'[e].user = u
             \/ at'[e] = "deleting" /\ job'[e].kind = "delete"
      BY <3>1 DEF Load, NoJob
    <3> QED BY <1>0, <1>2, <3>2 DEF RequestOK, Writes
  <2>8. CASE ClaimCommits(e)
    <3>1. at[e] = "claiming" /\ at'[e] = "reloading" /\ job'[e].kind = "claim"
          /\ UNCHANGED <<answer, audit>>
      BY <1>0, <2>8, ForgetType DEF ClaimCommits, RequestOK
    <3> QED BY <1>0, <1>2, <3>1 DEF RequestOK, Writes, EditKinds
  <2>9. CASE SoftDelete(e)
    <3>1. at[e] = "deleting" /\ at'[e] = "done" /\ job'[e].kind = "delete"
          /\ answer'[e] \in {"refused", "ok"} /\ UNCHANGED audit
      BY <1>0, <2>9, ForgetType DEF SoftDelete, RequestOK
    <3> QED BY <1>0, <1>2, <3>1 DEF RequestOK, Writes, EditKinds
  <2> QED BY <1>2, <2>1, <2>2, <2>3, <2>4, <2>5, <2>6, <2>7, <2>8, <2>9, Steps
<1> QED BY <1>1, <1>2

(***************************************************************************)
(* Plans and rows                                                          *)
(***************************************************************************)
\* The steps after which a request writes a day.
LEMMA WritesAfter ==
  ASSUME TypeOK, NEW e \in Requests, Step(e), Writes(e)'
  PROVE  \/ \E kind \in EditKinds, d \in Days, p \in Places \cup {Nobody}, f \in [Places -> Orders] :
              PlansEdit(e, kind, d, p, f)
         \/ DeleteRows(e)
<1> at \in [Requests -> {"start", "writing", "flushing", "claiming", "deleting",
                         "reloading", "done"}]
  BY DEF TypeOK
<1> QED BY Steps DEF Writes, Refuse, Commit, Rolls, RollBack, Reload, ClaimOrDeleteLoads, Load,
           ClaimCommits, SoftDelete

LEMMA PlansStep ==
  ASSUME TypeOK, PlansOK, NEW e \in Requests, Step(e)
  PROVE  PlansOK'
<1> SUFFICES ASSUME NEW r \in Requests, Writes(r)' PROVE PlanOK(r)'
  BY DEF PlansOK, PlanOK
<1>0. PlanOK(r)
  BY DEF PlansOK
<1>1. CASE r # e
  <2>1. /\ at'[r] = at[r] /\ job'[r] = job[r]
        /\ seen'[r] = seen[r] /\ plan'[r] = plan[r]
    BY <1>1, OthersStay
  <2>2. Writes(r)
    BY <2>1 DEF Writes
  <2>3. (IsPlan(plan[r])' <=> IsPlan(plan[r])) /\ (FillsMorning(plan[r])' <=> FillsMorning(plan[r]))
    BY <2>1 DEF IsPlan, FillsMorning
  <2> QED BY <1>0, <2>1, <2>2, <2>3 DEF PlanOK, Adds, MayOmit
<1>2. CASE r = e /\ DeleteRows(e)
  <2>1. Writes(r) /\ plan'[r] = plan[r] /\ seen'[r] = seen[r] /\ job'[r] = job[r]
    BY <1>2 DEF DeleteRows, Writes
  <2> QED BY <1>0, <2>1 DEF PlanOK, Adds, MayOmit, IsPlan, FillsMorning
<1>3. ASSUME NEW kind \in EditKinds, NEW d \in Days, NEW p \in Places \cup {Nobody},
             NEW f \in [Places -> Orders], PlansEdit(e, kind, d, p, f), r = e
      PROVE  PlanOK(r)'
  <2>1. /\ plan'[r] = f /\ seen'[r] = rows
        /\ job'[r].kind = kind /\ job'[r].place = p /\ job'[r].day = d
    BY <1>3 DEF PlansEdit, Edit, TypeOK
  <2>2. /\ IsPlan(f)
        /\ \A q \in Places :
             /\ f[q] # 0 => rows[q].day = d \/ (kind = "add_stop" /\ p = q)
             /\ f[q] = 0 /\ rows[q].day = d =>
                  \/ kind = "remove_stop" /\ p = q
                  \/ kind # "reorder" /\ q \in MorningOnly /\ FillsMorning(f)
    BY <1>3 DEF PlansEdit
  <2> QED BY <2>1, <2>2 DEF PlanOK, Adds, MayOmit, IsPlan, FillsMorning
<1> QED BY <1>1, <1>2, <1>3, WritesAfter

LEMMA IdleStep ==
  ASSUME TypeOK, IdleOK, NEW e \in Requests, Step(e)
  PROVE  IdleOK'
<1> SUFFICES ASSUME NEW r \in Requests, ~Writes(r)'
             PROVE  job'[r].day = 0 /\ seen'[r] = [p \in Places |-> NoRow]
  BY DEF IdleOK
<1> USE DEF Writes
<1>0. at \in [Requests -> {"start", "writing", "flushing", "claiming", "deleting",
                           "reloading", "done"}]
  BY DEF TypeOK
<1>1. CASE r # e
  BY <1>1, OthersStay DEF IdleOK
<1>2. CASE r = e
  <2>1. CASE Refuse(e) \/ Reload(e)
    <3>1. ~Writes(e) /\ UNCHANGED <<job, seen>>
      BY <2>1 DEF Refuse, Reload
    <3> QED BY <1>2, <3>1 DEF IdleOK
  <2>2. ASSUME NEW kind \in EditKinds, NEW d \in Days, NEW p \in Places \cup {Nobody},
               NEW f \in [Places -> Orders], PlansEdit(e, kind, d, p, f)
        PROVE  FALSE
    BY <1>0, <1>2, <2>2 DEF PlansEdit, Edit
  <2>3. CASE DeleteRows(e)
    BY <1>0, <1>2, <2>3 DEF DeleteRows
  <2>4. CASE Commit(e) \/ Rolls(e) \/ ClaimCommits(e) \/ SoftDelete(e)
    <3>1. Forget(e)
      BY <2>4 DEF Commit, Rolls, RollBack, ClaimCommits, SoftDelete
    <3>2. job'[e].day = 0
      BY <3>1 DEF Forget, NoJob, TypeOK
    <3> QED BY <1>2, <3>1, <3>2, ForgetType
  <2>5. CASE ClaimOrDeleteLoads(e)
    <3>1. PICK kind \in {"claim", "delete"}, next \in {"claiming", "deleting"}, u \in Users :
            Load(e, kind, u, next)
      BY <2>5 DEF ClaimOrDeleteLoads
    <3>2. job'[e].day = 0
      BY <3>1 DEF Load, NoJob, TypeOK
    <3>3. ~Writes(e) /\ UNCHANGED seen
      BY <3>1 DEF Load
    <3> QED BY <1>2, <3>2, <3>3 DEF IdleOK
  <2> QED BY <2>1, <2>2, <2>3, <2>4, <2>5, Steps
<1> QED BY <1>1, <1>2

\* What a commit makes of a row.
LEMMA WrittenRow ==
  ASSUME TypeOK, NEW e \in Requests, Commit(e), NEW p \in Places
  PROVE  \/ rows'[p] = rows[p]
         \/ rows'[p] = NoRow /\ holder[p] = e
         \/ /\ rows'[p] = [rows[p] EXCEPT !.order = plan[e][p]]
            /\ p \in Renumbered(e) /\ IsSameRow(e, p) /\ holder[p] # e
         \/ /\ rows'[p] = [day |-> job[e].day, order |-> plan[e][p], by |-> e]
            /\ p \in New(e) /\ ~IsOnTrip(p) /\ holder[p] # e
<1>1. rows'[p] = Written(e)[p]
  BY DEF Commit
<1>2. rows'[p] = IF holder[p] = e THEN NoRow
                 ELSE IF p \in Renumbered(e) THEN Updated(e, p)
                 ELSE IF p \in New(e) THEN Inserted(e, p)
                 ELSE rows[p]
  BY <1>1 DEF Written
<1>3. p \in New(e) => ~IsOnTrip(p)
  BY DEF Commit
<1> QED BY <1>2, <1>3 DEF Updated, Inserted

LEMMA RowsStay ==
  ASSUME NEW e \in Requests, Step(e), ~Commit(e)
  PROVE  rows' = rows
BY Steps DEF Refuse, PlansEdit, Edit, DeleteRows, Rolls, RollBack, Reload, ClaimOrDeleteLoads,
   Load, ClaimCommits, SoftDelete

LEMMA AuditGrows ==
  ASSUME NEW e \in Requests, Step(e)
  PROVE  audit' = IF Commit(e) THEN audit \cup {e} ELSE audit
<1>1. Commit(e) => audit' = audit \cup {e}
  BY DEF Commit
<1>2. ~Commit(e) => audit' = audit
  BY Steps DEF Refuse, PlansEdit, Edit, DeleteRows, Rolls, RollBack, Reload, ClaimOrDeleteLoads,
     Load, ClaimCommits, SoftDelete
<1> QED BY <1>1, <1>2

\* A lock passes from one request to another only through its release.
LEMMA LocksStay ==
  ASSUME TypeOK, NEW e \in Requests, Step(e), NEW r \in Requests \ {e}, NEW p \in Places,
         holder[p] = r
  PROVE  holder'[p] = r
<1>1. CASE DeleteRows(e)
  <2>1. p \notin Doomed(e)
    BY <1>1, ConstantsAssumption DEF DeleteRows, Unlocked
  <2> QED BY <1>1, <2>1 DEF DeleteRows
<1>2. CASE holder' = Released(e)
  BY <1>2 DEF Released
<1>3. CASE holder' = holder
  BY <1>3
<1> QED BY <1>1, <1>2, <1>3, Steps DEF Refuse, PlansEdit, Edit, Commit, Rolls, RollBack, Reload,
           ClaimOrDeleteLoads, Load, ClaimCommits, SoftDelete

\* No row becomes the row of a request that had loaded another one.
LEMMA IdentityStays ==
  ASSUME TypeOK, RowsOK, RequestsOK, NEW e \in Requests, Commit(e), NEW p \in Places,
         NEW b \in audit \cup {Nobody}, rows'[p].day # 0, rows'[p].by = b
  PROVE  rows[p].day = rows'[p].day /\ rows[p].by = b
<1>1. e \notin audit
  BY DEF RequestsOK, RequestOK, Commit
<1>2. e # b
  BY <1>1, ConstantsAssumption
<1>3. rows[p] \in Row
  BY DEF TypeOK
<1>4. CASE rows'[p] = [day |-> job[e].day, order |-> plan[e][p], by |-> e]
  BY <1>2, <1>4
<1>5. CASE rows'[p] = NoRow
  BY <1>5 DEF NoRow
<1>6. CASE rows'[p] = [rows[p] EXCEPT !.order = plan[e][p]]
  BY <1>3, <1>6 DEF Row
<1> QED BY <1>4, <1>5, <1>6, WrittenRow

LEMMA RowsStep ==
  ASSUME TypeOK, RowsOK, RequestsOK, NEW e \in Requests, Step(e)
  PROVE  RowsOK'
<1>1. audit \subseteq audit'
  BY AuditGrows
<1>2. ASSUME NEW p \in Places PROVE rows'[p].by \in audit' \cup {Nobody}
  <2>1. rows[p].by \in audit \cup {Nobody} /\ rows[p] \in Row
    BY DEF RowsOK, TypeOK
  <2>2. CASE Commit(e)
    <3>1. e \in audit'
      BY <2>2, AuditGrows
    <3>2. [rows[p] EXCEPT !.order = plan[e][p]].by = rows[p].by /\ NoRow.by = Nobody
      BY <2>1 DEF Row, NoRow
    <3>3. [day |-> job[e].day, order |-> plan[e][p], by |-> e].by = e
      OBVIOUS
    <3>4. rows'[p].by \in {rows[p].by, Nobody, e}
      BY <2>2, <3>2, <3>3, WrittenRow
    <3> QED BY <1>1, <2>1, <3>1, <3>4
  <2>3. CASE ~Commit(e)
    BY <1>1, <2>1, <2>3, RowsStay
  <2> QED BY <2>2, <2>3
<1>3. ASSUME NEW r \in Requests, NEW p \in Places, seen'[r] = seen[r], job'[r] = job[r],
             plan'[r] = plan[r], at'[r] = at[r] \/ at'[r] # "flushing", holder[p] = r => holder'[p] = r
      PROVE  SeenOK(r, p)'
  <2>1. SeenOK(r, p)
    BY DEF RowsOK
  <2>2. IsSameRow(r, p)' => IsSameRow(r, p) /\ rows'[p].day = rows[p].day
    <3>1. CASE Commit(e)
      BY <1>3, <2>1, <3>1, IdentityStays DEF IsSameRow, SeenOK
    <3>2. CASE ~Commit(e)
      BY <1>3, <3>2, RowsStay DEF IsSameRow
    <3> QED BY <3>1, <3>2
  <2> QED BY <1>1, <1>3, <2>1, <2>2 DEF SeenOK
<1>4. ASSUME NEW r \in Requests \ {e}, NEW p \in Places PROVE SeenOK(r, p)'
  BY <1>3, OthersStay, LocksStay
<1>5. ASSUME NEW p \in Places PROVE SeenOK(e, p)'
  <2>0. SeenOK(e, p) /\ rows[p].by \in audit \cup {Nobody}
    BY DEF RowsOK
  <2>1. ASSUME NEW kind \in EditKinds, NEW d \in Days, NEW q \in Places \cup {Nobody},
               NEW f \in [Places -> Orders], PlansEdit(e, kind, d, q, f)
        PROVE  SeenOK(e, p)'
    <3>1. seen'[e] = rows /\ rows' = rows /\ at'[e] = "writing"
      BY <2>1 DEF PlansEdit, Edit, TypeOK
    <3> QED BY <1>1, <2>0, <3>1 DEF SeenOK, IsSameRow
  <2>2. CASE DeleteRows(e)
    <3>1. UNCHANGED <<seen, job, plan, rows, audit>>
          /\ holder'[p] = IF p \in Doomed(e) THEN e ELSE holder[p]
      BY <2>2 DEF DeleteRows
    <3>2. ASSUME seen[e][p].day = job[e].day, plan[e][p] = 0, IsSameRow(e, p)
          PROVE  p \in Doomed(e)
      <4>1. seen[e][p].day # 0
        BY <2>2, <3>2, DaysAssumption DEF RequestsOK, RequestOK, DeleteRows, Writes
      <4> QED BY <2>0, <3>2, <4>1 DEF SeenOK, Doomed, Loaded, Planned
    <3> QED BY <2>0, <3>1, <3>2 DEF SeenOK, IsSameRow
  <2>3. ASSUME seen'[e] = seen[e], at'[e] # "flushing", rows' = rows PROVE SeenOK(e, p)'
    BY <1>1, <2>0, <2>3 DEF SeenOK, IsSameRow
  <2>4. ASSUME Forget(e), at'[e] # "flushing" PROVE SeenOK(e, p)'
    <3>1. seen'[e][p] = NoRow
      BY <2>4, ForgetType
    <3> QED BY <2>4, <3>1 DEF SeenOK, NoRow
  <2>5. CASE Refuse(e) \/ Reload(e) \/ ClaimOrDeleteLoads(e)
    BY <2>3, <2>5 DEF Refuse, Reload, ClaimOrDeleteLoads, Load, TypeOK
  <2>6. CASE Commit(e) \/ Rolls(e) \/ ClaimCommits(e) \/ SoftDelete(e)
    BY <2>4, <2>6 DEF Commit, Rolls, RollBack, ClaimCommits, SoftDelete, TypeOK
  <2> QED BY <2>1, <2>2, <2>5, <2>6, Steps
<1> QED BY <1>2, <1>4, <1>5 DEF RowsOK

(***************************************************************************)
(* The numbers of a day                                                    *)
(***************************************************************************)
\* A commit leaves the other days as they are.
LEMMA OtherDays ==
  ASSUME TypeOK, RequestsOK, PlansOK, RowsOK, NEW e \in Requests, Commit(e),
         NEW d \in Days, d # job[e].day, NEW p \in Places
  PROVE  /\ rows'[p].day = d <=> rows[p].day = d
         /\ rows[p].day = d => rows'[p] = rows[p]
<1>1. job[e].day \in Days /\ d # 0 /\ rows[p] \in Row
  BY DaysAssumption DEF RequestsOK, RequestOK, Writes, Commit, TypeOK
<1>2. CASE rows'[p] = rows[p]
  BY <1>2
<1>3. CASE rows'[p] = NoRow /\ holder[p] = e
  <2>1. rows[p].day = job[e].day
    BY <1>3, ConstantsAssumption DEF TypeOK
  <2> QED BY <1>1, <1>3, <2>1 DEF NoRow
<1>4. CASE rows'[p] = [rows[p] EXCEPT !.order = plan[e][p]] /\ p \in Renumbered(e) /\ IsSameRow(e, p)
  <2>1. seen[e][p].day = job[e].day /\ job[e].day # 0
    BY <1>1, <1>4, DaysAssumption DEF Renumbered, Loaded
  <2>2. rows[p].day = job[e].day
    BY <1>4, <2>1 DEF RowsOK, SeenOK
  <2> QED BY <1>1, <1>4, <2>2 DEF Row
<1>5. CASE /\ rows'[p] = [day |-> job[e].day, order |-> plan[e][p], by |-> e]
           /\ ~IsOnTrip(p)
  BY <1>1, <1>5 DEF IsOnTrip
<1> QED BY <1>2, <1>3, <1>4, <1>5, WrittenRow

\* A commit that found the rows it had loaded leaves its plan.
LEMMA OwnDay ==
  ASSUME TypeOK, RequestsOK, PlansOK, RowsOK, NEW e \in Requests, Commit(e),
         ~Overlapped(e), NEW p \in Places
  PROVE  /\ rows'[p].day = job[e].day <=> plan[e][p] # 0
         /\ plan[e][p] # 0 => rows'[p].order = plan[e][p]
<1> DEFINE d == job[e].day
<1>1. d \in Days /\ d # 0 /\ rows[p] \in Row /\ at[e] = "flushing"
  BY DaysAssumption DEF RequestsOK, RequestOK, Writes, Commit, TypeOK
<1>2. rows[p].day = d \/ seen[e][p].day = d => rows[p] = seen[e][p]
  BY DEF Overlapped
<1>3. holder[p] = e => plan[e][p] = 0
  BY ConstantsAssumption DEF TypeOK
<1>4. p \in Loaded(e) <=> seen[e][p].day = d
  BY DEF Loaded
<1>5. p \in Planned(e) <=> plan[e][p] # 0
  BY DEF Planned
<1>6. CASE holder[p] = e
  <2>1. rows'[p] = NoRow
    BY <1>6 DEF Commit, Written
  <2> QED BY <1>1, <1>3, <1>6, <2>1 DEF NoRow
<1>7. CASE holder[p] # e /\ plan[e][p] = 0
  <2>1. rows'[p] = rows[p]
    BY <1>5, <1>7 DEF Commit, Written, Renumbered, New
  <2>2. seen[e][p].day = d => ~IsSameRow(e, p)
    BY <1>1, <1>7 DEF RowsOK, SeenOK
  <2>3. rows[p].day # d
    BY <1>1, <1>2, <2>2 DEF IsSameRow
  <2> QED BY <1>7, <2>1, <2>3
<1>8. CASE holder[p] # e /\ plan[e][p] # 0 /\ seen[e][p].day # d
  <2>1. p \in New(e) /\ p \notin Renumbered(e)
    BY <1>4, <1>5, <1>8 DEF New, Renumbered
  <2>2. rows'[p] = [day |-> d, order |-> plan[e][p], by |-> e]
    BY <1>8, <2>1 DEF Commit, Written, Inserted
  <2> QED BY <1>8, <2>2
<1>9. CASE holder[p] # e /\ plan[e][p] # 0 /\ seen[e][p].day = d
  <2>1. rows[p] = seen[e][p] /\ rows[p].day = d /\ IsSameRow(e, p)
    BY <1>1, <1>2, <1>9 DEF IsSameRow
  <2>2. CASE plan[e][p] = seen[e][p].order
    <3>1. rows'[p] = rows[p]
      BY <1>4, <1>9, <2>2 DEF Commit, Written, Renumbered, New
    <3> QED BY <1>9, <2>1, <2>2, <3>1
  <2>3. CASE plan[e][p] # seen[e][p].order
    <3>1. p \in Renumbered(e)
      BY <1>4, <1>5, <1>9, <2>3 DEF Renumbered
    <3>2. rows'[p] = [rows[p] EXCEPT !.order = plan[e][p]]
      BY <1>9, <2>1, <3>1 DEF Commit, Written, Updated
    <3> QED BY <1>1, <1>9, <2>1, <3>2 DEF Row
  <2> QED BY <2>2, <2>3
<1> QED BY <1>6, <1>7, <1>8, <1>9

LEMMA TornStays ==
  ASSUME NEW e \in Requests, Step(e), ~Commit(e)
  PROVE  torn' = torn
BY Steps DEF Refuse, PlansEdit, Edit, DeleteRows, Rolls, RollBack, Reload, ClaimOrDeleteLoads,
   Load, ClaimCommits, SoftDelete

LEMMA OrderStep ==
  ASSUME TypeOK, RequestsOK, PlansOK, RowsOK, DaysInOrder, NEW e \in Requests, Step(e)
  PROVE  DaysInOrder'
<1> SUFFICES ASSUME NEW d \in Days, d \notin torn' PROVE IsNumbered(d)'
  BY DEF DaysInOrder
<1>1. CASE ~Commit(e)
  BY <1>1, RowsStay, TornStays DEF DaysInOrder, IsNumbered, On
<1>2. CASE Commit(e) /\ d # job[e].day
  <2>1. d \notin torn
    BY <1>2 DEF Commit
  <2>2. On(d)' = On(d)
    BY <1>2, OtherDays DEF On
  <2>3. \A p \in On(d) : rows'[p].order = rows[p].order
    BY <1>2, OtherDays DEF On
  <2>4. {rows'[p].order : p \in On(d)'} = {rows[p].order : p \in On(d)}
    BY <2>2, <2>3
  <2> QED BY <2>1, <2>2, <2>4 DEF DaysInOrder, IsNumbered
<1>3. CASE Commit(e) /\ d = job[e].day
  <2>1. ~Overlapped(e)
    BY <1>3 DEF Commit
  <2>2. On(d)' = {p \in Places : plan[e][p] # 0}
    BY <1>3, <2>1, OwnDay DEF On
  <2>3. \A p \in On(d)' : rows'[p].order = plan[e][p]
    BY <1>3, <2>1, <2>2, OwnDay
  <2>4. {rows'[p].order : p \in On(d)'} = {plan[e][p] : p \in On(d)'}
    BY <2>3
  <2>5. IsPlan(plan[e])
    BY <1>3 DEF PlansOK, PlanOK, Writes, Commit
  <2> QED BY <2>2, <2>4, <2>5 DEF IsPlan, IsNumbered
<1> QED BY <1>1, <1>2, <1>3

(***************************************************************************)
(* The inductive invariant                                                 *)
(***************************************************************************)
LEMMA InvInit ==
  Init => IInv
<1> SUFFICES ASSUME Init PROVE IInv
  OBVIOUS
<1>1. TypeOK
  BY TypeInit
<1>2. RequestsOK
  BY DEF Init, RequestsOK, RequestOK, Writes
<1>3. PlansOK
  BY DEF Init, PlansOK, PlanOK, Writes
<1>4. PICK i \in Itineraries \cup Mixtures :
        /\ rows = [p \in Places |-> [day |-> i[p].day, order |-> i[p].order, by |-> Nobody]]
        /\ torn = IF i \in Itineraries THEN {} ELSE Days
  BY DEF Init
<1>5. RowsOK
  BY <1>4 DEF Init, RowsOK, SeenOK, NoRow
<1>6. ASSUME NEW d \in Days, d \notin torn PROVE IsNumbered(d)
  <2>1. i \in Itineraries
    BY <1>4, <1>6
  <2>2. On(d) = {p \in Places : i[p].day = d}
    BY <1>4 DEF On
  <2>3. {rows[p].order : p \in On(d)} = {i[p].order : p \in On(d)}
    BY <1>4, <2>2
  <2>4. {i[p].order : p \in On(d)} = 1..Cardinality(On(d))
    BY <2>1, <2>2, ItinerariesAssumption
  <2> QED BY <2>3, <2>4 DEF IsNumbered
<1>7. IdleOK
  BY DEF Init, IdleOK, NoJob
<1> QED BY <1>1, <1>2, <1>3, <1>5, <1>6, <1>7 DEF IInv, DaysInOrder

LEMMA InvStep ==
  IInv /\ [Next]_vars => IInv'
<1> SUFFICES ASSUME IInv, [Next]_vars PROVE IInv'
  OBVIOUS
<1>1. CASE Next
  BY <1>1, TypeStep, RequestsStep, PlansStep, IdleStep, RowsStep, OrderStep DEF IInv, Next
<1>2. CASE UNCHANGED vars
  <2> USE <1>2 DEF vars, request
  <2>1. TypeOK'
    BY DEF IInv, TypeOK
  <2>2. RequestsOK'
    BY DEF IInv, RequestsOK, RequestOK, Writes
  <2>3. PlansOK'
    <3>1. plan' = plan /\ \A e : IsPlan(plan[e])' <=> IsPlan(plan[e])
      BY DEF IsPlan
    <3> QED BY <3>1 DEF IInv, PlansOK, PlanOK, Writes, Adds, MayOmit, FillsMorning
  <2>4. RowsOK'
    BY DEF IInv, RowsOK, SeenOK, IsSameRow
  <2>5. DaysInOrder'
    BY DEF IInv, DaysInOrder, IsNumbered, On
  <2>6. IdleOK'
    BY DEF IInv, IdleOK, Writes
  <2> QED BY <2>1, <2>2, <2>3, <2>4, <2>5, <2>6 DEF IInv
<1> QED BY <1>1, <1>2

LEMMA Invariant ==
  Spec => []IInv
BY InvInit, InvStep, PTL DEF Spec

\* A day's stops stay numbered from 1, without gaps or repetitions, but for days
\* whose last edit overlapped another one.
THEOREM DaysStayInOrder == Spec => []DaysInOrder
<1>1. IInv => DaysInOrder
  BY DEF IInv
<1> QED BY <1>1, Invariant, PTL

\* The answers, the audit events, the trip and the row locks agree.
THEOREM AnswersStayTrue == Spec => []AnswersAreTrue
<1>1. IInv => AnswersAreTrue
  <2> SUFFICES ASSUME IInv, NEW e \in Requests
      PROVE  /\ answer[e] = "ok" /\ job[e].kind \in EditKinds => e \in audit
             /\ e \in audit /\ answer[e] # "none" => answer[e] = "ok" \/ trip.deleted
             /\ answer[e] = "refused" => e \notin audit
             /\ at[e] = "done" => answer[e] # "none" /\ \A p \in Places : holder[p] # e
    BY DEF AnswersAreTrue
  <2>1. TypeOK /\ RequestOK(e)
    BY DEF IInv, RequestsOK
  <2>2. at[e] = "done" => \A p \in Places : holder[p] # e
    BY <2>1, ConstantsAssumption DEF TypeOK
  <2> QED BY <2>1, <2>2 DEF RequestOK
<1> QED BY <1>1, Invariant, PTL

\* Nothing comes back: a stop comes onto the trip only with the commit of its own
\* add_stop.
THEOREM RemovedStopsStayRemoved == Spec => RemovedStaysRemoved
<1> DEFINE A == \A p \in Places :
             ~IsOnTrip(p) /\ IsOnTrip(p)' =>
               \E e \in Requests : /\ at[e] = "flushing" /\ e \in audit'
                                   /\ job[e].kind = "add_stop" /\ job[e].place = p
<1>1. IInv /\ [Next]_vars => [A]_vars
  <2> SUFFICES ASSUME IInv, Next, NEW p \in Places, ~IsOnTrip(p), IsOnTrip(p)'
      PROVE  \E e \in Requests : /\ at[e] = "flushing" /\ e \in audit'
                                 /\ job[e].kind = "add_stop" /\ job[e].place = p
    OBVIOUS
  <2>1. PICK e \in Requests : Step(e)
    BY DEF Next
  <2>2. Commit(e)
    BY <2>1, RowsStay DEF IsOnTrip
  <2>3. rows[p] \in Row /\ rows[p].day = 0
    BY DEF IInv, TypeOK, IsOnTrip
  <2>4. p \in New(e)
    <3>1. rows'[p] # rows[p] /\ rows'[p] # NoRow
      BY <2>3 DEF IsOnTrip, NoRow
    <3>2. ~IsSameRow(e, p)
      BY <2>3 DEF IsSameRow
    <3> QED BY <2>2, <3>1, <3>2, WrittenRow DEF IInv
  <2>5. Adds(e, p)
    BY <2>2, <2>4 DEF IInv, PlansOK, PlanOK, Writes, Commit, New, Planned, Loaded
  <2> QED BY <2>2, <2>5 DEF Commit, Adds
<1> QED BY <1>1, Invariant, PTL DEF Spec, RemovedStaysRemoved

\* Nothing leaves but by the commit of an edit of its day that may leave it out.
THEOREM StopsLeaveForReasons == Spec => StopsLeaveForAReason
<1> DEFINE A == \A p \in Places :
             IsOnTrip(p) /\ ~IsOnTrip(p)' =>
               \E e \in Requests :
                 /\ at[e] = "flushing" /\ e \in audit' /\ job[e].day = rows[p].day
                 /\ \/ job[e].kind = "remove_stop" /\ job[e].place = p
                    \/ /\ job[e].kind # "reorder"
                       /\ p \in MorningOnly \ Planned(e)
                       /\ Cardinality(Planned(e) \cap MorningOnly) = MorningSlots
<1>1. IInv /\ [Next]_vars => [A]_vars
  <2> SUFFICES ASSUME IInv, Next, NEW p \in Places, IsOnTrip(p), ~IsOnTrip(p)'
      PROVE  \E e \in Requests :
                 /\ at[e] = "flushing" /\ e \in audit' /\ job[e].day = rows[p].day
                 /\ \/ job[e].kind = "remove_stop" /\ job[e].place = p
                    \/ /\ job[e].kind # "reorder"
                       /\ p \in MorningOnly \ Planned(e)
                       /\ Cardinality(Planned(e) \cap MorningOnly) = MorningSlots
    OBVIOUS
  <2>1. PICK e \in Requests : Step(e)
    BY DEF Next
  <2>2. Commit(e)
    BY <2>1, RowsStay DEF IsOnTrip
  <2>3. rows[p] \in Row /\ rows[p].day # 0 /\ rows'[p].day = 0
    BY DEF IInv, TypeOK, IsOnTrip
  <2>4. holder[p] = e
    <3>1. rows'[p] # rows[p]
      BY <2>3
    <3>2. rows'[p] # [rows[p] EXCEPT !.order = plan[e][p]]
      BY <2>3 DEF Row
    <3>3. p \notin New(e) \/ IsOnTrip(p)
      OBVIOUS
    <3> QED BY <2>2, <3>1, <3>2, WrittenRow DEF IInv
  <2>5. rows[p].day = job[e].day /\ seen[e][p].day = job[e].day /\ plan[e][p] = 0
    BY <2>4, ConstantsAssumption DEF IInv, TypeOK
  <2>6. MayOmit(e, p)
    BY <2>2, <2>5 DEF IInv, PlansOK, PlanOK, Writes, Commit
  <2> QED BY <2>2, <2>5, <2>6 DEF Commit, MayOmit, Planned, FillsMorning
<1> QED BY <1>1, Invariant, PTL DEF Spec, StopsLeaveForAReason

(***************************************************************************)
(* Requests that come too late                                             *)
(***************************************************************************)
\* The trip was deleted before the request loaded it.
CameDeleted(e) ==
  trip.deleted /\ at[e] \in {"start", "done"} /\ answer[e] # "ok" /\ e \notin audit

LEMMA CameDeletedStays ==
  ASSUME IInv, [Next]_vars, NEW e \in Requests, CameDeleted(e)
  PROVE  CameDeleted(e)'
<1>1. CASE UNCHANGED vars
  BY <1>1 DEF vars, request, CameDeleted
<1>2. ASSUME NEW r \in Requests, Step(r) PROVE CameDeleted(e)'
  <2>1. trip'.deleted
    BY <1>2, DeletedStays DEF IInv, CameDeleted
  <2>2. CASE r # e
    BY <1>2, <2>1, <2>2, OthersStay DEF IInv, CameDeleted
  <2>3. CASE r = e
    <3>0. at[e] \in {"start", "done"} /\ trip.deleted
      BY DEF CameDeleted
    <3>2. ~DeleteRows(e) /\ ~Commit(e) /\ ~Rolls(e) /\ ~Reload(e) /\ ~ClaimCommits(e) /\ ~SoftDelete(e)
      BY <3>0 DEF DeleteRows, Commit, Rolls, Writes, Reload, ClaimCommits, SoftDelete
    <3>3. ~ClaimOrDeleteLoads(e)
      BY <3>0 DEF ClaimOrDeleteLoads, Load
    <3>4. ~\E kind \in EditKinds, d \in Days, p \in Places \cup {Nobody}, f \in [Places -> Orders] :
             PlansEdit(e, kind, d, p, f)
      BY <3>0 DEF PlansEdit, LoadsOwned
    <3>1. Refuse(e)
      BY <1>2, <2>3, <3>2, <3>3, <3>4, Steps
    <3>5. at'[e] = "done" /\ answer'[e] = "refused" /\ audit' = audit
      BY <3>1 DEF Refuse, IInv, TypeOK
    <3> QED BY <2>1, <3>5 DEF CameDeleted
  <2> QED BY <2>2, <2>3
<1> QED BY <1>1, <1>2 DEF Next

\* The trip had an owner before the request could claim it.
CameOwned(e) == trip.owner # Nobody /\ at[e] # "claiming"

LEMMA CameOwnedStays ==
  ASSUME IInv, [Next]_vars, NEW e \in Requests, CameOwned(e)
  PROVE  CameOwned(e)'
<1>1. CASE UNCHANGED vars
  BY <1>1 DEF vars, request, CameOwned
<1>2. ASSUME NEW r \in Requests, Step(r) PROVE CameOwned(e)'
  <2>1. trip'.owner # Nobody
    <3>1. CASE ClaimCommits(r)
      <4>1. job[r].user \in Users
        BY <3>1 DEF ClaimCommits, IInv, RequestsOK, RequestOK
      <4> QED BY <3>1, <4>1, ConstantsAssumption DEF ClaimCommits, IInv, TypeOK, TripRow
    <3>2. CASE SoftDelete(r)
      BY <3>2 DEF SoftDelete, CameOwned, IInv, TypeOK, TripRow
    <3>3. UNCHANGED trip \/ ClaimCommits(r) \/ SoftDelete(r)
      BY <1>2, Steps DEF Refuse, PlansEdit, Edit, DeleteRows, Commit, Rolls, RollBack, Reload,
         ClaimOrDeleteLoads, Load
    <3> QED BY <3>1, <3>2, <3>3 DEF CameOwned
  <2>2. at'[e] # "claiming"
    <3>1. CASE r # e
      BY <1>2, <3>1, OthersStay DEF IInv, CameOwned
    <3>2. CASE r = e
      <4>1. at[e] # "claiming" /\ at \in [Requests -> {"start", "writing", "flushing", "claiming",
                                                      "deleting", "reloading", "done"}]
        BY DEF CameOwned, IInv, TypeOK
      <4>2. CASE ClaimOrDeleteLoads(e)
        BY <4>1, <4>2 DEF ClaimOrDeleteLoads, Load, CameOwned
      <4>3. Refuse(e) \/ DeleteRows(e) \/ Commit(e) \/ Rolls(e) \/ Reload(e) \/ ClaimCommits(e)
              \/ SoftDelete(e) => at'[e] # "claiming"
        BY <4>1 DEF Refuse, DeleteRows, Commit, Rolls, RollBack, Reload, ClaimCommits, SoftDelete
      <4>4. ASSUME NEW kind \in EditKinds, NEW d \in Days, NEW p \in Places \cup {Nobody},
                   NEW f \in [Places -> Orders], PlansEdit(e, kind, d, p, f)
            PROVE  at'[e] # "claiming"
        BY <4>1, <4>4 DEF PlansEdit, Edit
      <4> QED BY <1>2, <3>2, <4>2, <4>3, <4>4, Steps
    <3> QED BY <3>1, <3>2
  <2> QED BY <2>1, <2>2 DEF CameOwned
<1> QED BY <1>1, <1>2 DEF Next

\* A request that has not loaded the trip when it is deleted, or claimed, never
\* succeeds, or claims it.
THEOREM LateRequestsAlwaysFail == Spec => LateRequestsFail
<1> SUFFICES ASSUME NEW e \in Requests
    PROVE  Spec => /\ [](at[e] = "start" /\ trip.deleted => [](answer[e] # "ok" /\ e \notin audit))
                   /\ [](at[e] = "start" /\ trip.owner # Nobody => [](at[e] # "claiming"))
  BY DEF LateRequestsFail
<1>1. IInv /\ at[e] = "start" /\ trip.deleted => CameDeleted(e)
  BY DEF IInv, RequestsOK, RequestOK, CameDeleted
<1>2. IInv /\ [Next]_vars /\ CameDeleted(e) => CameDeleted(e)'
  BY CameDeletedStays
<1>3. CameDeleted(e) => answer[e] # "ok" /\ e \notin audit
  BY DEF CameDeleted
<1>4. at[e] = "start" /\ trip.owner # Nobody => CameOwned(e)
  BY DEF CameOwned
<1>5. IInv /\ [Next]_vars /\ CameOwned(e) => CameOwned(e)'
  BY CameOwnedStays
<1>6. CameOwned(e) => at[e] # "claiming"
  BY DEF CameOwned
<1> QED BY <1>1, <1>2, <1>3, <1>4, <1>5, <1>6, Invariant, PTL DEF Spec


(***************************************************************************)
(* Nobody waits for ever                                                   *)
(***************************************************************************)
\* Whose locks a request waits for, and when it need not wait (any longer): these
\* are the guards of Persist, ClaimCommits and SoftDelete.
WaitsFor(e) ==
  IF at[e] = "writing" THEN {holder[p] : p \in Doomed(e)} \ {Nobody, e}
  ELSE IF at[e] = "flushing" THEN AwaitedBy(e) ELSE {}
IsDeadlocked(e) ==
  \E C \in SUBSET Requests :
    e \in C /\ \A c \in C : at[c] = "flushing" /\ AwaitedBy(c) \cap C # {}
GoesOn(e) ==
  \/ at[e] \in {"reloading", "claiming", "deleting"}
  \/ at[e] = "writing" /\ Unlocked(e, Doomed(e))
  \/ /\ at[e] = "flushing"
     /\ \E touched \in SUBSET (Loaded(e) \cap Planned(e)) :
          /\ Renumbered(e) \subseteq touched
          /\ Unlocked(e, {p \in touched : IsSameRow(e, p)} \cup New(e))
     /\ \A p \in New(e) : ~IsOnTrip(p)
  \/ at[e] = "flushing" /\ \E p \in New(e) : IsOnTrip(p) /\ holder[p] = Nobody
  \/ IsDeadlocked(e)

\* Requests that wait for nobody else than one another.
IsClosed(S) == \A e \in S : at[e] \notin {"start", "done"} /\ WaitsFor(e) \subseteq S

\* A request that waits, waits for a transaction in its flush.
LEMMA WaitsForFlush ==
  ASSUME TypeOK, NEW e \in Requests, NEW h \in WaitsFor(e)
  PROVE  h \in Requests /\ at[h] = "flushing"
<1>1. PICK p \in Places : h = holder[p] /\ h # Nobody
  BY DEF WaitsFor, AwaitedBy, Doomed, Loaded, Renumbered, New, Planned
<1> QED BY <1>1 DEF TypeOK

LEMMA FlushWaits ==
  ASSUME TypeOK, NEW e \in Requests, at[e] = "flushing", ~GoesOn(e)
  PROVE  AwaitedBy(e) # {}
<1> SUFFICES ASSUME AwaitedBy(e) = {} PROVE FALSE
  OBVIOUS
<1>1. Unlocked(e, {p \in Renumbered(e) : IsSameRow(e, p)} \cup New(e))
  BY DEF AwaitedBy, Unlocked
<1>2. Renumbered(e) \in SUBSET (Loaded(e) \cap Planned(e))
  BY DEF Renumbered
<1>3. PICK p \in New(e) : IsOnTrip(p)
  BY <1>1, <1>2 DEF GoesOn
<1>4. holder[p] = e
  BY <1>1, <1>3 DEF GoesOn, Unlocked
<1>5. p \in Places /\ plan[e][p] # 0
  BY <1>3 DEF New, Planned
<1> QED BY <1>4, <1>5, ConstantsAssumption DEF TypeOK

\* However many requests wait for each other's rows, one of them can go on: its
\* locks are free, or uq_trip_place or the deadlock detector ends it.
THEOREM SomeoneGoesOn ==
  Spec => [](\A S \in SUBSET Requests : S # {} /\ IsClosed(S) => \E e \in S : GoesOn(e))
<1>1. ASSUME TypeOK, NEW S \in SUBSET Requests, S # {}, IsClosed(S) PROVE \E e \in S : GoesOn(e)
  <2> SUFFICES ASSUME \A e \in S : ~GoesOn(e) PROVE FALSE
    OBVIOUS
  <2> DEFINE C == {c \in S : at[c] = "flushing"}
  <2>1. \A e \in S : Writes(e)
    BY <1>1 DEF IsClosed, GoesOn, TypeOK, Writes
  <2>2. ASSUME NEW e \in S, at[e] = "writing" PROVE WaitsFor(e) # {}
    <3>1. PICK p \in Doomed(e) : holder[p] \notin {Nobody, e}
      BY <2>2 DEF GoesOn, Unlocked
    <3> QED BY <2>2, <3>1 DEF WaitsFor
  <2>3. C # {}
    <3>1. PICK e \in S : TRUE
      BY <1>1
    <3>2. CASE at[e] = "writing"
      <4>1. PICK h \in WaitsFor(e) : TRUE
        BY <2>2, <3>2
      <4>2. h \in S /\ at[h] = "flushing"
        BY <1>1, <4>1, WaitsForFlush DEF IsClosed
      <4> QED BY <4>2
    <3> QED BY <2>1, <3>2 DEF Writes
  <2>4. ASSUME NEW c \in C PROVE AwaitedBy(c) \cap C # {}
    <3>1. PICK h \in AwaitedBy(c) : TRUE
      BY <1>1, FlushWaits
    <3>2. h \in WaitsFor(c)
      BY <3>1 DEF WaitsFor
    <3>3. h \in S /\ at[h] = "flushing"
      BY <1>1, <3>2, WaitsForFlush DEF IsClosed
    <3> QED BY <3>1, <3>3
  <2>5. \A c \in C : IsDeadlocked(c)
    BY <2>4 DEF IsDeadlocked
  <2> QED BY <2>3, <2>5 DEF GoesOn
<1>2. TypeOK => \A S \in SUBSET Requests : S # {} /\ IsClosed(S) => \E e \in S : GoesOn(e)
  BY <1>1
<1> QED BY <1>2, TypeCorrect, PTL


(***************************************************************************)
(* TripEdits implements TripHistory                                        *)
(***************************************************************************)
\* TripHistory counts and numbers the rows of a day as TripEdits does.
LEMMA SameRows ==
  /\ History!NoRow = NoRow
  /\ \A d : History!On(d) = On(d) /\ (History!IsNumbered(d) <=> IsNumbered(d))
<1>1. History!NoRow = NoRow
  BY DEF History!NoRow, NoRow
<1>2. ASSUME NEW d PROVE History!On(d) = On(d)
  BY DEF History!On, On
<1>3. ASSUME NEW d PROVE History!IsNumbered(d) <=> IsNumbered(d)
  BY <1>2 DEF History!IsNumbered, IsNumbered, History!Cardinality, Cardinality
<1> QED BY <1>1, <1>2, <1>3

LEMMA InitIsHistory == Init => History!Init
<1> SUFFICES ASSUME Init PROVE History!Init
  OBVIOUS
<1>1. IInv
  BY InvInit
<1>2. trip \in [owner : Users \cup {Nobody}, deleted : {FALSE}]
  BY DEF Init, TripRow
<1>3. rows \in [Places -> History!Row]
  BY <1>1, ConstantsAssumption, FS_CardinalityType DEF IInv, TypeOK, Row, Orders, History!Row
<1>4. base = [e \in Requests |-> History!NoBase]
  BY SameRows DEF Init, base, NoJob, History!NoBase
<1>5. torn \in SUBSET Days
  BY DEF Init
<1>6. \A d \in Days \ torn : History!IsNumbered(d)
  BY <1>1, SameRows DEF IInv, DaysInOrder
<1> QED BY <1>2, <1>3, <1>4, <1>5, <1>6 DEF History!Init

\* What a commit does to a row, whatever was there.
LEMMA CommitChanges ==
  ASSUME IInv, NEW e \in Requests, Commit(e), NEW p \in Places
  PROVE  LET d == job[e].day
         IN \/ rows'[p] = rows[p]
            \/ History!Removed(p, d)
            \/ History!Added(p, d, e) /\ job[e].place = p
            \/ History!Renumbered(p, d)
<1> DEFINE d == job[e].day
<1>1. d \in Days /\ d # 0 /\ rows[p] \in Row /\ Writes(e) /\ PlanOK(e)
  BY DaysAssumption DEF IInv, RequestsOK, RequestOK, PlansOK, Writes, Commit, TypeOK
<1>2. CASE rows'[p] = NoRow /\ holder[p] = e
  <2>1. rows[p].day = d
    BY <1>2, ConstantsAssumption DEF IInv, TypeOK
  <2> QED BY <1>2, <2>1 DEF NoRow, History!Removed
<1>3. CASE rows'[p] = [rows[p] EXCEPT !.order = plan[e][p]] /\ p \in Renumbered(e) /\ IsSameRow(e, p)
  <2>1. seen[e][p].day = d
    BY <1>3 DEF Renumbered, Loaded
  <2>2. rows[p].day = d
    BY <1>1, <1>3, <2>1 DEF IInv, RowsOK, SeenOK
  <2>3. rows'[p].order = plan[e][p]
    BY <1>1, <1>3 DEF Row
  <2> QED BY <1>3, <2>2, <2>3 DEF History!Renumbered
<1>4. CASE /\ rows'[p] = [day |-> d, order |-> plan[e][p], by |-> e]
           /\ p \in New(e) /\ ~IsOnTrip(p)
  <2>1. Adds(e, p)
    BY <1>1, <1>4 DEF PlanOK, New, Planned, Loaded
  <2> QED BY <1>4, <2>1 DEF Adds, IsOnTrip, History!Added
<1> QED BY <1>2, <1>3, <1>4, WrittenRow DEF IInv

LEMMA CommitIsEdit ==
  ASSUME IInv, NEW e \in Requests, Commit(e), NEW d \in Days, d = job[e].day
  PROVE  History!Edit(e, d)
<1>1. Step(e) /\ TypeOK
  BY DEF Step, Persist, IInv
<1>2. rows' \in [Places -> History!Row]
  <2>1. rows' \in [Places -> Row]
    BY <1>1, WrittenType DEF Commit
  <2> QED BY <2>1, ConstantsAssumption, FS_CardinalityType DEF Row, Orders, History!Row
<1>3. \A p \in Places : \/ rows'[p] = rows[p]
                        \/ History!Removed(p, d) \/ History!Added(p, d, e) \/ History!Renumbered(p, d)
  BY CommitChanges
<1>4. ASSUME NEW p \in Places, NEW q \in Places, History!Added(p, d, e), History!Added(q, d, e)
      PROVE  p = q
  <2>1. d # 0
    BY <1>1, DaysAssumption
  <2>2. job[e].place = p /\ job[e].place = q
    BY <1>4, <2>1, CommitChanges DEF History!Added, History!Removed, History!Renumbered
  <2> QED BY <2>2
<1>5. base[e] = [day |-> d, rows |-> seen[e]]
  BY DEF base
<1>6. History!AsBegun(e, d) <=> ~Overlapped(e)
  BY <1>5 DEF History!AsBegun, Overlapped
<1>7. torn' = IF History!AsBegun(e, d) THEN torn \ {d} ELSE torn \cup {d}
  BY <1>6 DEF Commit
<1>8. ASSUME History!AsBegun(e, d) PROVE History!IsWhole(d)'
  <2>1. DaysInOrder' /\ d \notin torn'
    BY <1>1, <1>7, <1>8, OrderStep DEF IInv
  <2>2. IsNumbered(d)'
    BY <2>1 DEF DaysInOrder
  <2>3. On(d)' = {p \in Places : plan[e][p] # 0}
    BY <1>6, <1>8, OwnDay DEF On, IInv
  <2>4. On(d)' # {}
    BY <2>3 DEF IInv, PlansOK, PlanOK, IsPlan, Writes, Commit
  <2>5. History!On(d)' = On(d)'
    BY DEF History!On, On
  <2>6. History!IsNumbered(d)'
    BY <2>2, <2>5 DEF History!IsNumbered, IsNumbered, History!Cardinality, Cardinality
  <2> QED BY <2>4, <2>5, <2>6 DEF History!IsWhole
<1>9. History!End(e)
  <2>1. base' = [base EXCEPT ![e] = History!NoBase]
    <3>1. job'[e].day = 0 /\ seen'[e] = [p \in Places |-> NoRow]
      <4>1. Forget(e)
        BY DEF Commit
      <4> QED BY <1>1, <4>1, ForgetType DEF Forget, NoJob, TypeOK
    <3>2. \A r \in Requests \ {e} : job'[r] = job[r] /\ seen'[r] = seen[r]
      BY <1>1, OthersStay
    <3> QED BY <3>1, <3>2, SameRows DEF base, History!NoBase
  <2> QED BY <2>1 DEF History!End
<1> QED BY <1>2, <1>3, <1>4, <1>5, <1>7, <1>8, <1>9 DEF History!Edit, Commit

\* The steps between the load and the commit are invisible, and so is whatever
\* comes after it.
LEMMA StepIsHistory ==
  ASSUME IInv, NEW e \in Requests, Step(e)
  PROVE  [History!Next]_(History!vars)
<1> USE DEF History!vars
<1>1. TypeOK /\ e \in Requests
  BY DEF IInv
<1>2. ASSUME UNCHANGED <<job, seen>> PROVE UNCHANGED base
  BY <1>2 DEF base
<1>3. ASSUME Forget(e) PROVE History!End(e)
  <2>1. job'[e].day = 0 /\ seen'[e] = [p \in Places |-> NoRow]
    BY <1>1, <1>3, ForgetType DEF Forget, NoJob, TypeOK
  <2>2. \A r \in Requests \ {e} : job'[r] = job[r] /\ seen'[r] = seen[r]
    BY <1>1, OthersStay
  <2> QED BY <2>1, <2>2, SameRows DEF base, History!NoBase, History!End
<1>4. ASSUME ~Writes(e) PROVE base[e] = History!NoBase
  BY <1>4, SameRows DEF IInv, IdleOK, base, History!NoBase
<1>5. ASSUME ~Writes(e), Forget(e) PROVE UNCHANGED base
  BY <1>3, <1>4, <1>5 DEF History!End, base
<1>6. CASE Refuse(e) \/ DeleteRows(e) \/ Reload(e)
  BY <1>2, <1>6 DEF Refuse, DeleteRows, Reload
<1>7. ASSUME NEW kind \in EditKinds, NEW d \in Days, NEW p \in Places \cup {Nobody},
             NEW f \in [Places -> Orders], PlansEdit(e, kind, d, p, f)
      PROVE  History!Begin(e, d)
  <2>1. base[e] = History!NoBase /\ trip.owner # Nobody /\ ~trip.deleted
    BY <1>4, <1>7 DEF PlansEdit, LoadsOwned, Writes
  <2>2. /\ job' = [job EXCEPT ![e] = [kind |-> kind, user |-> trip.owner, day |-> d, place |-> p]]
        /\ seen' = [seen EXCEPT ![e] = rows]
        /\ UNCHANGED <<trip, rows, torn>>
    BY <1>7 DEF PlansEdit, Edit
  <2>3. base' = [base EXCEPT ![e] = [day |-> d, rows |-> rows]]
    BY <1>1, <2>2 DEF base, TypeOK
  <2> QED BY <2>1, <2>2, <2>3 DEF History!Begin
<1>8. CASE Commit(e)
  <2>1. job[e].day \in Days
    BY <1>8 DEF IInv, RequestsOK, RequestOK, Writes, Commit
  <2> QED BY <1>8, <2>1, CommitIsEdit DEF History!Next
<1>9. CASE Rolls(e)
  <2>1. History!GiveUp(e)
    BY <1>3, <1>9 DEF Rolls, RollBack, History!GiveUp
  <2> QED BY <2>1 DEF History!Next
<1>10. CASE ClaimCommits(e)
  <2>1. job[e].user \in Users /\ ~Writes(e)
    BY <1>10 DEF IInv, RequestsOK, RequestOK, Writes, ClaimCommits
  <2>2. History!Claim(job[e].user)
    BY <1>5, <1>10, <2>1 DEF ClaimCommits, History!Claim
  <2> QED BY <2>1, <2>2 DEF History!Next
<1>11. CASE SoftDelete(e)
  <2>1. History!Delete
    BY <1>5, <1>11 DEF SoftDelete, Writes, History!Delete
  <2> QED BY <2>1 DEF History!Next
<1>12. CASE ClaimOrDeleteLoads(e)
  <2>1. PICK u \in Users, kind \in {"claim", "delete"}, next \in {"claiming", "deleting"} :
          Load(e, kind, u, next)
    BY <1>12 DEF ClaimOrDeleteLoads
  <2>2. ~Writes(e)
    BY <2>1 DEF Load, Writes
  <2>3. job'[e].day = 0 /\ UNCHANGED <<trip, rows, torn, seen>>
    BY <1>1, <2>1 DEF Load, NoJob, TypeOK
  <2>4. \A r \in Requests \ {e} : job'[r] = job[r]
    BY <1>1, OthersStay
  <2>5. job[e].day = 0
    BY <2>2 DEF IInv, IdleOK
  <2>6. UNCHANGED base
    BY <2>3, <2>4, <2>5 DEF base
  <2> QED BY <2>3, <2>6
<1> QED BY <1>6, <1>7, <1>8, <1>9, <1>10, <1>11, <1>12, Steps DEF History!Next

\* Whatever requests load, plan, write, fail and wait beside one another, the trip
\* changes as TripHistory says: an edit that none overlaps replaces one day by
\* another whole day in one step, and no request does more than that.
THEOREM EditsAreAtomic == Spec => ImplementsHistory
<1>1. IInv /\ [Next]_vars => [History!Next]_(History!vars)
  <2> SUFFICES ASSUME IInv, [Next]_vars PROVE [History!Next]_(History!vars)
    OBVIOUS
  <2>1. CASE Next
    BY <2>1, StepIsHistory DEF Next
  <2>2. CASE UNCHANGED vars
    BY <2>2 DEF vars, request, base, History!vars
  <2> QED BY <2>1, <2>2
<1> QED BY <1>1, InitIsHistory, Invariant, PTL DEF Spec, ImplementsHistory, History!Spec
=============================================================================
