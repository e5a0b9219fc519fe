--------------------------- MODULE StreamContract ---------------------------
(***************************************************************************)
(* What POST /planner/generate promises each client (openspec,             *)
(* planner-sse-generate): its stream is answered by one terminal event or  *)
(* cut, once; a trip is saved at most once and before the answer; a client *)
(* that is there gets itinerary_done with its trip, and no other answer    *)
(* goes with one.                                                          *)
(***************************************************************************)
CONSTANT Requests

VARIABLES
  stream,  \* "open", "cut", or the terminal event that answered it
  saved,   \* a trip was saved for this request
  gone     \* the client left
vars == <<stream, saved, gone>>

Terminals == {"itinerary_done", "clarification_needed", "error"}

Init ==
  /\ stream = [r \in Requests |-> "open"]
  /\ saved = [r \in Requests |-> FALSE]
  /\ gone = [r \in Requests |-> FALSE]

Leave(r) ==
  /\ gone' = [gone EXCEPT ![r] = TRUE]
  /\ UNCHANGED <<stream, saved>>

Save(r) ==
  /\ stream[r] = "open" /\ ~saved[r]
  /\ saved' = [saved EXCEPT ![r] = TRUE]
  /\ UNCHANGED <<stream, gone>>

Answer(r) ==
  /\ stream[r] = "open"
  /\ \E t \in Terminals :
       /\ saved[r] => t = "itinerary_done"
       /\ t = "itinerary_done" => saved[r] \/ gone[r]
       /\ stream' = [stream EXCEPT ![r] = t]
  /\ UNCHANGED <<saved, gone>>

Cut(r) ==
  /\ stream[r] = "open"
  /\ stream' = [stream EXCEPT ![r] = "cut"]
  /\ UNCHANGED <<saved, gone>>

Next == \E r \in Requests : Leave(r) \/ Save(r) \/ Answer(r) \/ Cut(r)

Closes == \A r \in Requests : <>(stream[r] # "open")

Spec == Init /\ [][Next]_vars /\ Closes
=============================================================================
