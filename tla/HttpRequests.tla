------------------------------ MODULE HttpRequests ------------------------------
(* The HTTP requests that the server may serve at the same time: what the    *)
(* modules of the middleware, of the geocoder and of the handlers share.     *)
EXTENDS Naturals, FiniteSets

CONSTANTS
  Requests, \* numbered in the order they arrive
  Nobody    \* not a request

ASSUME RequestsAssumption ==
  Requests \subseteq Nat /\ IsFiniteSet(Requests) /\ Nobody \notin Requests
=============================================================================
