------------------------------- MODULE Geocoder -------------------------------
(***************************************************************************)
(* geo/geocoder.py: the gateway to Nominatim of one process.  A call looks *)
(* its key up in the cache, passes the throttle, sends its request, and    *)
(* retries it when it times out; an answer, an empty one and a failure are *)
(* all cached for the life of the process, a rejection is not.  Two calls  *)
(* of the same key may be under way at once, and their caller may cancel   *)
(* them.                                                                   *)
(*                                                                         *)
(* A key stands for a query with its options.  Nominatim's answer to a key *)
(* does not change and names a site once; the cache holds it ("found") or  *)
(* nothing ("none").                                                       *)
(***************************************************************************)
EXTENDS HttpRequests, Sequences

CONSTANTS
  Keys,
  Sites,     \* the places Nominatim knows
  Answer,    \* what it answers to each key, best first
  Attempts   \* stop_after_attempt

ASSUME GeocoderAssumption ==
  /\ Answer \in [Keys -> Seq(Sites)]
  /\ Attempts \in Nat \ {0}

VARIABLES
  cache,     \* _cache and _list_cache: "absent", "found" or "none"
  holder,    \* _rate_lock
  spaced,    \* a second has passed since _last_request_at
  call,      \* the call each request has under way
  missed,    \* history: keys for which Nominatim had nothing, or failed
  fresh      \* history: how many calls sent their first request in this second

geocoderVars == <<cache, holder, spaced, call, missed, fresh>>

NoCall == [at |-> "none", key |-> <<>>, got |-> "none", attempt |-> 0, wait |-> 0]

GeocoderInit ==
  /\ cache = [k \in Keys |-> "absent"]
  /\ holder = Nobody
  /\ spaced = TRUE
  /\ call = [r \in Requests |-> NoCall]
  /\ missed = {}
  /\ fresh = 0

Hits(k, got) == IF got = "found" THEN Answer[k] ELSE <<>>

\* A call for key k: answered from the cache, or waiting for the throttle.
Asked(k) ==
  IF cache[k] # "absent" THEN [NoCall EXCEPT !.at = "answered", !.key = k, !.got = cache[k]]
  ELSE [NoCall EXCEPT !.at = "throttled", !.key = k]

\* _throttle: under the lock a call reads how long ago the last one passed, sleeps
\* for what a second lacks, and passes without reading it again.
ToSleep == IF spaced THEN 0 ELSE 1

MUnlocksBeforeSleep(r) ==
  /\ call[r].at = "throttled"
  /\ holder = Nobody
  /\ call' = [call EXCEPT ![r].at = "sleeping", ![r].wait = ToSleep]
  /\ UNCHANGED <<cache, holder, spaced, missed, fresh>>
EntersThrottle(r) ==
  /\ call[r].at = "throttled"
  /\ holder = Nobody
  /\ holder' = r
  /\ call' = [call EXCEPT ![r].at = "sleeping", ![r].wait = ToSleep]
  /\ UNCHANGED <<cache, spaced, missed, fresh>>

PassesThrottle(r) ==
  /\ call[r].at = "sleeping" /\ call[r].wait = 0
  /\ holder' = Nobody
  /\ spaced' = FALSE
  /\ fresh' = fresh + 1
  /\ call' = [call EXCEPT ![r].at = "sent", ![r].attempt = 1]
  /\ UNCHANGED <<cache, missed>>

\* What geocode and geocode_search do with a result, or with its absence.
Settle(r, got) ==
  /\ cache' = [cache EXCEPT ![call[r].key] = got]
  /\ missed' = IF got = "none" THEN missed \cup {call[r].key} ELSE missed
  /\ call' = [call EXCEPT ![r].at = "answered", ![r].got = got]

NominatimAnswers(r) ==
  /\ call[r].at = "sent"
  /\ Settle(r, IF Answer[call[r].key] = <<>> THEN "none" ELSE "found")
  /\ UNCHANGED <<holder, spaced, fresh>>

\* Another 4xx, a 5xx or a body that is no list: nothing, without a retry.
NominatimFails(r) ==
  /\ call[r].at = "sent"
  /\ Settle(r, "none")
  /\ UNCHANGED <<holder, spaced, fresh>>

\* 403 and 429 raise, and are not cached.
MRejectionCached(r) ==
  /\ cache' = [cache EXCEPT ![call[r].key] = "none"]
  /\ call' = [call EXCEPT ![r].at = "answered"]
  /\ UNCHANGED missed
Rejection(r) == call' = [call EXCEPT ![r].at = "rejected"] /\ UNCHANGED <<cache, missed>>
NominatimRejects(r) ==
  /\ call[r].at = "sent"
  /\ Rejection(r)
  /\ UNCHANGED <<holder, spaced, fresh>>

\* A body that cannot be parsed raises what no handler expects.
NominatimGarbles(r) ==
  /\ call[r].at = "sent"
  /\ call' = [call EXCEPT ![r].at = "broken"]
  /\ UNCHANGED <<cache, missed, holder, spaced, fresh>>

\* wait_exponential(min=1, max=8): 1 second, then 2.
Backoff(attempt) == IF attempt = 1 THEN 1 ELSE 2

AttemptTimesOut(r) ==
  /\ call[r].at = "sent"
  /\ IF call[r].attempt < Attempts
     THEN /\ call' = [call EXCEPT ![r].at = "waiting", ![r].wait = Backoff(call[r].attempt)]
          /\ UNCHANGED <<cache, missed>>
     ELSE Settle(r, "none")
  /\ UNCHANGED <<holder, spaced, fresh>>

\* The retry passes no throttle and leaves _last_request_at alone.
Retries(r) ==
  /\ call[r].at = "waiting" /\ call[r].wait = 0
  /\ call' = [call EXCEPT ![r].at = "sent", ![r].attempt = @ + 1]
  /\ UNCHANGED <<cache, holder, spaced, missed, fresh>>

NominatimReplies(r) ==
  \/ NominatimAnswers(r) \/ NominatimFails(r) \/ NominatimRejects(r)
  \/ NominatimGarbles(r) \/ AttemptTimesOut(r)

GeocoderStep(r) ==
  EntersThrottle(r) \/ PassesThrottle(r) \/ NominatimReplies(r) \/ Retries(r)

\* asyncio.wait_for cancels the call: whatever it awaits raises, a lock it holds
\* is released, nothing is cached.
IsUnderWay(r) == call[r].at \in {"throttled", "sleeping", "sent", "waiting"}
MKeepsLock(r) == holder
HolderWithout(r) == IF holder = r THEN Nobody ELSE holder
Cancelled(r) ==
  /\ IsUnderWay(r)
  /\ holder' = HolderWithout(r)
  /\ UNCHANGED <<cache, spaced, missed, fresh>>

GeocoderTick ==
  /\ spaced' = TRUE
  /\ fresh' = 0
  /\ call' = [r \in Requests |->
                IF call[r].wait > 0 THEN [call[r] EXCEPT !.wait = @ - 1] ELSE call[r]]
  /\ UNCHANGED <<cache, holder, missed>>

(***************************************************************************)
(* Properties                                                              *)
(***************************************************************************)
GeocoderTypeOK ==
  /\ cache \in [Keys -> {"absent", "found", "none"}]
  /\ holder \in Requests \cup {Nobody}
  /\ spaced \in BOOLEAN
  /\ missed \subseteq Keys
  /\ fresh \in Nat
  /\ call \in [Requests -> [at : {"none", "throttled", "sleeping", "sent", "waiting",
                                  "answered", "rejected", "broken"},
                            key : Keys \cup {<<>>}, got : {"none", "found"},
                            attempt : 0..Attempts, wait : 0..2]]
  /\ \A r \in Requests : /\ call[r].at # "none" => call[r].key \in Keys
                         /\ call[r].at = "sleeping" <=> holder = r

\* Of the calls that are not in the cache one a second sends its first request,
\* although each reads the time of the last one before it sleeps and not after:
\* nobody else passes while it sleeps, whoever waits behind it or is cancelled
\* inside (_throttle).  The retries of calls under way pass no throttle and are
\* not counted.
CallsAreSpaced == fresh <= 1
=============================================================================
