------------------------------ MODULE RateLimiter ------------------------------
(***************************************************************************)
(* The sliding windows of core/middleware/rate_limit.py, for the requests  *)
(* of one client.  Each path has a window of its own: the timestamps of    *)
(* the requests it let through.  The memory backend counts and records in  *)
(* one step; Redis counts in one pipeline and records in another, and any  *)
(* error of Redis lets the request through.                                *)
(*                                                                         *)
(* Time is kept as ages: clock[r] is the number of seconds since request r *)
(* read the time, up to Window.                                            *)
(***************************************************************************)
EXTENDS HttpRequests

CONSTANTS Paths, Limit, Window

ASSUME LimiterAssumption == Limit \in Nat \ {0} /\ Window \in Nat \ {0}

VARIABLES
  limiter,  \* the backend, "memory" or "redis"
  path,     \* the path of each request
  check,    \* how far each request is: "new", "counted", "allowed" or "refused"
  clock,
  logged,   \* the requests whose timestamp is recorded
  open,     \* history: let through because the limiter failed
  raced     \* history: counted while another request was between count and record

limiterVars == <<limiter, path, check, clock, logged, open, raced>>

LimiterInit ==
  /\ limiter \in {"memory", "redis"}
  /\ path \in [Requests -> Paths]
  /\ check = [r \in Requests |-> "new"]
  /\ clock = [r \in Requests |-> Window]
  /\ logged = {} /\ open = {} /\ raced = {}

InWindow(r, p) == path[r] = p /\ clock[r] < Window
Recorded(p) == {r \in logged : InWindow(r, p)}
Counting(p) == {r \in Requests : path[r] = p /\ check[r] = "counted"}

MFullWhenOver(p) == Cardinality(Recorded(p)) > Limit
IsFull(p) == Cardinality(Recorded(p)) >= Limit

Reads(r, verdict) ==
  /\ check[r] = "new"
  /\ check' = [check EXCEPT ![r] = verdict]
  /\ clock' = [clock EXCEPT ![r] = 0]

Refused(r) ==
  /\ check[r] = "new"
  /\ IsFull(path[r])
  /\ check' = [check EXCEPT ![r] = "refused"]
  /\ UNCHANGED <<limiter, path, clock, logged, open, raced>>

MemoryAllows(r) ==
  /\ limiter = "memory"
  /\ ~IsFull(path[r])
  /\ Reads(r, "allowed")
  /\ logged' = logged \cup {r}
  /\ UNCHANGED <<limiter, path, open, raced>>

RedisCounts(r) ==
  /\ limiter = "redis"
  /\ ~IsFull(path[r])
  /\ Reads(r, "counted")
  /\ raced' = IF Counting(path[r]) = {} THEN raced
              ELSE raced \cup Counting(path[r]) \cup {r}
  /\ UNCHANGED <<limiter, path, logged, open>>

\* The recorded timestamp is the one read before the count.
RedisRecords(r) ==
  /\ check[r] = "counted"
  /\ check' = [check EXCEPT ![r] = "allowed"]
  /\ logged' = logged \cup {r}
  /\ UNCHANGED <<limiter, path, clock, open, raced>>

\* Redis fails before the count, or at the record, which may still be written.
FailsOpen(r) ==
  /\ limiter = "redis"
  /\ \/ Reads(r, "allowed") /\ UNCHANGED logged
     \/ /\ check[r] = "counted"
        /\ check' = [check EXCEPT ![r] = "allowed"]
        /\ logged' \in {logged, logged \cup {r}}
        /\ UNCHANGED clock
  /\ open' = open \cup {r}
  /\ UNCHANGED <<limiter, path, raced>>

LimiterStep(r) ==
  Refused(r) \/ MemoryAllows(r) \/ RedisCounts(r) \/ RedisRecords(r) \/ FailsOpen(r)

\* A timestamp that leaves the window is never counted again.
Young(S) == {r \in S : clock'[r] < Window}
LimiterTick ==
  /\ clock' = [r \in Requests |-> IF clock[r] < Window THEN clock[r] + 1 ELSE Window]
  /\ logged' = Young(logged) /\ open' = Young(open) /\ raced' = Young(raced)
  /\ UNCHANGED <<limiter, path, check>>

(***************************************************************************)
(* Properties                                                              *)
(***************************************************************************)
LimiterTypeOK ==
  /\ limiter \in {"memory", "redis"}
  /\ path \in [Requests -> Paths]
  /\ check \in [Requests -> {"new", "counted", "allowed", "refused"}]
  /\ clock \in [Requests -> 0..Window]
  /\ logged \subseteq Requests /\ open \subseteq Requests /\ raced \subseteq Requests

Admitted(p) == {r \in Requests : check[r] = "allowed" /\ InWindow(r, p)}

\* The middleware lets no more than Limit requests of a window through while it
\* keeps its own count in memory.  With Redis, which counts and records in two
\* pipelines, the excess is less than the number of requests that were counted
\* while another one was not yet recorded; what a failing Redis lets through
\* comes on top.
WindowHolds ==
  \A p \in Paths :
    LET racing == raced \cap Admitted(p)
    IN /\ racing = {} => Cardinality(Admitted(p) \ open) <= Limit
       /\ racing # {} => Cardinality(Admitted(p) \ open) < Limit + Cardinality(racing)
       /\ limiter = "memory" => racing = {} /\ open = {}
=============================================================================
