# Formal models of the trip planner

This directory holds TLA+ models of the planner backend, the TLC
configurations that check them, and TLAPS proofs. Paths are relative to the root
of the repository; the Python sources are under `src/`.

The program turns a sentence of a traveller into an itinerary. A LangGraph agent,
driven by a language model that may only *propose* tool calls, searches, ranks,
routes, schedules and validates places; a FastAPI endpoint streams its progress,
saves the result as a trip and caches it; other endpoints edit trips and prepare
destinations.

## 1. Inventory

| component | state | operations | what is hard | what makes it correct |
|---|---|---|---|---|
| **Planning agent** `planner/graph`, `planner/tools` | `TravelState`: phase, counters, pending calls, planning data, stuck fingerprint | agent node, tool executor, twelve tools, transition table, stuck detector, narrative, evaluation | the model proposes any name in any order; a batch spans phase changes; three limits interact | budget, phases and verdicts hold whatever is proposed; nothing is published unjustified; the graph ends |
| **Recursion limit** `planner/service.py` | LangGraph's superstep counter | `_recursion_limit` | cycles that no counter counts | a generation that would end is not given up |
| **Generation and SSE adapter** `planner/service.py`, `router.py`, `emit_terminals.py` | background task, event queue, buffered terminal | run or replay, emit, poll, disconnect, time out, save, answer | producer and consumer, cancellation at any await, partial failure | one terminal event per stream, an itinerary with its trip, no task left behind |
| **Planner cache** `planner/cache.py`, `core/cache` | key to plan, TTL | lookup, replay, best-effort write | stale or unfit plans replayed for an hour | only complete, saved plans are served |
| **Evaluation records** `evaluation` | one row per generation, edit flag | `record_generation`, `mark_trip_edited` | paths that skip it | no answer without a record, or a warning that it was lost |
| **Trips** `trips` | trip, its places, audit events, owner | save, reorder, add, remove, re-optimise, claim, delete | concurrent edits without row locks, check-then-write of the owner | a day keeps a total order unless edits overlapped, no stop leaves or returns without a reason, what begins after a claim or a delete is refused |
| **Destinations** `destinations` | destination rows, `place_count`, prepare lock with TTL | resolve, prepare, ingest | two workers, a lock that expires or is deleted by another, three stores without a common transaction | one ingest at a time while the lock lives, no lock without its ingest before the TTL but in Redis, counters and index backed by rows |
| **Rate limiter** `core/middleware/rate_limit.py` | sliding window per client and path, in memory or Redis | check, add, fail open | check-then-add across workers | the limit is exceeded by no more than requests that raced, or that Redis failed for |
| **Geocoder** `geo/geocoder.py` | throttle lock and timestamp, answers by query | throttle, fetch with retries, cache | cancelled callers, failures cached, retries beside the throttle | one call a second passes the throttle, nothing is cached as absent without a miss |
| **Places facade** `geo/places.py`, `overpass.py`, `geoapify_places.py`, `opentripmap.py`, `places` | none | fetch, merge, deduplicate | HTTP failures | a merge loses no place and keeps no duplicate |
| **Travel engine** `travel_engine` | none: pure functions | select, allocate days, optimise, schedule, validate | boundaries, morning-only stops moved after routing, hops over lunch | each stop on one day, what is left out has a reason, a passing trip keeps its limits |
| **Routing** `planner/routing_provider.py`, `geo/osrm.py` | none | durations with a fallback | provider failures | never fails |
| **Semantic search** `search` | external index | embed, query, upsert | external I/O | degrades to plain search |
| **LLM client** `core/llm/client.py` | none beyond a call | complete, chat with tools | retries | bounded retries |
| **Auth** `auth`, `core/security` | users, tokens | sign in, refresh, claim of a session | the user upsert race | one user per identity |
| **Shell** `main.py`, `config.py`, `core/database` | settings, sessions | wiring | - | - |

How they interact: the router starts a background task for every stream, which
calls the planner service (or replays the cache); the service runs the graph,
whose nodes call tools, whose tools call search, routing and the travel engine.
Events flow back through a queue that the router polls. After an
`itinerary_done` the router calls the trip service and writes the cache. Trips
that were saved are edited through the trip service, which calls the travel
engine and flags the evaluation. Before a destination can be planned it is
found by name (rate limiter, table, geocoder) and its places are ingested,
enriched and indexed by a background task and by scripts; the searches of the
planner read what they left in PostgreSQL and Qdrant. The hazards are listed with their
lines in `PROJECT.json`, with the properties that would catch each going wrong
or the reason why none does.

## 2. Modules

| module | what it is |
|---|---|
| `PhaseContract` | abstract: the documented phase machine of a plan |
| `AgentLoop` | the agent: every node, tool, transition and the stuck detector |
| `AgentSupersteps` | `AgentLoop` with LangGraph's superstep counter |
| `PlanOutcome` | the flags a finished run leaves, and the functions of them that the code around the graph computes |
| `StreamContract` | abstract: what a `POST /planner/generate` promises each client |
| `Generate` | background task, queue, SSE generator, save and cache of each request |
| `TripHistory` | abstract: what requests on one trip amount to: whole-day edits, claims, a deletion |
| `TripEdits` | the requests that edit, claim and delete one saved trip, with PostgreSQL's row locks |
| `Catalog` | prepare requests, ingests, the scripts that seed, enrich and index, and the planner's search, on three stores |
| `HttpRequests` | the requests that the next three modules share |
| `RateLimiter` | the sliding windows, in memory and in Redis |
| `Geocoder` | throttle, retries and cache of the gateway to Nominatim |
| `Lookup` | `RateLimiter` and `Geocoder` composed with the handlers of search and resolve |
| `DayPlanning` | the travel engine, from candidates to a verdict |
| `LookupParts_proofs` | what the steps of the limiter and of the geocoder preserve |
| other `*_proofs` | the theorems about the module of that name |
| `MC*` | instances for TLC |

    PhaseContract <--implements-- AgentLoop --EndsInFinal--> PlanOutcome --GraphFinals--> Generate --implements--> StreamContract
                                     ^
                              AgentSupersteps

    RateLimiter + Geocoder --EXTENDS--> Lookup     TripEdits --implements--> TripHistory     DayPlanning     Catalog

`PlanOutcome` is the joint between the two large models. `AgentLoop` proves
(`EndsAreFinal`) that it always ends in a member of `GraphFinals`; `Generate`
lets its graph return any member of it. That composes them without multiplying
their state spaces. `Lookup` composes its two parts directly: a request is in the
limiter, then in its handler, which has calls to the geocoder under way; time
ticks for all of them at once. `PlansHaveStops` is a joint as well: `AgentLoop` takes for
granted that a plan made from some place has a stop, and `DayPlanning` is where that is
proved. Otherwise `DayPlanning`, `TripEdits` and `Catalog` stand by themselves:
they meet the agent only through data that the agent's tools leave free (how many
places a search finds, whether a schedule passes) and through rows that are
there when their requests begin.

A definition whose name begins with `M` and that stands directly before another
one (`MRepairsOffByOne` before `RepairsLeft`) is a *mutant* of that other
definition: a plausible bug. Nothing in the model refers to it. `PROJECT.json`
lists, for every checked property, a mutant under which TLC finds the property
violated.

### AgentLoop

One action is one node of the graph, except that `tool_executor` is one action
per pending call (`ExecuteCall`) and one for the end of its batch
(`FinishBatch`), so that properties hold between the calls of a batch as well.
`ExecuteCall` is `execute_tool`, `apply_tool_result` and `maybe_transition_phase`
in that order; `FinishBatch` is `run_stuck_detector` and the conditional edge
`_route_after_tools`.

| variable | code |
|---|---|
| `node` | the node LangGraph runs next |
| `pending`, `byDefault` | `pending_tool_calls`: how many are left, and whether they were synthesized by `_synthesize_default` |
| `phase`, `toolLoop`, `replans` | `agent_phase`, `tool_loop_count`, `replan_loop_count` |
| `abort`, `planComplete`, `clarify` | `abort_triggered`, `plan_complete`, `needs_clarification` |
| `work` | `readiness_score`, `candidate_pois`, `ranked_pois`, `route`, `schedule`, `validation_result`, as counts and flags |
| `fingerprint`, `stuckCycles`, `forced` | `stuck_fingerprint`, `stuck_cycles`, the warning of a forced completion |

Abstractions. Places are counted, not named. The language model is a free
choice among all registered names and an unknown one, when a call is dispatched
rather than when it is queued: nothing reads the queued name in between. A tool
is the set of results it can return: `Run` says for each which data it rebuilds
and when it can fail. Any tool that awaits a provider or the database, or needs
coordinates, may fail at any call (`OrFailed`), which covers the `tool_error` of
`registry.py` and `build_route` without routing. `validate_itinerary`, `rank_places` and the
three tools that only signal compute on what the state holds, never raise, and
cannot fail that way. `fresh` is a history flag: neither route nor schedule was
rebuilt since the last verdict. `build_schedule` over an unchanged route also
resets it: the model then allows a validation to change its mind where the code
would not, which only adds behaviours.

### AgentSupersteps

Conjoins a counter to every step that changes `node`. The history variables
`moved` and `sawUnknown` serve the bounds; the code does not have them. `steps` stops at
`StepsCap`, one more than `StepsBounded` allows, so that a loop that never ended would be
a cycle of states TLC can find; the proofs show that the cap is never reached.

### Generate

`Requests` are requests that share one cache key; keys do not interact. An
action is the code between two awaits.

| variable | code |
|---|---|
| `connected` | what `request.is_disconnected()` reports |
| `gen` | `event_gen`: before the lookup, at the top of the loop, in `queue.get()`, in `save_from_state`, after its commit, over |
| `task` | the `asyncio` task: running the graph, in the service's `record_evaluation`, replaying, done, failed, cancelled |
| `source` | `from_cache` |
| `queue`, `buffered` | the `asyncio.Queue`, `pending_terminal` |
| `final` | `final_state`, or what the task starts from |
| `evaluation` | the evaluation row of the run, or the warning that it was lost |
| `trip`, `answer`, `cache` | the row saved, the terminal frame yielded, the cached plan |

Abstractions. Progress events are alike. Leaving the loop on a disconnect is one
action with the cancellation, because no await separates `task.cancel()` from the
test of `pending_terminal`; the task is then `cancelled` although asyncio will
deliver the cancellation a moment later, and `task.result()` fails in either
case. Whether an evaluation row whose commit is being cancelled survives is
settled before the cancellation. `Cacheable` asks for a stop where `cache.py` asks for a nonempty
list of days: it is only reached with an itinerary that was announced, whose days have stops. The snapshot a timed-out run returns is reduced
to its `abort_triggered`, since nothing is saved or cached after an error event.
`Interrupt` is Starlette closing the generator of a client that left; a server
that shuts down is not modelled. Rejections before the stream starts (unknown
destination, too few places) are left out: they have no state.

### TripEdits

Requests on one saved trip: four kinds of edits, claims, deletes. An edit is a load
with its plan, the DELETEs, the flush with the commit, and the reload for the
response: between any two of these another request may run.

| variable | code |
|---|---|
| `trip`, `rows` | the committed `trips` row, and the `trip_places` by place (its unique key) |
| `holder` | the row locks that a DELETE took |
| `at`, `job` | where the coroutine is, and what it was asked |
| `seen`, `plan` | the rows it loaded, and the order it gives the day |
| `answer`, `audit` | the response, and the committed `TripEditEvent`s |
| `torn` | history: days whose last edit overlapped another |

Abstractions. Routes and times are left out: an optimised day is any order of its
stops with the morning-only ones first, and every request may be refused. An UPDATE of
a row that vanished is passed over, or the transaction fails, as the driver has
it. The locks of UPDATEs are not variables: the flush and the commit are one
step, which waits for the rows others deleted; the deadlock detector may end any cycle.
`mark_trip_edited` finds no row in any reachable state and does nothing here. The DELETEs of one
edit are one step: between two of them another transaction could only wait for the rows
already deleted, or close a circle that the deadlock detector ends with a rollback, which
`WriteFails` allows at that point. The second lookup of a delete and its update
are one step: only another delete's commit between them would show, and after one the step may be
answered either way.

`TripHistory` is what this looks like to whoever reads the trip. Its edits begin with the
rows of a moment and end in one step, like an optimistic transaction that never checks:
if the day is as it was, it becomes another whole day, else it is `torn`, a mixture of both
edits, until an edit that nothing comes between. `ImplementsHistory` maps `base` to what a request
has loaded; the DELETEs, the locks and the waiting are stutters.

### Catalog

Jobs arrive in any order; each is a prepare request (with the ingest it starts in the
background), a seed, enrich or index script, or a search of the planner.

| variable | code |
|---|---|
| `dest` | `destinations`: country and the three counters |
| `place` | `places` by `osm_id`: destination, and whether `ai_summary` is there |
| `point` | the payload of each point in Qdrant |
| `backend`, `lock` | the cache, and the prepare lock of each destination |
| `job` | where each job is, its batch, the `place_count` it loaded |
| `owned`, `lapsed` | histories: rows a destination ever had; destinations ingested without a lock |

Abstractions. A transaction writes when it commits. What a source answers, which upserts
succeed, which of the places near a base the radius query returns (it has a LIMIT and no order), what the model's reply parses to and which vectors come are free
choices. The TTL may pass at any moment, which covers an ingest that takes
longer than its lock. `Killed` ends a script between two steps, `Restart` the
server with its background tasks.

### RateLimiter, Geocoder, Lookup

| variable | code |
|---|---|
| `limiter`, `path`, `check` | the backend, the window of a request, how far `allow` is |
| `clock`, `logged` | the age of the timestamp a request read, and whether it is in the window |
| `open`, `raced` | histories: let through by a failing Redis; counted while another was not recorded |
| `cache` | `_cache` and `_list_cache`: absent, found, or cached as nothing |
| `holder`, `spaced` | `_rate_lock`, and whether a second has passed since `_last_request_at`; the call under the lock reads it once and sleeps for the rest (`wait`) |
| `call` | the call a request has under way, its attempt, and its sleep in the throttle or before a retry |
| `missed`, `fresh` | histories: keys Nominatim had nothing for, or failed; calls started in this second |
| `rows`, `req`, `late` | the `destinations` table, the handler of each request, history: deadlines passed |

Abstractions. Time is a tick of one second for all; ages stop at the window. A
site is a place as Nominatim describes it, reduced to whether it is oversized (then
it is a region) and to its country; Nominatim always gives the same answer to
the same query, or fails. The limits on the number of hubs and of ambiguous
candidates (`_HUB_LIMIT`, `_AMBIGUOUS_LIMIT`) and regions without a country code are
left out. An upsert or a commit may fail (`StoreFails`). A deadline (`asyncio.wait_for`) may pass at any moment of what it
bounds. A clock that steps back is not modelled.

### DayPlanning

The five functions of the travel engine in the order the tools chain them; every
loop is an action, so that what one stage leaves out can be followed to the end.
A loop over a sorted list takes the first of the set that is left (`First`), which
keeps the state to sets that a proof can follow; only routes and schedules are
sequences.

| variable | code |
|---|---|
| `input` | categories, scores and travel minutes of the candidates |
| `stage`, `todo` | which function runs, and what its loop has yet to look at |
| `selected` | `select_places` |
| `clusters`, `target`, `days` | `allocate_days`: `_build_clusters`, the preferred day, the buckets |
| `ordered`, `travel`, `dropped` | `optimize_route` of each day: order, `total_travel_min`, `dropped_stops` |
| `schedule`, `lunch` | `build_day_schedule`: stops with their start, `lunch_taken` |
| `verdict` | `validate_trip` |

Abstractions. Where places lie is left out: a place may join any cluster, a
spill may go to any day that accepts it, a day may or may not be coherent. The
optimiser is brute force over permutations, as in the code for the sizes of a
day. Every pair of places has a leg, since every provider returns a full matrix (the
penalty and the error of the code for a missing leg never come up). Times are minutes after midnight.

## 3. Runs

| run | specification | distinct states | question |
|---|---|---|---|
| `agent_loop` | `AgentSupersteps`, default limits 12/2/3, batches of two | 1 068 861 | budget, phases, verdicts, justified completion, phase contract, termination and the supersteps it takes |
| `unvalidated_completion` | `AgentLoop`, one call at a time | violation | can a plan complete without abort and without a verdict? |
| `generate` | two requests, one key | 513 216 | one answer per stream, trips, cache, tasks, records, stream contract |
| `unanswered_client` | same | violation | is a client that stays always answered? |
| `trip_edits` | two requests, four places, two days | 40 323 | what overlapping edits, claims and deletes do to stops, owner and answers; whole-day edits |
| `dropped_stops` | same | violation | does an edit only drop the stop it was asked to? |
| `catalog` | three jobs, two destinations, two places | 570 300 | ingests while the lock lives, locks of ingests that are over, counters and index backed, searches in scope |
| `second_ingest` | same | violation | does a prepare never start a second scrape? |
| `lookup` | two requests, two queries, three sites | 288 040 | limiter, throttle, cache, and an answer to everyone |
| `planned_region` | same | violation | is a region never the destination? |
| `day_planning` | four places, two days | 260 295 | is every candidate accounted for, and what is a passing verdict worth? |
| `hop_times` | same | violation | does a schedule leave the time for every hop? |

The properties say (each is commented in its module):

* `BudgetAborts`, `SettledInWrapUp`: a spent budget or a settled plan is final,
  for every later call of the batch.
* `PassedIsCurrent`, `CompletionIsJustified`: `last_validate_ok` is never reset
  by the repairs, and still never stale, because a passing verdict leaves
  VALIDATE for good. A plan completes aborted, validated, or forced.
* `ReplanIsEarned`, `ValidateHasSchedule`: phases are entered with the data they
  need, also when the stuck detector moved them.
* `EndsInFinal`: what the graph hands over is a question or a complete plan, and
  an unaborted plan has stops.
* `Terminates`: the graph ends whatever is proposed.
* `ImplementsContract` of `AgentLoop`: phases move along the documented edges,
  repairs cost attempts, aborts go to WRAP_UP, and the plan ends once.
* `StepsBounded`, `RegisteredNamesSuffice`: a bound for every model, and the
  tighter one for a model that only uses registered names.
* `OneTerminal`: a terminal event is the last event of its request. The router
  keeps only the last terminal it reads and would silently lose an earlier one.
* `AnsweredInFull`: a client that is there gets the event its task emitted; an
  itinerary comes with its saved trip; `missing_terminal` only after a failure.
* `TripsAreItineraries`, `CacheIsServable`: what is saved was announced and is
  usable; what is cached was made by the graph, not aborted, and saved complete.
* `NoOrphanTask`: no task outlives its stream.
* `AnswersAreRecorded`: when a trip is saved or a client that is there gets its terminal event, the
  evaluation row of the run is written, or its loss logged, unless the task failed. A client that
  leaves first may cost the record (section 4).
* `ImplementsContract` of `Generate`: `StreamContract`, including that every
  stream closes.
* `ImplementsHistory`: an edit that none overlaps is one change of one whole day, numbered
  1 to n; no edit changes another day, an owner is never lost and a deletion never undone. It
  implies `DaysInOrder` (a day is numbered 1 to n unless its last edit overlapped another),
  which is stated for the proofs.
* `RemovedStaysRemoved`, `StopsLeaveForAReason`: a stop comes back only by its
  own `add_stop`, and leaves only by its own `remove_stop` or because it is
  morning-only and other stops have all the slots of the day as the edit planned it.
* `AnswersAreTrue`, `LateRequestsFail`: answers agree with the audit trail, and
  a request that loads the trip after a delete or a claim does not succeed against it. Requests
  that had loaded it before are not covered (section 4).
* `ExclusiveIngest`: the lock is the running ingest's, except after an expiry, a
  failing cache, or two workers between Redis' GET and SET, until those ingests end. The
  exceptions are what `second_ingest` is about.
* `LocksAreOfIngests`: a lock is of an ingest that runs, or it is in Redis and its job is over: no crash,
  failed delete or second ingest leaves another one, so that only Redis' TTL is ever waited for.
* `CountsAreBacked`, `IndexIsBacked`, `SearchIsScoped`: no counter promises more
  rows than the destination ever had; points are enriched rows of a destination
  that had them; a search never crosses a country, and offers places of a neighbour only
  if none of the rows its radius query returned is of its own destination. Own rows that the LIMIT of
  that query cut off do not count: nothing orders it.
* `WindowHolds`: the limit, with a bound for the excess Redis allows.
* `CallsAreSpaced`: one call a second passes the throttle, which reads the clock before it sleeps and
  not after, however callers are cancelled. Retries pass no throttle (section 4).
* `NotFoundIsEarned`: a rejection by Nominatim never turns into "not found",
  neither at once nor through the cache.
* `EveryRequestIsAnswered` of `TripEdits` and of `Lookup`: deadlocks are broken,
  no cancelled call keeps the throttle's lock.
* `PlacesAreAccountedFor`: a candidate is visited once, or missing for a reason
  that still holds at the end.
* `PassedTripsKeepTheirLimits`: every day of a passing trip has a stop and keeps the limits on
  stops and visit minutes; no visit crosses the start of lunch; only the hop that lunch
  interrupts may lack its time; the travel limit holds of a day visited as it was routed.

Bounds. `MaxBatch = 2` lets a batch overshoot the budget and lets one batch
validate and finish; `MaxPlaces = 2` distinguishes no place, one that cannot be
dropped, and one that can; two error lists let two failing validations differ,
which the stuck detector reads; the proofs are about every batch length. Two requests
are what it takes for a plan to be cached by one and replayed by another while
the first still runs or after it failed; `QueueBound = 1` lets progress wait
before a terminal event, and a replay puts three events into the queue at once.
`CHECK_DEADLOCK FALSE` is set because a generation, a stream and a job end.

Two requests are also what it takes for one edit to overlap another, or to wait for
it; four places allow a day with two morning-only stops for its one slot
(`MorningSlots = 1`), and one that is left to add. Trips begin as saved, or as an
earlier overlap left them. Three jobs are two ingests and one that reads or
rewrites what they left; of the two places one may belong to any country. In
`lookup` a region and an ambiguous name give every branch of resolve, `Limit = 1`
makes the second request exceed it, and two attempts make one retry. `day_planning`
draws four places from four sites along a road, long enough that a day must drop stops and that
a hop can cross lunch; the mixes of categories exceed morning slots, visit
minutes and the one monastery of a trip.

Fairness. `AgentLoop` and `AgentSupersteps` assume weak fairness of the next step (`FairSSpec`): every node returns, since the
calls to the language model and to the tools have timeouts and fall back.
`Generate` assumes weak fairness of each task and of each generator:
`PLANNER_GENERATION_TIMEOUT_SECONDS` ends the graph, and asyncio resumes a
coroutine whose await is over. Progress, disconnects, interrupts and the expiry
of the cache are never forced. `TripEdits` assumes that requests which loaded the
trip go on (the database answers and detects deadlocks), not that one is ever
sent. `Catalog` has no liveness property and assumes no fairness. `Lookup` assumes that
time passes and that the event loop comes back to each request; no deadline need
pass. `DayPlanning` has no liveness property.

## 4. Findings

Each is a run that ends in a violation; `PROJECT.json` quotes the lines.

1. **A plan can complete unvalidated** (`unvalidated_completion`). The stuck
   detector leaves VALIDATE for WRAP_UP without an abort and completes the plan
   there by force. `agent.md:26` and `docs/blueprint_final.md:1573` rule that out;
   `openspec/specs/planner-agent-tool-executor/spec.md:49,51` asks for it. The plan is saved as
   COMPLETE and cached.
2. **A client can be left without a terminal event** (`unanswered_client`): an
   exception of `save_from_state` escapes the generator.
3. **Edits drop other stops** (`dropped_stops`): `docs/steps/step7.md:74` has an
   edit that would drop a stop refused. Only the optimiser's drops are. In the run the morning
   slot of a day is taken; an `add_stop` puts another morning-only place into it, and its commit
   deletes the row of the first one.
4. **A second scrape starts beside the first** (`second_ingest`), which
   `openspec/specs/destination-prepare/spec.md:28` rules out. The lock of a prepare lives 180 s and the ingest
   is not bounded by that; in the run it expires, and the next prepare scrapes as well. With Redis
   two workers can also both pass the GET before either one's SET.
5. **A region can be the destination** (`planned_region`), against
   `openspec/specs/destinations-http/spec.md:9`. A search stores the region; a resolve that gets no answer
   in time, or the cached one of a failure, offers the stored row. `RegionIsPlannedUnanswered`,
   proved, says that nothing else leads there.
6. **A visit can start before its stop is reached** (`hop_times`), against
   `openspec/specs/travel-engine-schedule-builder/spec.md:15`: a hop over the start of lunch ends when lunch
   does, however long it is.

Two more divergences have no run of their own:

* `_recursion_limit` allows 52 supersteps by default, and its comment (`service.py:41`) counts what a
  generation needs. Calls of unknown names are not counted and start the stuck detector
  over, so 53 are reached with all limits respected: `RecursionLimitSuffices` as an
  invariant of `FairSSpec`, with one call a batch and the names `search_places` and `unknown`, is
  violated. Registered names stay within the limit (`RegisteredNamesStayInLimit`).
* A client that leaves cancels the task before `record_evaluation`: that generation has no row,
  although `agent.md:11` wants one of every generation. `AnswersAreRecorded` is what holds.

The properties that hold also say where the code is weaker than one might expect.
They were worded to be true, so a reader should know:

* Two claims that both loaded an unclaimed trip both succeed; the later one keeps it.
* An edit that loaded a trip before its deletion may commit after it; its reload then fails, so
  it is told otherwise although its event is in the audit trail.
* Retries of a geocoder call pass no throttle, so they may come right before or after another
  caller's request; `openspec/specs/geo-geocoder/spec.md:44` wants all consecutive calls spaced.
* A failure of Nominatim is cached as "nothing" until the process ends.
* `total_travel_min` is not computed again after morning-only stops moved to the front:
  such a day may exceed the travel limit and pass. Times wrap at midnight.
* Among places of one score the optimiser drops the one the other stages rank first. The allocation
  gives up a place no day takes; that a full day prefers higher scores
  (`openspec/specs/travel-engine-day-allocator/spec.md:35`) is its order, and no property.

## 5. Proofs

All theorems are proved for every value of the constants under assumptions that
TLC evaluates on each instance:

* `BoundsAssumption`: the limits of the agent are natural numbers, positive where the
  code divides the work by them. `NamesAssumption`: the model's names are registered or
  unknown, and an error list is not a passing verdict. `QueueAssumption`.
* Sets whose members are counted are finite, `Nobody` is none of those it stands apart
  from, and what the stores hold when requests arrive (`Itineraries`, `Catalogs`,
  `Tables`) is what the code writes.
* `MorningSlots` of `TripEdits` is positive (2 in `travel_rules.py`): a re-planned day keeps a stop.
* `DayPlanningAssumption`: minutes and limits are natural numbers. Scores are too, as the
  engine only compares them (with each other and with `ANCHOR_MIN_SCORE`).
* `RoomAssumption`: there is a day (`allocate_days` raises otherwise), and by the constants of
  `travel_rules.py` any one place fits into an empty one. Only `PlansHaveStops` needs it.

**`AgentLoop_proofs`** - `TypeOK`, `BudgetAborts`, `SettledInWrapUp`,
`PassedIsCurrent`, `CompletionIsJustified`, `ReplanIsEarned`,
`ValidateHasSchedule` and `EndsInFinal` are invariants of `Spec`. They are not
inductive by themselves. `Inv` adds `BatchFits` (a batch is queued below the
budget, so the counter overshoots by less than a batch), `DataCoheres` (a fresh
verdict exists, a schedule has a route) and `LateNodes` (the nodes after the
loop, and WRAP_UP itself, are reached with a complete plan, or an abort or a
schedule). The lemmas follow the code: what a tool returns (`RunResult`), what
`execute_tool` lets through (`ExecuteToolFacts`), what the table does
(`TransitionFacts`), then one call and the end of a batch.
`LoopImplementsContract` proves the safety part of the refinement.

**`AgentSupersteps_proofs`** - `StepsAreBounded`. The loop has no counter of
cycles, so the proof uses a potential: a weight of the phase, the attempts and
the budget left, and the distance of the stuck detector from its limit. A cycle
that counts nothing moves the detector closer; a counted call may start it over
but spends budget; a repair sends the phase back and spends an attempt. Each
cycle lowers the potential, so `steps` plus twice the potential never grows.
`OneSuperstep` shows that `StepsCap` does not bind: the potential keeps `steps` below it.
`RegisteredNamesAreBounded` adds `BudgetPays`: without uncounted calls every
batch with budget left spends some, and every batch without is empty, ends in
WRAP_UP and moves the stuck detector on. `RegisteredNamesStayInLimit` follows: the
limit that unknown names exceed is enough, for all settings, without them.

**`Generate_proofs`** - `TypeOK`, `OneTerminal`, `AnsweredInFull`,
`TripsAreItineraries`, `CacheIsServable`, `NoOrphanTask` and `AnswersAreRecorded` for any set of
requests. `Inv` is a conjunction over the requests (`Coheres`): what the task's
stage says of the events emitted, what the events say of the final state, what
the generator's stage says of trip and answer. A step of one request leaves the
others alone (`StepsAreLocal`), so it suffices to show that it keeps its own;
only the cache is shared, and its witness keeps its trip. `AnswersAreRecorded` adds `RecordCoheres`: who
runs the graph records it before it is done, and trips are saved of tasks that are done. Facts about the queue
are lemmas on sequences. `GenerateImplementsContract` proves the safety part of
the refinement.

**`TripEdits_proofs`** - `TypeOK`, `DaysInOrder`, `AnswersAreTrue`,
`RemovedStaysRemoved`, `StopsLeaveForAReason` and `LateRequestsFail`. A commit writes what
was planned from rows that others may have changed since, so the invariant has
to say what a plan may leave out or add (`PlansOK`), and which of the loaded
rows are still the same (`RowsOK`: a row is told by its inserter, and one that is to be
deleted is locked or gone). `DaysInOrder` then follows for commits that found
what they had loaded. The two action properties need nothing but these.

`EditsAreAtomic` is the refinement, `Spec => ImplementsHistory`, initial states and all
steps. `CommitChanges` says what a commit does to one row, whatever was there; `CommitIsEdit` that
this is an `Edit` of `TripHistory`, a whole day if none overlapped; `StepIsHistory` goes through the other
actions. A request that is not between load and commit holds no rows (`IdleOK`), and a plan
is never empty (part of `PlansOK`): the abstract edit replaces a day by one with a stop.

`SomeoneGoesOn` is what `EveryRequestIsAnswered` rests on, for any number of requests: among
requests that wait for nobody but one another, one can take its next step. Whoever waits, waits
for a transaction in its flush (`WaitsForFlush`), so if none could go on, those in their
flush would be the circle that the deadlock detector breaks. `ENABLED` cannot be reasoned about, so
`GoesOn` repeats the guards of the actions; on the instance of `trip_edits` it is
equivalent to `ENABLED (Persist(e) \/ ClaimCommits(e) \/ SoftDelete(e))`.

**`Catalog_proofs`** - `TypeOK`, `ExclusiveIngest`, `CountsAreBacked`,
`IndexIsBacked`, `SearchIsScoped` and `LocksAreOfIngests`. The invariant adds that rows are owned
(`RowsOwned`) and that what a job carries between two steps stays true while
others run (`BatchesOK`); both rest on histories and summaries that only grow
(`StoresGrow`). The lemmas are one per store.

**`LookupParts_proofs`, `Lookup_proofs`** - `TypeOK`,
`WindowHolds`, `CallsAreSpaced`, `NotFoundIsEarned` and `RegionIsPlannedUnanswered` of
`Lookup`. Each part has an invariant that its own steps and the tick keep, and
that a step of the others leaves alone; the theorems about the composition
combine them. The limiter's (`Bounded`) is about requests that are counted and
not yet recorded: the limit holds with them, or it holds without those that raced.
The geocoder's says that nothing is cached or handed over as absent without a
miss (`Earned`), and that a call whose sleep in the throttle is over finds the second it slept for still free (`IsSpaced`). The handlers add
what they asked (`KeyOK`: a call for cities of a region is only made when the hubs
were missed) and that a region is neither offered nor about to be stored by a resolve that had its
answer (`RegionFree`).

**`DayPlanning_proofs`** - `PlacesAreAccountedFor`, `PassedTripsKeepTheirLimits`, and three
facts no run checks by itself. A candidate has to be followed through five stages, each
of which may leave it out, so the invariant says what each stage leaves to the next:

* `SelectionInv`: a place not selected is still to be looked at or conflicts with a better one;
* `Apart`: what is being allocated, the clusters and the days share no place;
* `AllocationInv`: days keep their limits, and a selected place waits, is on a day, or fits into
  none. That a place once left out stays left out is what makes the reason hold at the end: days
  only grow, and the three limits are monotone in the day (`LimitsOfMore`);
* `RouteInv`: a routed day is ordered, without repetition, and what it dropped is no better
  than what it keeps, which is at least one stop;
* `ScheduleInv`: the stops are timed one after another, with lunch, and are those of the route;
* `VerdictInv`: what `validate_trip` looked at.

The minutes of a day are a fold over a set, in an order of the fold's choice.
The library's induction theorems cannot be instantiated here, so `SubsetInduction` states
induction as a fact about a *set of subsets*, from the well-foundedness of strict inclusion; with
it the fold is additive whatever order it takes (`VisitMinutesRemove`) and monotone.

`ScheduleOmitsNoStop`: the scheduler's net for excess morning-only stops catches nothing in a
generated plan (in edits it does, finding 3). `OverBudgetDaysHaveOneStop`:
`MAX_ROUTE_DROP_ATTEMPTS` never ends the thinning of a day early. `PlansHaveStops`: whatever
the candidates, a plan visits one of them.

Only model-checked, on the bounds above: liveness, that is `Terminates`, the
liveness of the two contracts, and `EveryRequestIsAnswered`. Liveness
under fairness is out of the prover's reach. Every invariant and every safety action
property of the passing runs is proved. What recursive functions compute for every input (the
travel of an order, for one) is not: the proofs use such values without unfolding them.

## 6. Not modelled

* **LLM client.** Its replies are the nondeterminism of `AgentLoop` and of the
  enrichment; its retries are bounded by a library and change nothing others read.
* **HTTP gateways** (Overpass, OpenTripMap, Geoapify, OSRM) and the merge of their
  answers: stateless; what they return is a free choice of places or an input. The routing
  fallback never fails and only sets a flag.
* **Auth.** Tokens are pure functions of a request and a secret. The user upsert
  is one transaction on a unique key, which a model would only restate.
* **Semantic search** beyond its points: vectors, ranking, and the choice between
  dense and hybrid queries are data.
* **Evaluation** beyond whether a row is written: scorers, metrics and
  `run_evals` are offline computations on recorded data.
* **Travel engine**: geometry is a free choice in `DayPlanning`, scoring is given.
* **Shell**: configuration, sessions, tracing and wiring have no protocol.

## 7. What could follow

* A larger `catalog` (four jobs) and `trip_edits` (three requests): the theorems
  already cover every number, the liveness properties are checked for the small
  ones only.
* The pure functions the models leave free (scoring, geometry, the merge of POI
  sources) against reference definitions.
* A hand-over from `Catalog` to `AgentLoop`, whose searches are unrelated free
  choices: a plan whose places are taken over by a neighbour while it runs.
