------------------------------- MODULE Catalog -------------------------------
(***************************************************************************)
(* The catalog of places and the jobs that fill and read it: prepare       *)
(* requests with the ingest they start (destinations/service.py,           *)
(* destinations/ingest.py), the scripts that seed, enrich and index a      *)
(* destination, and the search of the planner.  They share three stores    *)
(* that no transaction spans: PostgreSQL, Qdrant, and the cache that holds *)
(* the prepare lock.                                                       *)
(*                                                                         *)
(* A transaction writes when it commits: every count is an absolute value  *)
(* and every place row is overwritten, so the last commit wins, as it does *)
(* when PostgreSQL lets the writers of one row wait for each other.  A     *)
(* place found at a source, its upsert, the LLM's reply and a vector may   *)
(* each fail alone and are then skipped.                                   *)
(***************************************************************************)
EXTENDS Naturals, FiniteSets

CONSTANTS
  Jobs,       \* numbered in the order they arrive
  Destinations,
  Places,     \* the points of interest, by osm_id
  Countries,
  Tagged,     \* the country a point of interest is tagged with, or Nobody
  Nobody,     \* not a destination, a country or a job
  Floor,      \* PLANNER_ABSOLUTE_MIN_PLACES
  Limits,     \* the top_k that searches ask for
  Catalogs    \* what the stores may hold when the jobs arrive: [dest, place, point]

ASSUME CatalogAssumption ==
  /\ Jobs \subseteq Nat
  /\ Nobody \notin Jobs \cup Destinations \cup Countries
  /\ Tagged \in [Places -> Countries \cup {Nobody}]
  /\ IsFiniteSet(Places)
  /\ Floor \in Nat \ {0}
  /\ Limits \subseteq Nat \ {0}

Counts == 0..Cardinality(Places)
DestinationRow == [country : Countries, place_count : Counts, enriched_count : Counts,
                   indexed_count : Counts]
PlaceRow == [dest : Destinations \cup {Nobody}, summary : BOOLEAN]

\* A point is made of an enriched row of its destination; counts are of rows.
ASSUME CatalogsAssumption ==
  \A c \in Catalogs :
    /\ c.dest \in [Destinations -> DestinationRow]
    /\ c.place \in [Places -> PlaceRow]
    /\ c.point \in [Places -> Destinations \cup {Nobody}]
    /\ \A p \in Places :
         /\ c.point[p] \in {Nobody, c.place[p].dest}
         /\ c.point[p] # Nobody => c.place[p].summary
         /\ c.place[p].dest # Nobody =>
              Tagged[p] \in {Nobody, c.dest[c.place[p].dest].country}
    /\ \A d \in Destinations :
         LET rows == {p \in Places : c.place[p].dest = d}
             summaries == {p \in rows : c.place[p].summary}
         IN /\ c.dest[d].place_count <= Cardinality(rows)
            /\ c.dest[d].enriched_count <= Cardinality(summaries)
            /\ c.dest[d].indexed_count <= Cardinality(summaries)

VARIABLES
  dest,     \* destinations: country and the readiness counters
  place,    \* places: the destination of each row, and whether it has a summary
  point,    \* Qdrant: the destination in the payload of each place's point
  backend,  \* the cache in use, "memory" or "redis"
  lock,     \* the prepare lock: the job that set it
  job,
  owned,    \* history: the places that ever were rows of a destination
  lapsed    \* history: destinations whose ingest runs without its lock

vars == <<dest, place, point, backend, lock, job, owned, lapsed>>

NoJob == [kind |-> "none", at |-> "start", dest |-> Nobody, batch |-> {}, loaded |-> 0]

Rows(d) == {p \in Places : place[p].dest = d}
Enriched(d) == {p \in Rows(d) : place[p].summary}
Indexed(d) == {p \in Places : point[p] = d}
IsAt(j, kind, at) == job[j].kind = kind /\ job[j].at = at

\* The ingests of d that a prepare request started, and that have not ended.
Ingesting(d) ==
  {j \in Jobs : /\ job[j].kind = "prepare" /\ job[j].dest = d
                /\ job[j].at \in {"loading", "fetching", "unlocking"}}

Init ==
  /\ \E c \in Catalogs : dest = c.dest /\ place = c.place /\ point = c.point
  /\ backend \in {"memory", "redis"}
  /\ lock = [d \in Destinations |-> Nobody]
  /\ job = [j \in Jobs |-> NoJob]
  /\ owned = [d \in Destinations |-> Rows(d)]
  /\ lapsed = {}

Begin(j, kind, d, at, batch) ==
  /\ job[j].at = "start"
  /\ \A i \in Jobs : i < j => job[i].at # "start"
  /\ job' = [job EXCEPT ![j] = [kind |-> kind, at |-> at, dest |-> d, batch |-> batch,
                                loaded |-> dest[d].place_count]]

Goto(j, at) == job' = [job EXCEPT ![j].at = at]
End(j) == job' = [job EXCEPT ![j] = [NoJob EXCEPT !.at = "done"]]

(***************************************************************************)
(* prepare: the request                                                    *)
(***************************************************************************)
PrepareReady(j, d) ==
  /\ dest[d].place_count >= Floor
  /\ Begin(j, "prepare", d, "ready", {})
  /\ UNCHANGED <<dest, place, point, backend, lock, owned, lapsed>>

PrepareLoads(j, d) ==
  /\ dest[d].place_count < Floor
  /\ Begin(j, "prepare", d, "checking", {})
  /\ UNCHANGED <<dest, place, point, backend, lock, owned, lapsed>>

PrepareInFlight(j) ==
  /\ IsAt(j, "prepare", "checking")
  /\ lock[job[j].dest] # Nobody
  /\ End(j)
  /\ UNCHANGED <<dest, place, point, backend, lock, owned, lapsed>>

\* cache.get and cache.set of the memory backend do not yield to other tasks.
MLockIgnored(j) == TRUE
IsUnlocked(j) == lock[job[j].dest] = Nobody
PrepareStarts(j) ==
  /\ backend = "memory"
  /\ IsAt(j, "prepare", "checking")
  /\ IsUnlocked(j)
  /\ lock' = [lock EXCEPT ![job[j].dest] = j]
  /\ Goto(j, "loading")
  /\ UNCHANGED <<dest, place, point, backend, owned, lapsed>>

\* A Redis error reads as a miss.
PrepareFindsNoLock(j) ==
  /\ backend = "redis"
  /\ IsAt(j, "prepare", "checking")
  /\ Goto(j, "locking")
  /\ UNCHANGED <<dest, place, point, backend, lock, owned, lapsed>>

\* SET replaces whatever lock is there by now; an error is ignored.
PrepareLocks(j) ==
  LET d == job[j].dest
  IN /\ IsAt(j, "prepare", "locking")
     /\ \/ /\ lock' = [lock EXCEPT ![d] = j]
           /\ lapsed' = IF Ingesting(d) # {} /\ lock[d] # Nobody THEN lapsed \cup {d} ELSE lapsed
        \/ /\ lapsed' = lapsed \cup {d}
           /\ UNCHANGED lock
     /\ Goto(j, "loading")
     /\ UNCHANGED <<dest, place, point, backend, owned>>

\* The TTL passes, wherever the ingest is.
LockExpires(d) ==
  /\ lock[d] # Nobody
  /\ lock' = [lock EXCEPT ![d] = Nobody]
  /\ lapsed' = IF Ingesting(d) # {} THEN lapsed \cup {d} ELSE lapsed
  /\ UNCHANGED <<dest, place, point, backend, job, owned>>

(***************************************************************************)
(* The ingest: the background task of prepare, and the seed script         *)
(***************************************************************************)
IngestLoads(j) ==
  /\ IsAt(j, "prepare", "loading")
  /\ job' = [job EXCEPT ![j].at = "fetching", ![j].loaded = dest[job[j].dest].place_count]
  /\ UNCHANGED <<dest, place, point, backend, lock, owned, lapsed>>

SeedLoads(j, d) ==
  /\ Begin(j, "seed", d, "fetching", {})
  /\ UNCHANGED <<dest, place, point, backend, lock, owned, lapsed>>

\* poi_allowed_for_destination
Allowed(d) == {p \in Places : Tagged[p] \in {Nobody, dest[d].country}}

\* upsert_from_poi: ON CONFLICT (osm_id) keeps the summary, not the destination.
MUpsertAfresh(p, d) == [dest |-> d, summary |-> FALSE]
Upserted(p, d) == [place[p] EXCEPT !.dest = d]

\* place_count: the successes; an UPDATE only if that is not what was loaded.
MCountFetched(fetched, success) == Cardinality(fetched)
MCountFromOne(fetched, success) == Cardinality(success) + 1
SuccessCount(fetched, success) == Cardinality(success)

Finish(j) == IF job[j].kind = "prepare" THEN Goto(j, "unlocking") ELSE End(j)

IngestCommits(j) ==
  LET d == job[j].dest
  IN /\ job[j].kind \in {"prepare", "seed"} /\ job[j].at = "fetching"
     /\ \E fetched \in SUBSET Places :
          \E success \in SUBSET (fetched \cap Allowed(d)) :
            LET count == SuccessCount(fetched, success)
            IN /\ place' = [p \in Places |-> IF p \in success THEN Upserted(p, d) ELSE place[p]]
               /\ owned' = [owned EXCEPT ![d] = @ \cup success]
               /\ dest' = IF count = job[j].loaded THEN dest
                          ELSE [dest EXCEPT ![d].place_count = count]
     /\ Finish(j)
     /\ UNCHANGED <<point, backend, lock, lapsed>>

MFailureEndsTask(j) ==
  /\ job[j].kind \in {"prepare", "seed"} /\ job[j].at \in {"loading", "fetching"}
  /\ End(j)
  /\ UNCHANGED <<dest, place, point, backend, lock, owned, lapsed>>
IngestFails(j) ==
  /\ job[j].kind \in {"prepare", "seed"} /\ job[j].at \in {"loading", "fetching"}
  /\ Finish(j)
  /\ UNCHANGED <<dest, place, point, backend, lock, owned, lapsed>>

\* The finally block deletes the lock, whoever set it; a Redis error keeps it.
Unlapsed(j) == IF Ingesting(job[j].dest) = {j} THEN lapsed \ {job[j].dest} ELSE lapsed
IngestUnlocks(j) ==
  /\ IsAt(j, "prepare", "unlocking")
  /\ \/ /\ lock' = [lock EXCEPT ![job[j].dest] = Nobody]
     \/ backend = "redis" /\ UNCHANGED lock
  /\ lapsed' = Unlapsed(j)
  /\ End(j)
  /\ UNCHANGED <<dest, place, point, backend, owned>>

(***************************************************************************)
(* The enrich and index scripts                                            *)
(***************************************************************************)
EnrichSelects(j, d) ==
  /\ Begin(j, "enrich", d, "calling", Rows(d) \ Enriched(d))
  /\ UNCHANGED <<dest, place, point, backend, lock, owned, lapsed>>

\* Each place has a reply of its own: parsed, or nothing.
Parsed(batch) == SUBSET batch

\* Summaries are written by the place's id; the count reads the table again.
EnrichCommits(j) ==
  LET d == job[j].dest
  IN /\ IsAt(j, "enrich", "calling")
     /\ \E parsed \in Parsed(job[j].batch) :
          /\ place' = [p \in Places |->
                         IF p \in parsed THEN [place[p] EXCEPT !.summary = TRUE] ELSE place[p]]
          /\ dest' = [dest EXCEPT ![d].enriched_count =
                        Cardinality(Enriched(d) \cup (parsed \cap Rows(d)))]
     /\ End(j)
     /\ UNCHANGED <<point, backend, lock, owned, lapsed>>

ToIndex(d) == Enriched(d)
IndexSelects(j, d) ==
  /\ Begin(j, "index", d, "upserting", ToIndex(d))
  /\ UNCHANGED <<dest, place, point, backend, lock, owned, lapsed>>

\* A place without a vector is skipped, a chunk that Qdrant refuses is dropped.
Embedded(batch) == SUBSET batch
Upserts(vectors) == SUBSET vectors

IndexUpserts(j) ==
  /\ IsAt(j, "index", "upserting")
  /\ \E vectors \in Embedded(job[j].batch) : \E written \in Upserts(vectors) :
       point' = [p \in Places |-> IF p \in written THEN job[j].dest ELSE point[p]]
  /\ Goto(j, "counting")
  /\ UNCHANGED <<dest, place, backend, lock, owned, lapsed>>

\* count_indexed answers 0 when Qdrant cannot.
CountIndexed(d) == {0, Cardinality(Indexed(d))}
IndexCommits(j) ==
  LET d == job[j].dest
  IN /\ IsAt(j, "index", "counting")
     /\ \E count \in CountIndexed(d) :
          dest' = [dest EXCEPT ![d].indexed_count = count]
     /\ End(j)
     /\ UNCHANGED <<place, point, backend, lock, owned, lapsed>>

(***************************************************************************)
(* The planner's search_places                                             *)
(***************************************************************************)
\* The best points of the destination; none when Qdrant or the vector fails.
Hits(d) == SUBSET Indexed(d)
SearchQueries(j, d) ==
  /\ \E hits \in Hits(d) : Begin(j, "search", d, "hydrating", hits)
  /\ UNCHANGED <<dest, place, point, backend, lock, owned, lapsed>>

\* _filter_same_country: each row is stamped with the country of its destination.
MAnyCountry(d, S) == S
SameCountry(d, S) == {p \in S : dest[place[p].dest].country = dest[d].country}

\* Any rows may lie within the radius of the base.  The query has a LIMIT and no
\* ORDER BY: what it returns are at most that many of them, whosever they are.
WithinRadius(limit) ==
  {near \in SUBSET {p \in Places : place[p].dest # Nobody} : Cardinality(near) <= limit}

\* The rows of the hits; without one, what the radius query returned, its own rows
\* preferred among them.
Found(d, hits, near) ==
  IF hits # {} THEN SameCountry(d, hits)
  ELSE IF near \cap Rows(d) # {} THEN near \cap Rows(d)
  ELSE SameCountry(d, near)

SearchLoads(j) ==
  /\ IsAt(j, "search", "hydrating")
  /\ \E limit \in Limits : \E near \in WithinRadius(limit) :
       job' = [job EXCEPT ![j].at = "ready",
                          ![j].batch = Found(job[j].dest, job[j].batch, near)]
  /\ UNCHANGED <<dest, place, point, backend, lock, owned, lapsed>>

(***************************************************************************)
(* Crashes                                                                 *)
(***************************************************************************)
\* A script is killed: its transaction is lost, what it told Qdrant is not.
Killed(j) ==
  /\ job[j].kind \in {"seed", "enrich", "index"}
  /\ End(j)
  /\ UNCHANGED <<dest, place, point, backend, lock, owned, lapsed>>

\* The server restarts: its requests and background tasks are gone, and the
\* lock with them only if it was in memory.
Restart ==
  /\ \E j \in Jobs : job[j].kind \in {"prepare", "search"}
  /\ job' = [j \in Jobs |->
               IF job[j].kind \in {"prepare", "search"}
               THEN [NoJob EXCEPT !.at = "done"] ELSE job[j]]
  /\ lock' = IF backend = "memory" THEN [d \in Destinations |-> Nobody] ELSE lock
  /\ lapsed' = {}
  /\ UNCHANGED <<dest, place, point, backend, owned>>

(***************************************************************************)
(* Specification                                                           *)
(***************************************************************************)
Arrives(j, d) ==
  \/ PrepareReady(j, d) \/ PrepareLoads(j, d) \/ SeedLoads(j, d)
  \/ EnrichSelects(j, d) \/ IndexSelects(j, d) \/ SearchQueries(j, d)

Prepares(j) ==
  PrepareInFlight(j) \/ PrepareStarts(j) \/ PrepareFindsNoLock(j) \/ PrepareLocks(j)

Ingests(j) == IngestLoads(j) \/ IngestCommits(j) \/ IngestFails(j) \/ IngestUnlocks(j)

Enriches(j) == EnrichCommits(j) \/ IndexUpserts(j) \/ IndexCommits(j)

Step(j) ==
  \/ \E d \in Destinations : Arrives(j, d)
  \/ Prepares(j) \/ Ingests(j) \/ Enriches(j) \/ SearchLoads(j) \/ Killed(j)

Next ==
  \/ \E j \in Jobs : Step(j)
  \/ \E d \in Destinations : LockExpires(d)
  \/ Restart

Spec == Init /\ [][Next]_vars

(***************************************************************************)
(* Properties                                                              *)
(***************************************************************************)
\* "ready" is a request answered from what it found.
TypeOK ==
  /\ dest \in [Destinations -> DestinationRow]
  /\ place \in [Places -> PlaceRow]
  /\ point \in [Places -> Destinations \cup {Nobody}]
  /\ backend \in {"memory", "redis"}
  /\ lock \in [Destinations -> Jobs \cup {Nobody}]
  /\ job \in [Jobs -> [kind : {"none", "prepare", "seed", "enrich", "index", "search"},
                       at : {"start", "checking", "locking", "loading", "fetching", "unlocking",
                             "calling", "upserting", "counting", "hydrating", "ready", "done"},
                       dest : Destinations \cup {Nobody}, batch : SUBSET Places,
                       loaded : Counts]]
  /\ owned \in [Destinations -> SUBSET Places]
  /\ lapsed \subseteq Destinations
  /\ \A j \in Jobs : /\ job[j].kind # "none" => job[j].dest \in Destinations
                     /\ job[j].kind = "none" <=> job[j].at \in {"start", "done"}

\* What openspec/specs/destination-prepare/spec.md asks of concurrent prepares: a
\* second scrape never starts while one is in flight.  The code breaks it: the
\* lock may expire under a scrape that is slow, and in Redis another request may
\* get between the GET and the SET.
OneIngestAtATime == \A d \in Destinations : Cardinality(Ingesting(d)) <= 1

\* Where it does hold: a lock that is set is the lock of the ingest, and no ingest
\* deletes the lock of another.  It starts to fail only when a lock expires under
\* its ingest, the cache fails to set one, or another worker gets between the GET
\* and the SET in Redis, and it holds again once the ingests that run by then
\* have ended: no stale lock, and no early delete, outlives them.
ExclusiveIngest ==
  \A d \in Destinations \ lapsed : \A j \in Ingesting(d) : lock[d] = j

\* The readiness counters never promise more than there ever was: each counted
\* place has been a row of the destination (it may since have been taken over by
\* a neighbour), and the enriched and indexed ones have a summary.
CountsAreBacked ==
  \A d \in Destinations :
    LET summaries == Cardinality({p \in owned[d] : place[p].summary})
    IN /\ dest[d].place_count <= Cardinality(owned[d])
       /\ dest[d].enriched_count <= summaries
       /\ dest[d].indexed_count <= summaries

\* Qdrant holds points of enriched places only, under a destination that had the
\* row, in whatever order ingests, enrichments and indexing overlap or die; and a
\* row belongs to no destination of another country than it is tagged with.
IndexIsBacked ==
  \A p \in Places :
    /\ point[p] # Nobody => place[p].summary /\ p \in owned[point[p]]
    /\ place[p].dest # Nobody => Tagged[p] \in {Nobody, dest[place[p].dest].country}

\* The planner's search never leaves the country, and never offers a place that
\* has always been another destination's next to one of its own: it offers its
\* hits, which were its own when they were indexed, or its own rows, or strangers.
\* (Own rows near the base may be missing even then: the LIMIT may cut them off.)
SearchIsScoped ==
  [][\A j \in Jobs :
       IsAt(j, "search", "hydrating") /\ job'[j].at = "ready" =>
         LET d == job[j].dest
         IN \A p \in job'[j].batch :
              /\ dest[place[p].dest].country = dest[d].country
              /\ \/ p \in owned[d]
                 \/ job'[j].batch \cap Rows(d) = {}]_vars

\* No lock outlives its ingest, whether that succeeds, fails, or is gone with the
\* server: a destination is locked out of prepare only until the TTL, only with
\* Redis, and only when a delete failed or the server died.
LocksAreOfIngests ==
  \A d \in Destinations : lock[d] # Nobody =>
    \/ lock[d] \in Ingesting(d)
    \/ backend = "redis" /\ job[lock[d]].at = "done"
=============================================================================
