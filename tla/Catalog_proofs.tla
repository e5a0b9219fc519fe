--------------------------- MODULE Catalog_proofs ---------------------------
(***************************************************************************)
(* Proofs about Catalog, for every set of jobs, destinations and places.   *)
(***************************************************************************)
EXTENDS Catalog, FiniteSetTheorems, TLAPS

Kinds == {"none", "prepare", "seed", "enrich", "index", "search"}
Ats == {"start", "checking", "locking", "loading", "fetching", "unlocking",
        "calling", "upserting", "counting", "hydrating", "ready", "done"}
JobRow == [kind : Kinds, at : Ats, dest : Destinations \cup {Nobody}, batch : SUBSET Places,
           loaded : Counts]

JobOK(j) ==
  /\ job[j].kind # "none" => job[j].dest \in Destinations
  /\ job[j].kind = "none" <=> job[j].at \in {"start", "done"}

\* The places a job works on: what it indexes has a summary, and that and what
\* it found has been a row of its destination.
BatchOK(j) ==
  /\ IsAt(j, "index", "upserting") =>
       \A p \in job[j].batch : place[p].summary /\ p \in owned[job[j].dest]
  /\ IsAt(j, "search", "hydrating") => job[j].batch \subseteq owned[job[j].dest]
BatchesOK == \A j \in Jobs : BatchOK(j)

RowsOwned == \A d \in Destinations : Rows(d) \subseteq owned[d]

IInv ==
  /\ TypeOK /\ ExclusiveIngest /\ LocksAreOfIngests
  /\ BatchesOK /\ RowsOwned /\ CountsAreBacked /\ IndexIsBacked

(***************************************************************************)
(* Counts                                                                  *)
(***************************************************************************)
LEMMA CountOf ==
  ASSUME NEW S \in SUBSET Places, NEW T \in SUBSET S
  PROVE  Cardinality(T) \in Counts /\ Cardinality(S) \in Counts /\ Cardinality(T) <= Cardinality(S)
<1>1. IsFiniteSet(Places)
  BY CatalogAssumption
<1>2. IsFiniteSet(S) /\ IsFiniteSet(T)
  BY <1>1, FS_Subset
<1>3. /\ Cardinality(S) \in Nat /\ Cardinality(T) \in Nat /\ Cardinality(Places) \in Nat
      /\ Cardinality(S) <= Cardinality(Places) /\ Cardinality(T) <= Cardinality(S)
  BY <1>1, <1>2, FS_Subset, FS_CardinalityType
<1> QED BY <1>3 DEF Counts

LEMMA ZeroCounts == 0 \in Counts /\ Counts \subseteq Nat
<1>1. Cardinality(Places) \in Nat
  BY CatalogAssumption, FS_CardinalityType
<1> QED BY <1>1 DEF Counts

(***************************************************************************)
(* The steps, by the stores they write                                     *)
(***************************************************************************)
\* A job goes on, and nothing else changes.
LEMMA Moves ==
  ASSUME TypeOK, NEW j \in Jobs
  PROVE  /\ \A at \in Ats \ {"start", "done"} :
              Goto(j, at) /\ job[j].kind # "none" =>
                 /\ job' \in [Jobs -> JobRow]
                 /\ job'[j].kind = job[j].kind /\ job'[j].at = at /\ job'[j].dest = job[j].dest
                 /\ job'[j].batch = job[j].batch
                 /\ JobOK(j)'
                 /\ \A i \in Jobs \ {j} : job'[i] = job[i]
         /\ End(j) => /\ job' \in [Jobs -> JobRow]
                      /\ job'[j].kind = "none" /\ job'[j].at = "done"
                      /\ JobOK(j)'
                      /\ \A i \in Jobs \ {j} : job'[i] = job[i]
<1>1. job \in [Jobs -> JobRow] /\ job[j] \in JobRow /\ JobOK(j)
  BY DEF TypeOK, JobRow, Kinds, Ats, JobOK
<1>2. ASSUME NEW at \in Ats \ {"start", "done"}, Goto(j, at), job[j].kind # "none"
      PROVE  /\ job' \in [Jobs -> JobRow]
             /\ job'[j].kind = job[j].kind /\ job'[j].at = at /\ job'[j].dest = job[j].dest
             /\ job'[j].batch = job[j].batch
             /\ JobOK(j)'
             /\ \A i \in Jobs \ {j} : job'[i] = job[i]
  <2>1. job' = [job EXCEPT ![j] = [@ EXCEPT !.at = at]]
    BY <1>2 DEF Goto
  <2>2. [job[j] EXCEPT !.at = at] \in JobRow
    BY <1>1 DEF JobRow
  <2>3. /\ [job[j] EXCEPT !.at = at].kind = job[j].kind /\ [job[j] EXCEPT !.at = at].at = at
        /\ [job[j] EXCEPT !.at = at].dest = job[j].dest
        /\ [job[j] EXCEPT !.at = at].batch = job[j].batch
    BY <1>1 DEF JobRow
  <2> QED BY <1>1, <1>2, <2>1, <2>2, <2>3 DEF JobOK
<1>3. ASSUME End(j)
      PROVE  /\ job' \in [Jobs -> JobRow]
             /\ job'[j].kind = "none" /\ job'[j].at = "done"
             /\ JobOK(j)'
             /\ \A i \in Jobs \ {j} : job'[i] = job[i]
  <2>1. [NoJob EXCEPT !.at = "done"] \in JobRow
    BY ZeroCounts DEF NoJob, JobRow, Kinds, Ats
  <2>2. [NoJob EXCEPT !.at = "done"].kind = "none" /\ [NoJob EXCEPT !.at = "done"].at = "done"
    BY DEF NoJob
  <2> QED BY <1>1, <1>3, <2>1, <2>2 DEF End, JobOK
<1> QED BY <1>2, <1>3

LEMMA Begins ==
  ASSUME TypeOK, NEW j \in Jobs, NEW kind \in Kinds \ {"none"}, NEW d \in Destinations,
         NEW at \in Ats \ {"start", "done"}, NEW batch \in SUBSET Places, Begin(j, kind, d, at, batch)
  PROVE  /\ job[j].at = "start"
         /\ job' \in [Jobs -> JobRow]
         /\ job'[j].kind = kind /\ job'[j].at = at /\ job'[j].dest = d /\ job'[j].batch = batch
         /\ JobOK(j)'
         /\ \A i \in Jobs \ {j} : job'[i] = job[i]
<1>1. job \in [Jobs -> JobRow] /\ dest[d].place_count \in Counts
  BY DEF TypeOK, JobRow, Kinds, Ats, DestinationRow
<1>2. [kind |-> kind, at |-> at, dest |-> d, batch |-> batch, loaded |-> dest[d].place_count] \in JobRow
  BY <1>1 DEF JobRow
<1> QED BY <1>1, <1>2, CatalogAssumption DEF Begin, JobOK

\* The steps that leave the tables and the index alone.
LEMMA Steps ==
  ASSUME Next
  PROVE  \/ UNCHANGED <<dest, place, point, owned>>
         \/ \E j \in Jobs : IngestCommits(j) \/ EnrichCommits(j) \/ IndexUpserts(j) \/ IndexCommits(j)
BY DEF Next, Step, Arrives, Prepares, Ingests, Enriches, PrepareReady, PrepareLoads, SeedLoads,
   EnrichSelects, IndexSelects, SearchQueries, PrepareInFlight, PrepareStarts,
   PrepareFindsNoLock, PrepareLocks, IngestLoads, IngestFails, IngestUnlocks, SearchLoads, Killed,
   LockExpires, Restart

\* What an ingest commits: the rows of its successes, and perhaps their number.
LEMMA IngestWrites ==
  ASSUME TypeOK, NEW j \in Jobs, IngestCommits(j)
  PROVE  /\ job[j].dest \in Destinations
         /\ \E S \in SUBSET Allowed(job[j].dest), n \in Counts :
              /\ place' = [p \in Places |-> IF p \in S THEN Upserted(p, job[j].dest) ELSE place[p]]
              /\ owned' = [owned EXCEPT ![job[j].dest] = @ \cup S]
              /\ dest' = [dest EXCEPT ![job[j].dest] = [@ EXCEPT !.place_count = n]]
              /\ n = dest[job[j].dest].place_count \/ n = Cardinality(S)
         /\ UNCHANGED <<point, backend, lock, lapsed>>
<1> DEFINE d == job[j].dest
<1>1. d \in Destinations
  BY DEF IngestCommits, TypeOK
<1>2. PICK S \in SUBSET Allowed(d) :
        /\ place' = [p \in Places |-> IF p \in S THEN Upserted(p, d) ELSE place[p]]
        /\ owned' = [owned EXCEPT ![d] = @ \cup S]
        /\ dest' = IF Cardinality(S) = job[j].loaded THEN dest
                   ELSE [dest EXCEPT ![d].place_count = Cardinality(S)]
  BY DEF IngestCommits, SuccessCount, Allowed
<1>3. S \in SUBSET Allowed(d) /\ S \in SUBSET Places
  BY <1>2 DEF Allowed
<1>4. Cardinality(S) \in Counts /\ dest[d].place_count \in Counts
  BY <1>1, <1>3, CountOf DEF TypeOK, DestinationRow
<1>5. CASE dest' = dest
  <2>1. dest' = [dest EXCEPT ![d] = [@ EXCEPT !.place_count = dest[d].place_count]]
    BY <1>1, <1>5 DEF TypeOK, DestinationRow
  <2> QED BY <1>1, <1>2, <1>3, <1>4, <2>1 DEF IngestCommits
<1>6. CASE dest' = [dest EXCEPT ![d].place_count = Cardinality(S)]
  <2>1. dest' = [dest EXCEPT ![d] = [@ EXCEPT !.place_count = Cardinality(S)]]
    BY <1>6
  <2> QED BY <1>1, <1>2, <1>3, <1>4, <2>1 DEF IngestCommits
<1> QED BY <1>2, <1>5, <1>6

\* What enriching commits: summaries, and the number of the rows that have one.
LEMMA EnrichWrites ==
  ASSUME TypeOK, NEW j \in Jobs, EnrichCommits(j)
  PROVE  /\ job[j].dest \in Destinations
         /\ \E S \in SUBSET Places :
              /\ place' = [p \in Places |-> IF p \in S THEN [place[p] EXCEPT !.summary = TRUE] ELSE place[p]]
              /\ dest' = [dest EXCEPT ![job[j].dest] = [@ EXCEPT !.enriched_count =
                            Cardinality(Enriched(job[j].dest) \cup (S \cap Rows(job[j].dest)))]]
         /\ UNCHANGED <<point, backend, lock, owned, lapsed>>
<1>1. job[j].kind = "enrich" /\ job[j].dest \in Destinations /\ job[j].batch \in SUBSET Places
  BY DEF EnrichCommits, IsAt, TypeOK
<1> QED BY <1>1 DEF EnrichCommits, Parsed

LEMMA IndexWrites ==
  ASSUME TypeOK, NEW j \in Jobs, IndexUpserts(j)
  PROVE  /\ job[j].dest \in Destinations
         /\ \E S \in SUBSET job[j].batch :
              point' = [p \in Places |-> IF p \in S THEN job[j].dest ELSE point[p]]
         /\ UNCHANGED <<dest, place, backend, lock, owned, lapsed>>
<1>1. job[j].kind = "index" /\ job[j].dest \in Destinations /\ job[j].batch \in SUBSET Places
  BY DEF IndexUpserts, IsAt, TypeOK
<1> QED BY <1>1 DEF IndexUpserts, Embedded, Upserts

LEMMA IndexCounts ==
  ASSUME TypeOK, NEW j \in Jobs, IndexCommits(j)
  PROVE  /\ job[j].dest \in Destinations
         /\ \E n \in {0, Cardinality(Indexed(job[j].dest))} :
              dest' = [dest EXCEPT ![job[j].dest] = [@ EXCEPT !.indexed_count = n]]
         /\ UNCHANGED <<place, point, backend, lock, owned, lapsed>>
<1>1. job[j].kind = "index" /\ job[j].dest \in Destinations
  BY DEF IndexCommits, IsAt, TypeOK
<1> QED BY <1>1 DEF IndexCommits, CountIndexed

\* Places that were rows stay remembered, summaries stay, countries do not change.
LEMMA StoresGrow ==
  ASSUME TypeOK, Next
  PROVE  /\ dest' \in [Destinations -> DestinationRow]
         /\ place' \in [Places -> PlaceRow]
         /\ point' \in [Places -> Destinations \cup {Nobody}]
         /\ owned' \in [Destinations -> SUBSET Places]
         /\ \A d \in Destinations : owned[d] \subseteq owned'[d] /\ dest'[d].country = dest[d].country
         /\ \A p \in Places : place[p].summary => place'[p].summary
<1>0. /\ dest \in [Destinations -> DestinationRow] /\ place \in [Places -> PlaceRow]
      /\ point \in [Places -> Destinations \cup {Nobody}] /\ owned \in [Destinations -> SUBSET Places]
  BY DEF TypeOK
<1>1. CASE UNCHANGED <<dest, place, point, owned>>
  BY <1>0, <1>1
<1>2. ASSUME NEW j \in Jobs, IngestCommits(j)
      PROVE  /\ dest' \in [Destinations -> DestinationRow]
             /\ place' \in [Places -> PlaceRow]
             /\ point' \in [Places -> Destinations \cup {Nobody}]
             /\ owned' \in [Destinations -> SUBSET Places]
             /\ \A d \in Destinations : owned[d] \subseteq owned'[d] /\ dest'[d].country = dest[d].country
             /\ \A p \in Places : place[p].summary => place'[p].summary
  <2> DEFINE d == job[j].dest
  <2>1. PICK S \in SUBSET Allowed(d), n \in Counts :
          /\ place' = [p \in Places |-> IF p \in S THEN Upserted(p, d) ELSE place[p]]
          /\ owned' = [owned EXCEPT ![d] = @ \cup S]
          /\ dest' = [dest EXCEPT ![d] = [@ EXCEPT !.place_count = n]]
          /\ n = dest[d].place_count \/ n = Cardinality(S)
    BY <1>2, IngestWrites
  <2>2. d \in Destinations /\ UNCHANGED point /\ S \in SUBSET Places
    BY <1>2, IngestWrites DEF Allowed
  <2>3. \A p \in Places : Upserted(p, d) \in PlaceRow /\ Upserted(p, d).summary = place[p].summary
    BY <1>0, <2>2 DEF Upserted, PlaceRow
  <2>4. [dest[d] EXCEPT !.place_count = n] \in DestinationRow
        /\ [dest[d] EXCEPT !.place_count = n].country = dest[d].country
    BY <1>0, <2>1, <2>2 DEF DestinationRow
  <2> QED BY <1>0, <2>1, <2>2, <2>3, <2>4
<1>3. ASSUME NEW j \in Jobs, EnrichCommits(j)
      PROVE  /\ dest' \in [Destinations -> DestinationRow]
             /\ place' \in [Places -> PlaceRow]
             /\ UNCHANGED <<point, owned>>
             /\ \A d \in Destinations : dest'[d].country = dest[d].country
             /\ \A p \in Places : place[p].summary => place'[p].summary
  <2> DEFINE d == job[j].dest
             n(S) == Cardinality(Enriched(d) \cup (S \cap Rows(d)))
  <2>1. PICK S \in SUBSET Places :
          /\ place' = [p \in Places |-> IF p \in S THEN [place[p] EXCEPT !.summary = TRUE] ELSE place[p]]
          /\ dest' = [dest EXCEPT ![d] = [@ EXCEPT !.enriched_count = n(S)]]
    BY <1>3, EnrichWrites
  <2>2. d \in Destinations /\ UNCHANGED <<point, owned>>
    BY <1>3, EnrichWrites
  <2>3. \A p \in Places : /\ [place[p] EXCEPT !.summary = TRUE] \in PlaceRow
                          /\ [place[p] EXCEPT !.summary = TRUE].summary = TRUE
    BY <1>0 DEF PlaceRow
  <2>4. n(S) \in Counts
    <3>1. Enriched(d) \cup (S \cap Rows(d)) \in SUBSET Places
      BY DEF Enriched, Rows
    <3> QED BY <3>1, CountOf
  <2>5. [dest[d] EXCEPT !.enriched_count = n(S)] \in DestinationRow
        /\ [dest[d] EXCEPT !.enriched_count = n(S)].country = dest[d].country
    BY <1>0, <2>2, <2>4 DEF DestinationRow
  <2>6. place' \in [Places -> PlaceRow] /\ \A p \in Places : place[p].summary => place'[p].summary
    BY <1>0, <2>1, <2>3
  <2> HIDE DEF n
  <2> QED BY <1>0, <2>1, <2>2, <2>5, <2>6
<1>4. ASSUME NEW j \in Jobs, IndexUpserts(j)
      PROVE  point' \in [Places -> Destinations \cup {Nobody}] /\ UNCHANGED <<dest, place, owned>>
  BY <1>0, <1>4, IndexWrites
<1>5. ASSUME NEW j \in Jobs, IndexCommits(j)
      PROVE  /\ dest' \in [Destinations -> DestinationRow]
             /\ UNCHANGED <<place, point, owned>>
             /\ \A d \in Destinations : dest'[d].country = dest[d].country
  <2> DEFINE d == job[j].dest
  <2>1. PICK n \in {0, Cardinality(Indexed(d))} :
          dest' = [dest EXCEPT ![d] = [@ EXCEPT !.indexed_count = n]]
    BY <1>5, IndexCounts
  <2>2. d \in Destinations /\ UNCHANGED <<place, point, owned>>
    BY <1>5, IndexCounts
  <2>3. n \in Counts
    <3>1. Indexed(d) \in SUBSET Places
      BY DEF Indexed
    <3> QED BY <2>1, <3>1, CountOf, ZeroCounts
  <2>4. [dest[d] EXCEPT !.indexed_count = n] \in DestinationRow
        /\ [dest[d] EXCEPT !.indexed_count = n].country = dest[d].country
    BY <1>0, <2>2, <2>3 DEF DestinationRow
  <2> QED BY <1>0, <2>1, <2>2, <2>4
<1> QED BY <1>0, <1>1, <1>2, <1>3, <1>4, <1>5, Steps

(***************************************************************************)
(* Jobs                                                                    *)
(***************************************************************************)
\* What a step may make of a job: it works on rows only if it did before or has
\* just selected them, and ingests only if it did or has just set the lock.
JobStepOK(i) ==
  /\ IsAt(i, "index", "upserting")' => job'[i] = job[i] \/ \E d \in Destinations : IndexSelects(i, d)
  /\ IsAt(i, "search", "hydrating")' => job'[i] = job[i] \/ \E d \in Destinations : SearchQueries(i, d)
  /\ \A d \in Destinations :
       i \in Ingesting(d)' => \/ i \in Ingesting(d)
                              \/ job[i].dest = d /\ (PrepareStarts(i) \/ PrepareLocks(i))

JobsTo(j) ==
  /\ job' \in [Jobs -> JobRow] /\ JobOK(j)' /\ JobStepOK(j)
  /\ \A i \in Jobs \ {j} : job'[i] = job[i]

LEMMA JobArrives ==
  ASSUME TypeOK, NEW j \in Jobs, NEW d \in Destinations, Arrives(j, d)
  PROVE  JobsTo(j)
<1>0. /\ Kinds \ {"none"} = {"prepare", "seed", "enrich", "index", "search"}
      /\ {"ready", "checking", "fetching", "calling", "upserting", "hydrating"} \subseteq Ats \ {"start", "done"}
      /\ {} \in SUBSET Places
  BY DEF Kinds, Ats
<1>1. CASE IndexSelects(j, d)
  <2>1. Begin(j, "index", d, "upserting", Enriched(d)) /\ Enriched(d) \in SUBSET Places
    BY <1>1 DEF IndexSelects, ToIndex, Enriched, Rows
  <2> QED BY <1>0, <1>1, <2>1, Begins DEF JobsTo, JobStepOK, IsAt, Ingesting
<1>2. CASE SearchQueries(j, d)
  <2>1. PICK hits \in Hits(d) : Begin(j, "search", d, "hydrating", hits)
    BY <1>2 DEF SearchQueries
  <2>2. hits \in SUBSET Places
    BY DEF Hits, Indexed
  <2> QED BY <1>0, <1>2, <2>1, <2>2, Begins DEF JobsTo, JobStepOK, IsAt, Ingesting
<1>3. ASSUME NEW kind \in {"prepare", "seed", "enrich"}, NEW at \in {"ready", "checking", "fetching", "calling"},
             NEW batch \in SUBSET Places, Begin(j, kind, d, at, batch),
             kind = "prepare" => at \in {"ready", "checking"}
      PROVE  JobsTo(j)
  BY <1>0, <1>3, Begins DEF JobsTo, JobStepOK, IsAt, Ingesting
<1>4. Rows(d) \ Enriched(d) \in SUBSET Places
  BY DEF Rows
<1> QED BY <1>0, <1>1, <1>2, <1>3, <1>4
       DEF Arrives, PrepareReady, PrepareLoads, SeedLoads, EnrichSelects

LEMMA JobGoesOn ==
  ASSUME TypeOK, NEW j \in Jobs,
         \/ Prepares(j) \/ Ingests(j) \/ Enriches(j) \/ SearchLoads(j) \/ Killed(j)
  PROVE  JobsTo(j)
<1>0. job \in [Jobs -> JobRow] /\ job[j] \in JobRow /\ JobOK(j)
  BY DEF TypeOK, JobRow, Kinds, Ats, JobOK
<1>1. CASE End(j)
  BY <1>1, Moves DEF JobsTo, JobStepOK, IsAt, Ingesting
<1>2. ASSUME NEW at \in Ats \ {"start", "done", "upserting", "hydrating"}, Goto(j, at),
             job[j].kind # "none",
             /\ at \in {"loading", "fetching", "unlocking"} /\ job[j].kind = "prepare"
             => \/ job[j].at \in {"loading", "fetching", "unlocking"}
                \/ PrepareStarts(j) \/ PrepareLocks(j)
      PROVE  JobsTo(j)
  BY <1>0, <1>2, Moves DEF JobsTo, JobStepOK, IsAt, Ingesting
<1>3. {"locking", "loading", "unlocking", "counting"} \subseteq Ats \ {"start", "done", "upserting", "hydrating"}
  BY DEF Ats
<1>4. CASE PrepareInFlight(j) \/ IngestUnlocks(j) \/ EnrichCommits(j) \/ IndexCommits(j) \/ Killed(j)
  BY <1>1, <1>4 DEF PrepareInFlight, IngestUnlocks, EnrichCommits, IndexCommits, Killed
<1>5. CASE PrepareStarts(j)
  BY <1>2, <1>3, <1>5 DEF PrepareStarts, IsAt
<1>6. CASE PrepareLocks(j)
  BY <1>2, <1>3, <1>6 DEF PrepareLocks, IsAt
<1>7. CASE PrepareFindsNoLock(j)
  BY <1>2, <1>3, <1>7 DEF PrepareFindsNoLock, IsAt
<1>8. CASE IngestCommits(j) \/ IngestFails(j)
  BY <1>1, <1>2, <1>3, <1>8 DEF IngestCommits, IngestFails, Finish
<1>9. CASE IndexUpserts(j)
  BY <1>2, <1>3, <1>9 DEF IndexUpserts, IsAt
<1>10. CASE IngestLoads(j)
  <2> DEFINE n == dest[job[j].dest].place_count
             row == [job[j] EXCEPT !.at = "fetching", !.loaded = n]
  <2>1. job[j].kind = "prepare" /\ job[j].at = "loading" /\ job[j].dest \in Destinations
    BY <1>0, <1>10 DEF IngestLoads, IsAt, JobOK
  <2>2. n \in Counts
    BY <2>1 DEF TypeOK, DestinationRow
  <2>3. row \in JobRow /\ row.kind = "prepare" /\ row.at = "fetching" /\ row.dest = job[j].dest
    BY <1>0, <2>1, <2>2 DEF JobRow, Ats
  <2>4. job' = [job EXCEPT ![j] = row]
    BY <1>10 DEF IngestLoads
  <2>5. job'[j] = row
    BY <1>0, <2>4
  <2>6. JobOK(j)' /\ JobStepOK(j)
    BY <2>1, <2>3, <2>5 DEF JobOK, JobStepOK, IsAt, Ingesting
  <2> QED BY <1>0, <2>3, <2>4, <2>6 DEF JobsTo
<1>11. CASE SearchLoads(j)
  <2>1. PICK limit \in Limits : \E n \in WithinRadius(limit) :
          job' = [job EXCEPT ![j] = [@ EXCEPT !.at = "ready",
                                              !.batch = Found(job[j].dest, job[j].batch, n)]]
    BY <1>11 DEF SearchLoads
  <2>8. PICK near \in WithinRadius(limit) :
          job' = [job EXCEPT ![j] = [@ EXCEPT !.at = "ready",
                                              !.batch = Found(job[j].dest, job[j].batch, near)]]
    BY <2>1
  <2> DEFINE found == Found(job[j].dest, job[j].batch, near)
             row == [job[j] EXCEPT !.at = "ready", !.batch = found]
  <2>2. job[j].kind = "search" /\ job[j].dest \in Destinations
    BY <1>0, <1>11 DEF SearchLoads, IsAt, JobOK
  <2>3. found \in SUBSET Places
    BY <1>0 DEF Found, SameCountry, WithinRadius, Rows, JobRow
  <2>4. row \in JobRow /\ row.kind = "search" /\ row.at = "ready" /\ row.dest = job[j].dest
    BY <1>0, <2>2, <2>3 DEF JobRow, Ats
  <2>5. job' = [job EXCEPT ![j] = row]
    BY <2>8
  <2>6. job'[j] = row
    BY <1>0, <2>5
  <2>7. JobOK(j)' /\ JobStepOK(j)
    BY <2>2, <2>4, <2>6 DEF JobOK, JobStepOK, IsAt, Ingesting
  <2> QED BY <1>0, <2>4, <2>5, <2>7 DEF JobsTo
<1> QED BY <1>4, <1>5, <1>6, <1>7, <1>8, <1>9, <1>10, <1>11 DEF Prepares, Ingests, Enriches

LEMMA JobsStep ==
  ASSUME TypeOK, Next
  PROVE  /\ job' \in [Jobs -> JobRow]
         /\ \A i \in Jobs : JobOK(i)' /\ JobStepOK(i)
<1>0. job \in [Jobs -> JobRow] /\ \A i \in Jobs : JobOK(i)
  BY DEF TypeOK, JobRow, Kinds, Ats, JobOK
<1>1. ASSUME NEW i \in Jobs, job'[i] = job[i] PROVE JobOK(i)' /\ JobStepOK(i)
  BY <1>0, <1>1 DEF JobOK, JobStepOK, IsAt, Ingesting
<1>2. ASSUME NEW j \in Jobs, JobsTo(j)
      PROVE  /\ job' \in [Jobs -> JobRow]
             /\ \A i \in Jobs : JobOK(i)' /\ JobStepOK(i)
  BY <1>1, <1>2 DEF JobsTo
<1>3. CASE UNCHANGED job
  BY <1>0, <1>1, <1>3
<1>4. CASE Restart
  <2> DEFINE gone == [NoJob EXCEPT !.at = "done"]
  <2>1. gone \in JobRow /\ gone.kind = "none" /\ gone.at = "done"
    BY ZeroCounts DEF NoJob, JobRow, Kinds, Ats
  <2>2. \A i \in Jobs : job'[i] = gone \/ job'[i] = job[i]
    BY <1>4 DEF Restart
  <2>3. job' \in [Jobs -> JobRow]
    BY <1>0, <1>4, <2>1 DEF Restart
  <2>4. ASSUME NEW i \in Jobs, job'[i] = gone PROVE JobOK(i)' /\ JobStepOK(i)
    BY <2>1, <2>4 DEF JobOK, JobStepOK, IsAt, Ingesting
  <2> QED BY <1>1, <2>2, <2>3, <2>4
<1> QED BY <1>2, <1>3, <1>4, JobArrives, JobGoesOn DEF Next, Step, LockExpires

(***************************************************************************)
(* Types and locks                                                         *)
(***************************************************************************)
LEMMA TypeStep ==
  ASSUME TypeOK, Next
  PROVE  TypeOK'
<1>1. job' \in [Jobs -> [kind : {"none", "prepare", "seed", "enrich", "index", "search"},
                         at : {"start", "checking", "locking", "loading", "fetching", "unlocking",
                               "calling", "upserting", "counting", "hydrating", "ready", "done"},
                         dest : Destinations \cup {Nobody}, batch : SUBSET Places,
                         loaded : Counts]]
  BY JobsStep DEF JobRow, Kinds, Ats
<1>2. \A j \in Jobs : /\ job'[j].kind # "none" => job'[j].dest \in Destinations
                      /\ job'[j].kind = "none" <=> job'[j].at \in {"start", "done"}
  BY JobsStep DEF JobOK
<1>3. backend' = backend
  BY DEF Next, Step, Arrives, Prepares, Ingests, Enriches, PrepareReady, PrepareLoads, SeedLoads,
     EnrichSelects, IndexSelects, SearchQueries, PrepareInFlight, PrepareStarts,
     PrepareFindsNoLock, PrepareLocks, IngestLoads, IngestCommits, IngestFails, IngestUnlocks,
     EnrichCommits, IndexUpserts, IndexCommits, SearchLoads, Killed, LockExpires, Restart
<1>4. lock' \in [Destinations -> Jobs \cup {Nobody}] /\ lapsed' \subseteq Destinations
  <2>0. lock \in [Destinations -> Jobs \cup {Nobody}] /\ lapsed \subseteq Destinations
    BY DEF TypeOK
  <2>1. ASSUME NEW j \in Jobs, PrepareStarts(j) \/ PrepareLocks(j) \/ IngestUnlocks(j)
        PROVE  lock' \in [Destinations -> Jobs \cup {Nobody}] /\ lapsed' \subseteq Destinations
    <3>1. job[j].dest \in Destinations
      BY <2>1 DEF PrepareStarts, PrepareLocks, IngestUnlocks, IsAt, TypeOK
    <3> QED BY <2>0, <2>1, <3>1 DEF PrepareStarts, PrepareLocks, IngestUnlocks, Unlapsed
  <2>2. ASSUME NEW d \in Destinations, LockExpires(d)
        PROVE  lock' \in [Destinations -> Jobs \cup {Nobody}] /\ lapsed' \subseteq Destinations
    BY <2>0, <2>2 DEF LockExpires
  <2>3. CASE Restart
    BY <2>0, <2>3 DEF Restart
  <2>4. CASE UNCHANGED <<lock, lapsed>>
    BY <2>0, <2>4
  <2> QED BY <2>1, <2>2, <2>3, <2>4
       DEF Next, Step, Arrives, Prepares, Ingests, Enriches, PrepareReady, PrepareLoads, SeedLoads,
       EnrichSelects, IndexSelects, SearchQueries, PrepareInFlight, PrepareFindsNoLock, IngestLoads,
       IngestCommits, IngestFails, EnrichCommits, IndexUpserts, IndexCommits, SearchLoads, Killed
<1>5. backend' \in {"memory", "redis"}
  BY <1>3 DEF TypeOK
<1> QED BY <1>1, <1>2, <1>4, <1>5, StoresGrow DEF TypeOK

\* The steps that leave the locks alone.
LEMMA LockSteps ==
  ASSUME Next
  PROVE  \/ UNCHANGED <<lock, lapsed>> /\ \A j \in Jobs : ~PrepareStarts(j) /\ ~PrepareLocks(j)
         \/ \E j \in Jobs : PrepareStarts(j) \/ PrepareLocks(j) \/ IngestUnlocks(j)
         \/ \E d \in Destinations : LockExpires(d)
         \/ Restart
<1>1. CASE \E j \in Jobs : PrepareStarts(j) \/ PrepareLocks(j)
  BY <1>1
<1>2. CASE ~\E j \in Jobs : PrepareStarts(j) \/ PrepareLocks(j)
  BY <1>2 DEF Next, Step, Arrives, Prepares, Ingests, Enriches, PrepareReady, PrepareLoads, SeedLoads,
     EnrichSelects, IndexSelects, SearchQueries, PrepareInFlight, PrepareFindsNoLock, IngestLoads,
     IngestCommits, IngestFails, EnrichCommits, IndexUpserts, IndexCommits, SearchLoads, Killed
<1> QED BY <1>1, <1>2

\* An ingest ends by giving up its lock, or with the server; what is done stays so.
LEMMA IngestGoesOn ==
  ASSUME TypeOK, Next, NEW k \in Jobs, NEW d \in Destinations
  PROVE  /\ k \in Ingesting(d) => k \in Ingesting(d)' \/ IngestUnlocks(k) \/ Restart
         /\ job[k].at = "done" => job'[k].at = "done"
<1>0. job \in [Jobs -> JobRow] /\ job[k] \in JobRow /\ JobOK(k)
  BY DEF TypeOK, JobRow, Kinds, Ats, JobOK
<1>1. CASE job'[k] = job[k]
  BY <1>1 DEF Ingesting
<1>2. CASE Restart
  BY <1>0, <1>2 DEF Restart, NoJob
<1>3. ASSUME NEW c \in Destinations, Arrives(k, c) PROVE job[k].at = "start"
  BY <1>3 DEF Arrives, PrepareReady, PrepareLoads, SeedLoads, EnrichSelects, IndexSelects,
     SearchQueries, Begin
<1>4. CASE Prepares(k) \/ Enriches(k) \/ SearchLoads(k) \/ Killed(k)
  <2>1. job[k].at # "done" /\ k \notin Ingesting(d)
    BY <1>0, <1>4 DEF Prepares, Enriches, PrepareInFlight, PrepareStarts, PrepareFindsNoLock,
       PrepareLocks, EnrichCommits, IndexUpserts, IndexCommits, SearchLoads, Killed, IsAt,
       Ingesting, JobOK
  <2> QED BY <2>1
<1>5. CASE Ingests(k)
  <2>1. job[k].at # "done"
    BY <1>5 DEF Ingests, IngestLoads, IngestCommits, IngestFails, IngestUnlocks, IsAt
  <2>2. CASE IngestLoads(k)
    <3>1. job'[k].kind = job[k].kind /\ job'[k].dest = job[k].dest /\ job'[k].at = "fetching"
      BY <1>0, <2>2 DEF IngestLoads, JobRow
    <3> QED BY <2>1, <3>1 DEF Ingesting
  <2>3. CASE IngestCommits(k) \/ IngestFails(k)
    <3>1. ASSUME k \in Ingesting(d) PROVE k \in Ingesting(d)'
      <4>1. job[k].kind = "prepare" /\ Goto(k, "unlocking")
        BY <2>3, <3>1 DEF IngestCommits, IngestFails, Finish, Ingesting
      <4>2. job'[k].kind = "prepare" /\ job'[k].dest = job[k].dest /\ job'[k].at = "unlocking"
        BY <4>1, Moves DEF Ats
      <4> QED BY <3>1, <4>2 DEF Ingesting
    <3> QED BY <2>1, <3>1
  <2> QED BY <1>5, <2>1, <2>2, <2>3 DEF Ingests
<1>6. job'[k] = job[k] \/ Restart \/ Step(k)
  <2>1. ASSUME NEW i \in Jobs, i # k, Step(i) PROVE job'[k] = job[k]
    BY <2>1, JobArrives, JobGoesOn DEF Step, JobsTo
  <2> QED BY <2>1 DEF Next, LockExpires
<1> QED BY <1>1, <1>2, <1>3, <1>4, <1>5, <1>6 DEF Step, Ingesting

\* A lock stays, goes, or is set by an ingest that starts.
LEMMA OwnersStep ==
  ASSUME TypeOK, LocksAreOfIngests, Next
  PROVE  LocksAreOfIngests'
<1> SUFFICES ASSUME NEW d \in Destinations, lock'[d] # Nobody
             PROVE  \/ lock'[d] \in Ingesting(d)'
                    \/ backend' = "redis" /\ job'[lock'[d]].at = "done"
  BY DEF LocksAreOfIngests, Ingesting
<1> DEFINE k == lock'[d]
<1>0. /\ lock \in [Destinations -> Jobs \cup {Nobody}] /\ backend \in {"memory", "redis"}
      /\ backend' = backend /\ k \in Jobs
  <2>1. TypeOK'
    BY TypeStep
  <2>2. backend' = backend
    BY DEF Next, Step, Arrives, Prepares, Ingests, Enriches, PrepareReady, PrepareLoads, SeedLoads,
       EnrichSelects, IndexSelects, SearchQueries, PrepareInFlight, PrepareStarts,
       PrepareFindsNoLock, PrepareLocks, IngestLoads, IngestCommits, IngestFails, IngestUnlocks,
       EnrichCommits, IndexUpserts, IndexCommits, SearchLoads, Killed, LockExpires, Restart
  <2> QED BY <2>1, <2>2 DEF TypeOK
<1>1. CASE lock[d] = k
  <2>1. k \in Ingesting(d) \/ (backend = "redis" /\ job[k].at = "done")
    BY <1>0, <1>1 DEF LocksAreOfIngests
  <2>2. job[k].at = "done" => job'[k].at = "done"
    BY <1>0, IngestGoesOn
  <2>3. CASE k \in Ingesting(d) /\ IngestUnlocks(k)
    <3>1. backend = "redis"
      BY <1>0, <1>1, <2>3, CatalogAssumption DEF IngestUnlocks, Ingesting
    <3>2. job'[k].at = "done"
      BY <1>0, <2>3, Moves DEF IngestUnlocks
    <3> QED BY <1>0, <3>1, <3>2
  <2>4. CASE k \in Ingesting(d) /\ Restart
    <3>1. backend = "redis"
      BY <1>0, <2>4, CatalogAssumption DEF Restart
    <3>2. job'[k].at = "done"
      BY <1>0, <2>4 DEF Restart, Ingesting, NoJob
    <3> QED BY <1>0, <3>1, <3>2
  <2> QED BY <1>0, <2>1, <2>2, <2>3, <2>4, IngestGoesOn
<1>2. CASE lock[d] # k
  <2>1. PICK j \in Jobs : (PrepareStarts(j) \/ PrepareLocks(j)) /\ k = j /\ job[j].dest = d
    <3>1. ASSUME NEW j \in Jobs, IngestUnlocks(j) PROVE FALSE
      BY <1>0, <1>2, <3>1 DEF IngestUnlocks
    <3>2. ASSUME NEW c \in Destinations, LockExpires(c) PROVE FALSE
      BY <1>0, <1>2, <3>2 DEF LockExpires
    <3>3. ~Restart
      BY <1>0, <1>2 DEF Restart
    <3>4. PICK j \in Jobs : PrepareStarts(j) \/ PrepareLocks(j)
      BY <1>2, <3>1, <3>2, <3>3, LockSteps
    <3>5. k = j /\ job[j].dest = d
      BY <1>0, <1>2, <3>4 DEF PrepareStarts, PrepareLocks
    <3> QED BY <3>4, <3>5
  <2>2. Goto(j, "loading") /\ job[j].kind = "prepare"
    BY <2>1 DEF PrepareStarts, PrepareLocks, IsAt
  <2>3. job'[j].kind = "prepare" /\ job'[j].dest = d /\ job'[j].at = "loading"
    BY <2>1, <2>2, Moves DEF Ats
  <2> QED BY <2>1, <2>3 DEF Ingesting
<1> QED BY <1>1, <1>2

LEMMA LocksStep ==
  ASSUME TypeOK, ExclusiveIngest, Next
  PROVE  ExclusiveIngest'
<1> SUFFICES ASSUME NEW d \in Destinations, d \notin lapsed', NEW i \in Jobs, i \in Ingesting(d)'
             PROVE  lock'[d] = i
  BY DEF ExclusiveIngest, Ingesting
<1>0. lock \in [Destinations -> Jobs \cup {Nobody}] /\ \A j \in Jobs : JobStepOK(j)
  BY JobsStep DEF TypeOK
<1>1. CASE UNCHANGED <<lock, lapsed>> /\ \A j \in Jobs : ~PrepareStarts(j) /\ ~PrepareLocks(j)
  <2>1. i \in Ingesting(d)
    BY <1>0, <1>1 DEF JobStepOK
  <2> QED BY <1>1, <2>1 DEF ExclusiveIngest
<1>2. ASSUME NEW j \in Jobs, PrepareStarts(j) \/ PrepareLocks(j)
      PROVE  lock'[d] = i
  <2>0. job[j].dest \in Destinations /\ j # Nobody
    BY <1>2, CatalogAssumption DEF PrepareStarts, PrepareLocks, IsAt, TypeOK
  <2>1. \A k \in Jobs \ {j} : job'[k] = job[k]
    BY <1>2, JobGoesOn DEF Prepares, JobsTo
  <2>2. i # j => i \in Ingesting(d)
    BY <2>1 DEF Ingesting
  <2>3. d \notin lapsed /\ (i # j => lock[d] = i)
    <3>1. d \notin lapsed
      BY <1>2 DEF PrepareStarts, PrepareLocks
    <3> QED BY <2>2, <3>1 DEF ExclusiveIngest
  <2>4. CASE d # job[j].dest
    <3>1. i # j
      <4>1. job'[j].dest = job[j].dest
        <5>1. /\ Goto(j, "loading") /\ job[j].kind # "none"
          BY <1>2 DEF PrepareStarts, PrepareLocks, IsAt
        <5> QED BY <5>1, Moves DEF Ats
      <4> QED BY <2>4, <4>1 DEF Ingesting
    <3>2. lock'[d] = lock[d]
      BY <1>0, <1>2, <2>4 DEF PrepareStarts, PrepareLocks
    <3> QED BY <2>3, <3>1, <3>2
  <2>5. CASE d = job[j].dest /\ PrepareStarts(j)
    <3>1. lock[d] = Nobody /\ lock'[d] = j
      BY <1>0, <2>0, <2>5 DEF PrepareStarts, IsUnlocked
    <3> QED BY <2>3, <3>1, CatalogAssumption
  <2>6. CASE d = job[j].dest /\ PrepareLocks(j)
    <3>1. lock'[d] = j /\ (Ingesting(d) = {} \/ lock[d] = Nobody)
      BY <1>0, <2>0, <2>6 DEF PrepareLocks
    <3>2. i = j
      BY <2>2, <2>3, <3>1, CatalogAssumption
    <3> QED BY <3>1, <3>2
  <2> QED BY <1>2, <2>4, <2>5, <2>6
<1>3. ASSUME NEW j \in Jobs, IngestUnlocks(j)
      PROVE  lock'[d] = i
  <2>0. job[j].kind = "prepare" /\ job[j].at = "unlocking" /\ job[j].dest \in Destinations
    BY <1>3 DEF IngestUnlocks, IsAt, TypeOK
  <2>1. job'[j].kind = "none" /\ \A k \in Jobs \ {j} : job'[k] = job[k]
    BY <1>3, Moves DEF IngestUnlocks
  <2>2. i # j /\ i \in Ingesting(d)
    BY <2>1 DEF Ingesting
  <2>3. j \in Ingesting(job[j].dest)
    BY <2>0 DEF Ingesting
  <2>4. d \notin lapsed
    BY <1>3, <2>2 DEF IngestUnlocks, Unlapsed
  <2>5. lock[d] = i
    BY <2>2, <2>4 DEF ExclusiveIngest
  <2>6. d # job[j].dest
    BY <2>2, <2>3, <2>4, <2>5 DEF ExclusiveIngest
  <2>7. lock'[d] = lock[d]
    BY <1>0, <1>3, <2>6 DEF IngestUnlocks
  <2> QED BY <2>5, <2>7
<1>4. ASSUME NEW c \in Destinations, LockExpires(c)
      PROVE  lock'[d] = i
  <2>1. i \in Ingesting(d)
    BY <1>4 DEF LockExpires, Ingesting
  <2>2. d # c /\ d \notin lapsed
    BY <1>4, <2>1 DEF LockExpires
  <2>3. lock'[d] = lock[d]
    BY <1>0, <1>4, <2>2 DEF LockExpires
  <2> QED BY <2>1, <2>2, <2>3 DEF ExclusiveIngest
<1>5. CASE Restart
  <2>1. job'[i].kind # "prepare"
    BY <1>5 DEF Restart, NoJob
  <2> QED BY <2>1 DEF Ingesting
<1> QED BY <1>1, <1>2, <1>3, <1>4, <1>5, LockSteps

(***************************************************************************)
(* Rows, points and counts                                                 *)
(***************************************************************************)
LEMMA RowsStep ==
  ASSUME TypeOK, RowsOwned, Next
  PROVE  RowsOwned'
<1> SUFFICES ASSUME NEW d \in Destinations, NEW p \in Places, place'[p].dest = d PROVE p \in owned'[d]
  BY DEF RowsOwned, Rows
<1>0. place[p].dest = d => p \in owned[d] /\ p \in owned'[d]
  BY StoresGrow DEF RowsOwned, Rows
<1>1. CASE UNCHANGED <<dest, place, point, owned>>
  BY <1>0, <1>1
<1>2. ASSUME NEW j \in Jobs, IngestCommits(j) PROVE p \in owned'[d]
  <2>1. PICK S \in SUBSET Allowed(job[j].dest), n \in Counts :
          /\ place' = [q \in Places |-> IF q \in S THEN Upserted(q, job[j].dest) ELSE place[q]]
          /\ owned' = [owned EXCEPT ![job[j].dest] = @ \cup S]
          /\ dest' = [dest EXCEPT ![job[j].dest] = [@ EXCEPT !.place_count = n]]
          /\ n = dest[job[j].dest].place_count \/ n = Cardinality(S)
    BY <1>2, IngestWrites
  <2>2. CASE p \notin S
    BY <1>0, <2>1, <2>2
  <2>3. CASE p \in S
    <3>1. d = job[j].dest
      BY <2>1, <2>3 DEF Upserted, TypeOK, PlaceRow
    <3> QED BY <2>1, <2>3, <3>1 DEF TypeOK
  <2> QED BY <2>2, <2>3
<1>3. ASSUME NEW j \in Jobs, EnrichCommits(j) PROVE p \in owned'[d]
  <2>1. PICK S \in SUBSET Places :
          place' = [q \in Places |-> IF q \in S THEN [place[q] EXCEPT !.summary = TRUE] ELSE place[q]]
    BY <1>3, EnrichWrites
  <2>2. place'[p].dest = place[p].dest
    BY <2>1 DEF TypeOK, PlaceRow
  <2> QED BY <1>0, <2>2
<1>4. ASSUME NEW j \in Jobs, IndexUpserts(j) \/ IndexCommits(j) PROVE p \in owned'[d]
  BY <1>0, <1>4, IndexWrites, IndexCounts
<1> QED BY <1>1, <1>2, <1>3, <1>4, Steps

LEMMA IndexStep ==
  ASSUME TypeOK, IndexIsBacked, BatchesOK, Next
  PROVE  IndexIsBacked'
<1> SUFFICES ASSUME NEW p \in Places
             PROVE  /\ point'[p] # Nobody => place'[p].summary /\ p \in owned'[point'[p]]
                    /\ place'[p].dest # Nobody =>
                         Tagged[p] \in {Nobody, dest'[place'[p].dest].country}
  BY DEF IndexIsBacked
<1>0. /\ dest \in [Destinations -> DestinationRow] /\ place \in [Places -> PlaceRow]
      /\ point \in [Places -> Destinations \cup {Nobody}]
      /\ place[p].dest \in Destinations \cup {Nobody}
      /\ point[p] # Nobody => place[p].summary /\ p \in owned[point[p]]
      /\ place[p].dest # Nobody => Tagged[p] \in {Nobody, dest[place[p].dest].country}
  BY DEF TypeOK, PlaceRow, IndexIsBacked
<1>1. point'[p] = point[p] /\ point[p] # Nobody => place'[p].summary /\ p \in owned'[point'[p]]
  BY <1>0, StoresGrow
<1>2. place'[p].dest = place[p].dest /\ place[p].dest # Nobody =>
        Tagged[p] \in {Nobody, dest'[place'[p].dest].country}
  BY <1>0, StoresGrow
<1>3. point' = point \/ \E j \in Jobs : IndexUpserts(j)
  BY Steps, IngestWrites, EnrichWrites, IndexCounts
<1>4. place'[p].dest = place[p].dest \/ \E j \in Jobs : IngestCommits(j)
  <2>1. ASSUME NEW j \in Jobs, EnrichCommits(j) PROVE place'[p].dest = place[p].dest
    <3>1. PICK S \in SUBSET Places :
            place' = [q \in Places |-> IF q \in S THEN [place[q] EXCEPT !.summary = TRUE] ELSE place[q]]
      BY <2>1, EnrichWrites
    <3> QED BY <1>0, <3>1 DEF PlaceRow
  <2> QED BY <2>1, Steps, IndexWrites, IndexCounts
<1>5. ASSUME NEW j \in Jobs, IndexUpserts(j), point'[p] # point[p]
      PROVE  place'[p].summary /\ p \in owned'[point'[p]]
  <2>1. PICK S \in SUBSET job[j].batch :
          point' = [q \in Places |-> IF q \in S THEN job[j].dest ELSE point[q]]
    BY <1>5, IndexWrites
  <2>2. p \in job[j].batch /\ point'[p] = job[j].dest
    BY <1>5, <2>1
  <2>3. place[p].summary /\ p \in owned[job[j].dest]
    BY <1>5, <2>2 DEF BatchesOK, BatchOK, IndexUpserts
  <2> QED BY <1>5, <2>2, <2>3, IndexWrites
<1>6. ASSUME NEW j \in Jobs, IngestCommits(j), place'[p].dest # place[p].dest
      PROVE  Tagged[p] \in {Nobody, dest'[place'[p].dest].country}
  <2>1. PICK S \in SUBSET Allowed(job[j].dest), n \in Counts :
          /\ place' = [q \in Places |-> IF q \in S THEN Upserted(q, job[j].dest) ELSE place[q]]
          /\ owned' = [owned EXCEPT ![job[j].dest] = @ \cup S]
          /\ dest' = [dest EXCEPT ![job[j].dest] = [@ EXCEPT !.place_count = n]]
          /\ n = dest[job[j].dest].place_count \/ n = Cardinality(S)
    BY <1>6, IngestWrites
  <2>2. p \in S /\ place'[p] = Upserted(p, job[j].dest)
    BY <1>6, <2>1
  <2>3. place'[p].dest = job[j].dest /\ job[j].dest \in Destinations
    BY <1>0, <1>6, <2>2, IngestWrites DEF Upserted, PlaceRow
  <2>4. Tagged[p] \in {Nobody, dest[job[j].dest].country}
    BY <2>1, <2>2 DEF Allowed
  <2> QED BY <2>3, <2>4, StoresGrow
<1> QED BY <1>1, <1>2, <1>3, <1>4, <1>5, <1>6

LEMMA BatchesStep ==
  ASSUME TypeOK, IndexIsBacked, RowsOwned, BatchesOK, Next
  PROVE  BatchesOK'
<1> SUFFICES ASSUME NEW i \in Jobs PROVE BatchOK(i)'
  BY DEF BatchesOK
<1>0. job[i] \in JobRow /\ JobOK(i) /\ BatchOK(i) /\ JobOK(i)' /\ JobStepOK(i)
  BY JobsStep DEF TypeOK, JobRow, Kinds, Ats, JobOK, BatchesOK
<1>1. CASE job'[i] = job[i]
  <2>1. job[i].kind # "none" => owned[job[i].dest] \subseteq owned'[job[i].dest]
    BY <1>0, StoresGrow DEF JobOK
  <2>2. \A p \in job[i].batch : place[p].summary => place'[p].summary
    BY <1>0, StoresGrow DEF JobRow
  <2> QED BY <1>0, <1>1, <2>1, <2>2 DEF BatchOK, IsAt
<1>2. ASSUME NEW d \in Destinations, IndexSelects(i, d) PROVE BatchOK(i)'
  <2>1. /\ Begin(i, "index", d, "upserting", Enriched(d)) /\ Enriched(d) \in SUBSET Places
        /\ UNCHANGED <<place, owned>>
    BY <1>2 DEF IndexSelects, ToIndex, Enriched, Rows
  <2>2. job'[i].kind = "index" /\ job'[i].dest = d /\ job'[i].batch = Enriched(d)
    BY <2>1, Begins DEF Kinds, Ats
  <2>3. \A p \in Enriched(d) : place[p].summary /\ p \in owned[d]
    BY DEF Enriched, RowsOwned
  <2> QED BY <2>1, <2>2, <2>3 DEF BatchOK, IsAt
<1>3. ASSUME NEW d \in Destinations, SearchQueries(i, d) PROVE BatchOK(i)'
  <2>1. PICK hits \in Hits(d) : Begin(i, "search", d, "hydrating", hits)
    BY <1>3 DEF SearchQueries
  <2>2. hits \in SUBSET Places /\ hits \subseteq Indexed(d) /\ UNCHANGED owned
    BY <1>3 DEF Hits, Indexed, SearchQueries
  <2>3. job'[i].kind = "search" /\ job'[i].dest = d /\ job'[i].batch = hits
    BY <2>1, <2>2, Begins DEF Kinds, Ats
  <2>4. hits \subseteq owned[d]
    BY <2>2, CatalogAssumption DEF Indexed, IndexIsBacked
  <2> QED BY <2>2, <2>3, <2>4 DEF BatchOK, IsAt
<1> QED BY <1>0, <1>1, <1>2, <1>3 DEF JobStepOK, BatchOK

Summaries(d) == {p \in owned[d] : place[p].summary}

LEMMA CountsStep ==
  ASSUME TypeOK, IndexIsBacked, RowsOwned, CountsAreBacked, Next
  PROVE  CountsAreBacked'
<1> SUFFICES ASSUME NEW d \in Destinations
             PROVE  /\ dest'[d].place_count <= Cardinality(owned'[d])
                    /\ dest'[d].enriched_count <= Cardinality(Summaries(d)')
                    /\ dest'[d].indexed_count <= Cardinality(Summaries(d)')
  BY DEF CountsAreBacked, Summaries
<1>0. /\ dest[d] \in DestinationRow
      /\ dest[d].place_count <= Cardinality(owned[d])
      /\ dest[d].enriched_count <= Cardinality(Summaries(d))
      /\ dest[d].indexed_count <= Cardinality(Summaries(d))
  BY DEF TypeOK, CountsAreBacked, Summaries
<1>1. /\ owned[d] \subseteq owned'[d] /\ owned'[d] \in SUBSET Places
      /\ Summaries(d) \subseteq Summaries(d)' /\ Summaries(d)' \in SUBSET Places
  BY StoresGrow DEF Summaries
<1>2. /\ Cardinality(owned[d]) \in Nat /\ Cardinality(owned'[d]) \in Nat
      /\ Cardinality(owned[d]) <= Cardinality(owned'[d])
      /\ Cardinality(Summaries(d)) \in Nat /\ Cardinality(Summaries(d)') \in Nat
      /\ Cardinality(Summaries(d)) <= Cardinality(Summaries(d)')
  BY <1>1, CountOf, ZeroCounts
<1>3. dest[d].place_count \in Nat /\ dest[d].enriched_count \in Nat /\ dest[d].indexed_count \in Nat
  BY <1>0, ZeroCounts DEF DestinationRow
<1>4. CASE dest'[d] = dest[d]
  BY <1>0, <1>2, <1>3, <1>4
<1>5. ASSUME NEW j \in Jobs, IngestCommits(j), d = job[j].dest
      PROVE  /\ dest'[d].place_count <= Cardinality(owned'[d])
             /\ dest'[d].enriched_count = dest[d].enriched_count
             /\ dest'[d].indexed_count = dest[d].indexed_count
  <2>1. PICK S \in SUBSET Allowed(job[j].dest), n \in Counts :
          /\ place' = [q \in Places |-> IF q \in S THEN Upserted(q, job[j].dest) ELSE place[q]]
          /\ owned' = [owned EXCEPT ![job[j].dest] = @ \cup S]
          /\ dest' = [dest EXCEPT ![job[j].dest] = [@ EXCEPT !.place_count = n]]
          /\ n = dest[job[j].dest].place_count \/ n = Cardinality(S)
    BY <1>5, IngestWrites
  <2>2. /\ dest'[d] = [dest[d] EXCEPT !.place_count = n] /\ S \subseteq owned'[d]
        /\ n = dest[d].place_count \/ n = Cardinality(S)
    BY <1>5, <2>1 DEF TypeOK
  <2>3. Cardinality(S) \in Nat /\ Cardinality(S) <= Cardinality(owned'[d])
    BY <1>1, <2>2, CountOf, ZeroCounts
  <2>4. /\ dest'[d].place_count = n /\ dest'[d].enriched_count = dest[d].enriched_count
        /\ dest'[d].indexed_count = dest[d].indexed_count
    BY <1>0, <2>2 DEF DestinationRow
  <2>5. n <= Cardinality(owned'[d])
    BY <1>0, <1>2, <1>3, <2>2, <2>3
  <2> QED BY <2>4, <2>5
<1>6. ASSUME NEW j \in Jobs, EnrichCommits(j), d = job[j].dest
      PROVE  /\ dest'[d].enriched_count <= Cardinality(Summaries(d)')
             /\ dest'[d].place_count = dest[d].place_count
             /\ dest'[d].indexed_count = dest[d].indexed_count
  <2>1. PICK S \in SUBSET Places :
          /\ place' = [q \in Places |-> IF q \in S THEN [place[q] EXCEPT !.summary = TRUE] ELSE place[q]]
          /\ dest' = [dest EXCEPT ![d] = [@ EXCEPT !.enriched_count =
                        Cardinality(Enriched(d) \cup (S \cap Rows(d)))]]
    BY <1>6, EnrichWrites
  <2> DEFINE N == Enriched(d) \cup (S \cap Rows(d))
  <2>2. N \subseteq Summaries(d)'
    <3>1. N \subseteq Rows(d) /\ Rows(d) \subseteq owned[d]
      BY DEF Enriched, RowsOwned
    <3>2. ASSUME NEW p \in S PROVE place'[p].summary = TRUE
      <4>1. place'[p] = [place[p] EXCEPT !.summary = TRUE] /\ place[p] \in PlaceRow
        BY <2>1 DEF TypeOK
      <4> QED BY <4>1 DEF PlaceRow
    <3>3. \A p \in Enriched(d) : place'[p].summary
      BY StoresGrow DEF Enriched, Rows
    <3> QED BY <1>1, <3>1, <3>2, <3>3 DEF Summaries
  <2>3. Cardinality(N) <= Cardinality(Summaries(d)')
    BY <1>1, <2>2, CountOf
  <2>4. dest'[d] = [dest[d] EXCEPT !.enriched_count = Cardinality(N)]
    BY <2>1 DEF TypeOK
  <2> HIDE DEF N
  <2>5. /\ dest'[d].enriched_count = Cardinality(N) /\ dest'[d].place_count = dest[d].place_count
        /\ dest'[d].indexed_count = dest[d].indexed_count
    BY <1>0, <2>4 DEF DestinationRow
  <2> QED BY <2>3, <2>5
<1>7. ASSUME NEW j \in Jobs, IndexCommits(j), d = job[j].dest
      PROVE  /\ dest'[d].indexed_count <= Cardinality(Summaries(d)')
             /\ dest'[d].place_count = dest[d].place_count
             /\ dest'[d].enriched_count = dest[d].enriched_count
  <2>1. PICK n \in {0, Cardinality(Indexed(d))} :
          dest' = [dest EXCEPT ![d] = [@ EXCEPT !.indexed_count = n]]
    BY <1>7, IndexCounts
  <2>2. Indexed(d) \subseteq Summaries(d)
    BY CatalogAssumption DEF Indexed, IndexIsBacked, Summaries
  <2>3. Cardinality(Indexed(d)) <= Cardinality(Summaries(d)') /\ 0 <= Cardinality(Summaries(d)')
    BY <1>1, <1>2, <2>2, CountOf
  <2>4. dest'[d] = [dest[d] EXCEPT !.indexed_count = n]
    BY <2>1 DEF TypeOK
  <2>5. /\ dest'[d].indexed_count = n /\ dest'[d].place_count = dest[d].place_count
        /\ dest'[d].enriched_count = dest[d].enriched_count
    BY <1>0, <2>4 DEF DestinationRow
  <2> QED BY <2>1, <2>3, <2>5
<1>8. \/ dest'[d] = dest[d]
      \/ \E j \in Jobs : d = job[j].dest /\ (IngestCommits(j) \/ EnrichCommits(j) \/ IndexCommits(j))
  <2>1. ASSUME NEW j \in Jobs, IngestCommits(j), d # job[j].dest PROVE dest'[d] = dest[d]
    BY <2>1, IngestWrites DEF TypeOK
  <2>2. ASSUME NEW j \in Jobs, EnrichCommits(j), d # job[j].dest PROVE dest'[d] = dest[d]
    BY <2>2, EnrichWrites DEF TypeOK
  <2>3. ASSUME NEW j \in Jobs, IndexCommits(j), d # job[j].dest PROVE dest'[d] = dest[d]
    BY <2>3, IndexCounts DEF TypeOK
  <2> QED BY <2>1, <2>2, <2>3, Steps, IndexWrites
<1> QED BY <1>0, <1>2, <1>3, <1>4, <1>5, <1>6, <1>7, <1>8

(***************************************************************************)
(* The inductive invariant                                                 *)
(***************************************************************************)
LEMMA InvInit ==
  Init => IInv
<1> SUFFICES ASSUME Init PROVE IInv
  OBVIOUS
<1>1. PICK c \in Catalogs : dest = c.dest /\ place = c.place /\ point = c.point
  BY DEF Init
<1>2. /\ dest \in [Destinations -> DestinationRow] /\ place \in [Places -> PlaceRow]
      /\ point \in [Places -> Destinations \cup {Nobody}]
      /\ \A p \in Places :
           /\ point[p] \in {Nobody, place[p].dest}
           /\ point[p] # Nobody => place[p].summary
           /\ place[p].dest # Nobody => Tagged[p] \in {Nobody, dest[place[p].dest].country}
  BY <1>1, CatalogsAssumption
<1>3. ASSUME NEW d \in Destinations
      PROVE  /\ dest[d].place_count <= Cardinality(Rows(d))
             /\ dest[d].enriched_count <= Cardinality(Enriched(d))
             /\ dest[d].indexed_count <= Cardinality(Enriched(d))
  <2> DEFINE rows == {p \in Places : c.place[p].dest = d}
             summaries == {p \in rows : c.place[p].summary}
  <2>1. /\ c.dest[d].place_count <= Cardinality(rows)
        /\ c.dest[d].enriched_count <= Cardinality(summaries)
        /\ c.dest[d].indexed_count <= Cardinality(summaries)
    BY CatalogsAssumption
  <2>2. rows = Rows(d) /\ summaries = Enriched(d)
    BY <1>1 DEF Rows, Enriched
  <2> QED BY <1>1, <2>1, <2>2
<1>4. owned = [d \in Destinations |-> Rows(d)] /\ owned \in [Destinations -> SUBSET Places]
  BY DEF Init, Rows
<1>5. TypeOK
  <2>1. job \in [Jobs -> JobRow] /\ \A j \in Jobs : JobOK(j)
    BY ZeroCounts DEF Init, NoJob, JobRow, Kinds, Ats, JobOK
  <2> QED BY <1>2, <1>4, <2>1 DEF Init, TypeOK, JobRow, Kinds, Ats, JobOK
<1>6. ExclusiveIngest
  BY DEF Init, ExclusiveIngest, Ingesting, NoJob
<1>11. LocksAreOfIngests
  BY DEF Init, LocksAreOfIngests
<1>7. BatchesOK
  BY DEF Init, BatchesOK, BatchOK, IsAt, NoJob
<1>8. RowsOwned
  BY <1>4 DEF RowsOwned
<1>9. CountsAreBacked
  <2> SUFFICES ASSUME NEW d \in Destinations
               PROVE  /\ dest[d].place_count <= Cardinality(owned[d])
                      /\ dest[d].enriched_count <= Cardinality({p \in owned[d] : place[p].summary})
                      /\ dest[d].indexed_count <= Cardinality({p \in owned[d] : place[p].summary})
    BY DEF CountsAreBacked
  <2>1. owned[d] = Rows(d) /\ {p \in owned[d] : place[p].summary} = Enriched(d)
    BY <1>4 DEF Enriched
  <2> QED BY <1>3, <2>1
<1>10. IndexIsBacked
  BY <1>2, <1>4 DEF IndexIsBacked, Rows
<1> QED BY <1>5, <1>6, <1>7, <1>8, <1>9, <1>10, <1>11 DEF IInv

LEMMA InvStep ==
  IInv /\ [Next]_vars => IInv'
<1> SUFFICES ASSUME IInv, [Next]_vars PROVE IInv'
  OBVIOUS
<1>1. CASE Next
  BY <1>1, TypeStep, LocksStep, OwnersStep, BatchesStep, RowsStep, CountsStep, IndexStep DEF IInv
<1>2. CASE UNCHANGED vars
  <2> USE <1>2 DEF vars
  <2>1. TypeOK'
    BY DEF IInv, TypeOK
  <2>2. ExclusiveIngest'
    BY DEF IInv, ExclusiveIngest, Ingesting
  <2>7. LocksAreOfIngests'
    BY DEF IInv, LocksAreOfIngests, Ingesting
  <2>3. BatchesOK'
    BY DEF IInv, BatchesOK, BatchOK, IsAt
  <2>4. RowsOwned'
    BY DEF IInv, RowsOwned, Rows
  <2>5. CountsAreBacked'
    BY DEF IInv, CountsAreBacked
  <2>6. IndexIsBacked'
    BY DEF IInv, IndexIsBacked
  <2> QED BY <2>1, <2>2, <2>3, <2>4, <2>5, <2>6, <2>7 DEF IInv
<1> QED BY <1>1, <1>2

LEMMA Invariant ==
  Spec => []IInv
BY InvInit, InvStep, PTL DEF Spec

\* Every value stays of its type.
THEOREM TypeCorrect == Spec => []TypeOK
<1>1. IInv => TypeOK
  BY DEF IInv
<1> QED BY <1>1, Invariant, PTL

\* A destination is ingested by one prepare request at a time, and that one holds
\* its lock, unless the lock lapsed under it.
THEOREM IngestIsExclusive == Spec => []ExclusiveIngest
<1>1. IInv => ExclusiveIngest
  BY DEF IInv
<1> QED BY <1>1, Invariant, PTL

\* No lock outlives its ingest, but in Redis after a failed delete or a restart.
THEOREM LocksStayOfIngests == Spec => []LocksAreOfIngests
<1>1. IInv => LocksAreOfIngests
  BY DEF IInv
<1> QED BY <1>1, Invariant, PTL

\* The readiness counters count places that were there.
THEOREM CountsStayBacked == Spec => []CountsAreBacked
<1>1. IInv => CountsAreBacked
  BY DEF IInv
<1> QED BY <1>1, Invariant, PTL

\* Every point of the index is an enriched row of its destination, every row
\* is in the country it is tagged with.
THEOREM IndexStaysBacked == Spec => []IndexIsBacked
<1>1. IInv => IndexIsBacked
  BY DEF IInv
<1> QED BY <1>1, Invariant, PTL

\* What a search offers lies in the country of its destination; a place that never
\* was its own is not offered next to one of its own rows.
THEOREM SearchStaysScoped == Spec => SearchIsScoped
<1> DEFINE A == \A j \in Jobs :
       IsAt(j, "search", "hydrating") /\ job'[j].at = "ready" =>
         LET d == job[j].dest
         IN \A p \in job'[j].batch :
              /\ dest[place[p].dest].country = dest[d].country
              /\ \/ p \in owned[d]
                 \/ job'[j].batch \cap Rows(d) = {}
<1>1. IInv /\ [Next]_vars => [A]_vars
  <2> SUFFICES ASSUME IInv, Next, NEW j \in Jobs, IsAt(j, "search", "hydrating"), job'[j].at = "ready",
                      NEW p \in job'[j].batch
               PROVE  /\ dest[place[p].dest].country = dest[job[j].dest].country
                      /\ \/ p \in owned[job[j].dest]
                         \/ job'[j].batch \cap Rows(job[j].dest) = {}
    OBVIOUS
  <2> DEFINE d == job[j].dest
  <2>0. job \in [Jobs -> JobRow] /\ d \in Destinations /\ job[j].batch \subseteq owned[d]
        /\ Rows(d) \subseteq owned[d]
    BY DEF IInv, TypeOK, JobRow, Kinds, Ats, IsAt, BatchesOK, BatchOK, RowsOwned
  <2>1. SearchLoads(j)
    <3>1. job'[j] # job[j]
      BY DEF IsAt
    <3>2. ASSUME NEW i \in Jobs, JobsTo(i), i # j PROVE FALSE
      BY <3>1, <3>2 DEF JobsTo
    <3>4. ASSUME NEW c \in Destinations, Arrives(j, c) PROVE FALSE
      BY <3>4 DEF Arrives, PrepareReady, PrepareLoads, SeedLoads, EnrichSelects, IndexSelects,
         SearchQueries, Begin, IsAt
    <3>5. ~Prepares(j) /\ ~Ingests(j) /\ ~Enriches(j)
      BY DEF Prepares, Ingests, Enriches, PrepareInFlight, PrepareStarts, PrepareFindsNoLock,
         PrepareLocks, IngestLoads, IngestCommits, IngestFails, IngestUnlocks, EnrichCommits,
         IndexUpserts, IndexCommits, IsAt
    <3>6. ~Killed(j)
      BY DEF Killed, IsAt
    <3>7. ASSUME NEW c \in Destinations, LockExpires(c) PROVE FALSE
      BY <3>1, <3>7 DEF LockExpires
    <3>8. PICK i \in Jobs : Step(i)
      <4>1. ~Restart
        BY <2>0, <3>1 DEF Restart, NoJob, IsAt
      <4> QED BY <3>7, <4>1 DEF Next
    <3>9. i = j
      BY <3>2, <3>8, JobArrives, JobGoesOn DEF Step, IInv
    <3> QED BY <3>4, <3>5, <3>6, <3>8, <3>9 DEF Step
  <2>2. PICK near \in SUBSET Places : job'[j].batch = Found(d, job[j].batch, near)
    BY <2>0, <2>1 DEF SearchLoads, JobRow, WithinRadius
  <2>3. CASE job[j].batch # {}
    BY <2>0, <2>2, <2>3 DEF Found, SameCountry
  <2>4. CASE job[j].batch = {} /\ near \cap Rows(d) # {}
    <3>1. p \in near \cap Rows(d)
      BY <2>2, <2>4 DEF Found
    <3> QED BY <2>0, <3>1 DEF Rows
  <2>5. CASE job[j].batch = {} /\ near \cap Rows(d) = {}
    BY <2>2, <2>5 DEF Found, SameCountry
  <2> QED BY <2>3, <2>4, <2>5
<1> QED BY <1>1, Invariant, PTL DEF Spec, SearchIsScoped

=============================================================================
