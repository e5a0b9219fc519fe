-------------------------------- MODULE Lookup --------------------------------
(***************************************************************************)
(* The two ways to find a destination by name: GET /destinations/search    *)
(* and /destinations/resolve (destinations/service.py).  A request passes  *)
(* the rate limiter, reads the table, asks the geocoder, and stores what   *)
(* it is going to offer; the rows it stored are there for the requests     *)
(* that follow.  Every wait for the geocoder has a deadline, which may     *)
(* pass at any moment of it.                                               *)
(*                                                                         *)
(* A site is a place as Nominatim describes it: is_city_scale is true of   *)
(* exactly those for which is_oversized is false.                          *)
(***************************************************************************)
EXTENDS RateLimiter, Geocoder

CONSTANTS
  Queries,
  Regions,  \* the sites that are oversized: countries, states, wide areas
  Named,    \* for each query, the sites whose name or display name contains it
  Country,
  Tables    \* what the table may hold when the requests arrive

\* What the geocoder may be asked: the query itself, for one site or for several,
\* and for a region the cities in its box, or those found with "city" in front.
ASSUME LookupAssumption ==
  /\ Paths = {"search", "resolve"}
  /\ Keys = ({"geocode", "search"} \X Queries) \cup ({"hubs", "city"} \X Regions)
  /\ Regions \subseteq Sites
  /\ Named \in [Queries -> SUBSET Sites]
  /\ DOMAIN Country = Sites
  /\ Tables \subseteq SUBSET Sites

VARIABLES
  rows,   \* the destinations table
  req,    \* the handler of each request
  late    \* history: requests whose deadline passed

vars == <<limiterVars, geocoderVars, rows, req, late>>

NoReply == [status |-> "none", sites |-> {}]

Handler(q) == [query |-> q, at |-> "start", known |-> {}, todo |-> {}, kind |-> "none",
               reply |-> NoReply]

Init ==
  /\ LimiterInit
  /\ GeocoderInit
  /\ rows \in Tables
  /\ \E query \in [Requests -> Queries] : req = [r \in Requests |-> Handler(query[r])]
  /\ late = {}

Reply(r, status, sites) ==
  req' = [req EXCEPT ![r] = [Handler(@.query) EXCEPT
                               !.at = "done", !.reply = [status |-> status, sites |-> sites]]]

Ask(r, key) == call' = [call EXCEPT ![r] = Asked(key)]
EndCall(r) == call' = [call EXCEPT ![r] = NoCall]
Got(r) == Hits(call[r].key, call[r].got)
SitesIn(hits) == {hits[i] : i \in DOMAIN hits}
AsksFor(r, kind) == req[r].at = "geocoding" /\ call[r].key[1] = kind
Offer(r, kind, sites) ==
  req' = [req EXCEPT ![r] = [Handler(@.query) EXCEPT
                               !.at = "storing", !.todo = sites, !.kind = kind]]

quietGeocoder == <<cache, holder, spaced, missed, fresh>>

(***************************************************************************)
(* The middleware                                                          *)
(***************************************************************************)
Checks(r) ==
  /\ req[r].at = "start"
  /\ \A i \in Requests : i < r => check[i] # "new"
  /\ LimiterStep(r)
  /\ UNCHANGED <<geocoderVars, rows, req, late>>

TooMany(r) ==
  /\ req[r].at = "start" /\ check[r] = "refused"
  /\ Reply(r, "too many", {})
  /\ UNCHANGED <<limiterVars, geocoderVars, rows, late>>

(***************************************************************************)
(* The handlers: search_by_name, then the geocoder                         *)
(***************************************************************************)
Stored(r) == Named[req[r].query] \cap rows

FoundInTable(r) ==
  /\ req[r].at = "start" /\ check[r] = "allowed" /\ path[r] = "search"
  /\ Stored(r) # {}
  /\ Reply(r, "found", Stored(r))
  /\ UNCHANGED <<limiterVars, geocoderVars, rows, late>>

AsksGeocoder(r) ==
  /\ req[r].at = "start" /\ check[r] = "allowed"
  /\ path[r] = "search" => Stored(r) = {}
  /\ Ask(r, <<IF path[r] = "search" THEN "geocode" ELSE "search", req[r].query>>)
  /\ req' = [req EXCEPT ![r].at = "geocoding", ![r].known = Stored(r)]
  /\ UNCHANGED <<limiterVars, quietGeocoder, rows, late>>

SearchIsAnswered(r) ==
  /\ AsksFor(r, "geocode") /\ call[r].at = "answered"
  /\ IF Got(r) = <<>> THEN Reply(r, "not found", {}) ELSE Offer(r, "found", SitesIn(Got(r)))
  /\ EndCall(r)
  /\ UNCHANGED <<limiterVars, quietGeocoder, rows, late>>

SearchIsLate(r) ==
  /\ AsksFor(r, "geocode") /\ Cancelled(r)
  /\ EndCall(r)
  /\ Reply(r, "not found", {})
  /\ late' = late \cup {r}
  /\ UNCHANGED <<limiterVars, rows>>

\* A rejection becomes a 502, anything else that was raised a 500.
GeocoderRaises(r) ==
  /\ req[r].at = "geocoding" /\ call[r].at \in {"rejected", "broken"}
  /\ Reply(r, IF call[r].at = "rejected" THEN "bad gateway" ELSE "error", {})
  /\ EndCall(r)
  /\ UNCHANGED <<limiterVars, quietGeocoder, rows, late>>

(***************************************************************************)
(* resolve                                                                 *)
(***************************************************************************)
\* is_city_scale: whatever is not oversized.
CityScale(s) == s \notin Regions

\* What is known and what was found, once no region comes first.
Decide(r, hits) ==
  LET known == req[r].known
      cities == {s \in SitesIn(hits) : CityScale(s)}
  IN IF Cardinality(known) >= 2 THEN Reply(r, "ambiguous", known)
     ELSE IF known # {} THEN Reply(r, "destination", known)
     ELSE IF Cardinality(cities) >= 2 THEN Offer(r, "ambiguous", cities)
     ELSE IF cities # {} THEN Offer(r, "destination", cities)
     ELSE Reply(r, "not found", {})

RegionFirst(r) == Got(r) # <<>> /\ Head(Got(r)) \in Regions

ResolveFindsRegion(r) ==
  /\ AsksFor(r, "search") /\ call[r].at = "answered"
  /\ RegionFirst(r)
  /\ Ask(r, <<"hubs", Head(Got(r))>>)
  /\ UNCHANGED <<limiterVars, quietGeocoder, rows, req, late>>

ResolveIsAnswered(r) ==
  /\ AsksFor(r, "search") /\ call[r].at = "answered"
  /\ ~RegionFirst(r)
  /\ Decide(r, Got(r))
  /\ EndCall(r)
  /\ UNCHANGED <<limiterVars, quietGeocoder, rows, late>>

\* Late: as if the geocoder had found nothing.
ResolveIsLate(r) ==
  /\ AsksFor(r, "search") /\ Cancelled(r)
  /\ EndCall(r)
  /\ Decide(r, <<>>)
  /\ late' = late \cup {r}
  /\ UNCHANGED <<limiterVars, rows>>

\* _suggest_hubs: cities of the region's country.
CountriesMatch(s, region) == Country[s] = Country[region]
Hubs(hits, region) == {s \in SitesIn(hits) : CityScale(s) /\ CountriesMatch(s, region)}

TriesCities(r) ==
  /\ AsksFor(r, "hubs") /\ call[r].at = "answered"
  /\ Got(r) = <<>>
  /\ Ask(r, <<"city", call[r].key[2]>>)
  /\ UNCHANGED <<limiterVars, quietGeocoder, rows, req, late>>

SuggestsHubs(r) ==
  /\ AsksFor(r, "hubs") \/ AsksFor(r, "city")
  /\ call[r].at = "answered"
  /\ AsksFor(r, "hubs") => Got(r) # <<>>
  /\ LET hubs == Hubs(Got(r), call[r].key[2])
     IN IF hubs = {} THEN Reply(r, "not found", {}) ELSE Offer(r, "hubs", hubs)
  /\ EndCall(r)
  /\ UNCHANGED <<limiterVars, quietGeocoder, rows, late>>

\* The deadline of _suggest_hubs spans its calls and its commits.
HubsAreLate(r) ==
  /\ \/ (AsksFor(r, "hubs") \/ AsksFor(r, "city")) /\ Cancelled(r)
     \/ req[r].at = "storing" /\ req[r].kind = "hubs" /\ UNCHANGED quietGeocoder
  /\ EndCall(r)
  /\ Reply(r, "not found", {})
  /\ late' = late \cup {r}
  /\ UNCHANGED <<limiterVars, rows>>

\* upsert_from_geocoded, and a commit of its own for every site; their order
\* means nothing here.
WithSite(row, site) ==
  [row EXCEPT !.todo = @ \ {site},
              !.reply = [status |-> @.status, sites |-> @.sites \cup {site}]]
Stores(r) ==
  /\ req[r].at = "storing"
  /\ \E site \in req[r].todo :
       /\ rows' = rows \cup {site}
       /\ IF req[r].todo = {site} THEN Reply(r, req[r].kind, req[r].reply.sites \cup {site})
          ELSE req' = [req EXCEPT ![r] = WithSite(@, site)]
  /\ UNCHANGED <<limiterVars, geocoderVars, late>>

\* The upsert, its commit or the refresh after it raises: what was committed stays.
StoreFails(r) ==
  /\ req[r].at = "storing"
  /\ rows' \in {rows} \cup {rows \cup {site} : site \in req[r].todo}
  /\ Reply(r, "error", {})
  /\ UNCHANGED <<limiterVars, geocoderVars, late>>

(***************************************************************************)
(* Specification                                                           *)
(***************************************************************************)
Geocodes(r) ==
  /\ req[r].at = "geocoding"
  /\ GeocoderStep(r)
  /\ UNCHANGED <<limiterVars, rows, req, late>>

Proceeds(r) ==
  \/ Checks(r) \/ TooMany(r) \/ FoundInTable(r) \/ AsksGeocoder(r) \/ Geocodes(r)
  \/ SearchIsAnswered(r) \/ GeocoderRaises(r)
  \/ ResolveFindsRegion(r) \/ ResolveIsAnswered(r) \/ TriesCities(r) \/ SuggestsHubs(r)
  \/ Stores(r) \/ StoreFails(r)

IsLate(r) == SearchIsLate(r) \/ ResolveIsLate(r) \/ HubsAreLate(r)

Tick == LimiterTick /\ GeocoderTick /\ UNCHANGED <<rows, req, late>>

Next == (\E r \in Requests : Proceeds(r) \/ IsLate(r)) \/ Tick

Spec == Init /\ [][Next]_vars

\* Time passes, and the event loop comes back to every request that can proceed;
\* that a deadline passes is not assumed.
FairSpec == Spec /\ WF_vars(Tick) /\ \A r \in Requests : WF_vars(Proceeds(r))

(***************************************************************************)
(* Properties                                                              *)
(***************************************************************************)
TypeOK ==
  /\ LimiterTypeOK /\ GeocoderTypeOK
  /\ rows \subseteq Sites
  /\ late \subseteq Requests
  /\ req \in [Requests -> [query : Queries, at : {"start", "geocoding", "storing", "done"},
                           known : SUBSET Sites, todo : SUBSET Sites,
                           kind : {"none", "found", "destination", "ambiguous", "hubs"},
                           reply : [status : {"none", "too many", "found", "destination",
                                              "ambiguous", "hubs", "not found",
                                              "bad gateway", "error"},
                                    sites : SUBSET Sites]]]
  /\ \A r \in Requests : req[r].at = "storing" => req[r].todo # {}

\* "Not found" is never what a rejection by Nominatim looks like, neither to the
\* request that met it nor to a later one that reads the cache: the request was
\* late, or a call it depends on had no answer or failed, or the region it asked
\* about has no hub (service.py, "do not map to not_found").
NotFoundIsEarned ==
  \A r \in Requests : req[r].reply.status = "not found" =>
    LET q == req[r].query
        found == Answer[<<"search", q>>]
        first == Head(found)
    IN \/ r \in late
       \/ path[r] = "search" /\ <<"geocode", q>> \in missed
       \/ path[r] = "resolve" /\
            \/ <<"search", q>> \in missed
            \/ /\ <<"hubs", first>> \in missed
               /\ \/ <<"city", first>> \in missed
                  \/ Hubs(Answer[<<"city", first>>], first) = {}
            \/ Hubs(Answer[<<"hubs", first>>], first) = {}

AsksForRegion(r) ==
  LET found == Answer[<<"search", req[r].query>>]
  IN path[r] = "resolve" /\ found # <<>> /\ Head(found) \in Regions

\* What openspec/specs/destinations-http/spec.md promises of a query that
\* Nominatim answers with a region: it is resolved to cities, and the region
\* itself is never the destination.  The code breaks it: once a search stored
\* the region, a resolve that gets no answer in time, or a cached failure,
\* finds it in the table and offers it.
RegionIsNotPlanned ==
  \A r \in Requests : AsksForRegion(r) => req[r].reply.sites \cap Regions = {}

\* What is left of it: the region is offered only by a request that was late, or
\* after a call for its query failed, now or when its result was cached.
RegionIsPlannedUnanswered ==
  \A r \in Requests :
    AsksForRegion(r) /\ req[r].reply.sites \cap Regions # {}
      => r \in late \/ <<"search", req[r].query>> \in missed

\* Whatever the limiter, the geocoder and the other requests do, every request is
\* answered: no cancelled call keeps the throttle's lock, no retry goes on.
EveryRequestIsAnswered ==
  \A r \in Requests : check[r] # "new" ~> req[r].at = "done"
=============================================================================
