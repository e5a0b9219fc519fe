---------------------------- MODULE Lookup_proofs ----------------------------
(***************************************************************************)
(* Proofs about Lookup, for every set of requests, queries and sites, and  *)
(* whatever Nominatim answers.  The limiter and the geocoder have their    *)
(* invariants in modules of their own; here is what the handlers add.      *)
(***************************************************************************)
EXTENDS Lookup, LookupParts_proofs

HandlerAts == {"start", "geocoding", "storing", "done"}
OfferKinds == {"none", "found", "destination", "ambiguous", "hubs"}
Statuses == {"none", "too many", "found", "destination", "ambiguous", "hubs", "not found",
             "bad gateway", "error"}
ReqRow == [query : Queries, at : HandlerAts, known : SUBSET Sites, todo : SUBSET Sites,
           kind : OfferKinds, reply : [status : Statuses, sites : SUBSET Sites]]

SearchKey(q) == <<"search", q>>
First(q) == Head(Answer[SearchKey(q)])
IsRegion(q) == Answer[SearchKey(q)] # <<>> /\ First(q) \in Regions

\* What a handler has asked the geocoder, and what it knew when it did.
KeyOK(r) ==
  LET q == req[r].query
      key == call[r].key
  IN IF req[r].at # "geocoding" THEN call[r].at = "none"
     ELSE IF path[r] = "search" THEN key = <<"geocode", q>>
     ELSE \/ key = SearchKey(q)
          \/ IsRegion(q) /\ key = <<"hubs", First(q)>>
          \/ IsRegion(q) /\ key = <<"city", First(q)>> /\ <<"hubs", First(q)>> \in missed

\* The two properties of the handlers, of one request; a region is not even among
\* the sites a handler is still storing.
Earns(r) ==
  LET q == req[r].query
      first == First(q)
  IN \/ r \in late
     \/ path[r] = "search" /\ <<"geocode", q>> \in missed
     \/ path[r] = "resolve" /\
          \/ SearchKey(q) \in missed
          \/ /\ <<"hubs", first>> \in missed
             /\ \/ <<"city", first>> \in missed
                \/ Hubs(Answer[<<"city", first>>], first) = {}
          \/ Hubs(Answer[<<"hubs", first>>], first) = {}
NotFoundOK(r) == req[r].reply.status = "not found" => Earns(r)
RegionFree(r) ==
  LET q == req[r].query
  IN path[r] = "resolve" /\ r \notin late /\ SearchKey(q) \notin missed /\ IsRegion(q)
       => (req[r].reply.sites \cup req[r].todo) \cap Regions = {}
HandlerOK(r) == KeyOK(r) /\ NotFoundOK(r) /\ RegionFree(r)

IInv == TypeOK /\ LimiterInv /\ GeocoderInv /\ \A r \in Requests : HandlerOK(r)

(***************************************************************************)
(* Types, and what a geocoder call leads to                                *)
(***************************************************************************)
LEMMA LookupTypes ==
  ASSUME IInv
  PROVE  /\ rows \subseteq Sites /\ late \subseteq Requests
         /\ req \in [Requests -> ReqRow]
         /\ \A r \in Requests : req[r].at = "storing" => req[r].todo # {}
         /\ path \in [Requests -> {"search", "resolve"}]
         /\ call \in [Requests -> CallRow]
<1>1. path \in [Requests -> {"search", "resolve"}]
  BY LookupAssumption DEF IInv, LimiterInv, LimiterTypeOK
<1>2. call \in [Requests -> CallRow]
  BY GeocoderTypes DEF IInv
<1> QED BY <1>1, <1>2 DEF IInv, TypeOK, ReqRow, HandlerAts, OfferKinds, Statuses

LEMMA KeysOf ==
  ASSUME NEW q \in Queries
  PROVE  /\ <<"geocode", q>> \in Keys /\ SearchKey(q) \in Keys
         /\ IsRegion(q) => <<"hubs", First(q)>> \in Keys /\ <<"city", First(q)>> \in Keys
BY LookupAssumption DEF SearchKey, IsRegion

LEMMA HitsAreSites ==
  ASSUME NEW hits \in Seq(Sites)
  PROVE  /\ SitesIn(hits) \subseteq Sites
         /\ hits # <<>> => Head(hits) \in SitesIn(hits)
BY DEF SitesIn

LEMMA GotIs ==
  ASSUME IInv, NEW r \in Requests, call[r].at = "answered"
  PROVE  /\ Got(r) \in Seq(Sites) /\ call[r].key \in Keys
         /\ Got(r) = <<>> => call[r].key \in missed
         /\ Got(r) # <<>> => Got(r) = Answer[call[r].key]
<1>1. /\ call[r].key \in Keys
      /\ Got(r) = <<>> => call[r].key \in missed
      /\ Got(r) # <<>> => Got(r) = Answer[call[r].key]
  BY GotIsEarned DEF IInv, Got
<1>2. Answer[call[r].key] \in Seq(Sites) /\ <<>> \in Seq(Sites)
  BY <1>1, GeocoderAssumption
<1>3. Got(r) \in Seq(Sites)
  BY <1>1, <1>2
<1> QED BY <1>1, <1>3

\* The path, the query and the kind of question determine the key.
LEMMA AskedFor ==
  ASSUME IInv, NEW r \in Requests, req[r].at = "geocoding"
  PROVE  LET q == req[r].query
         IN /\ AsksFor(r, "geocode") => path[r] = "search" /\ call[r].key = <<"geocode", q>>
            /\ AsksFor(r, "search") => path[r] = "resolve" /\ call[r].key = SearchKey(q)
            /\ AsksFor(r, "hubs") => /\ path[r] = "resolve" /\ IsRegion(q)
                                     /\ call[r].key = <<"hubs", First(q)>>
            /\ AsksFor(r, "city") => /\ path[r] = "resolve" /\ IsRegion(q)
                                     /\ call[r].key = <<"city", First(q)>>
                                     /\ <<"hubs", First(q)>> \in missed
<1>1. KeyOK(r) /\ path[r] \in {"search", "resolve"}
  BY LookupTypes DEF IInv, HandlerOK
<1> QED BY <1>1 DEF KeyOK, AsksFor, SearchKey

(***************************************************************************)
(* Steps of one request                                                    *)
(***************************************************************************)
\* A request whose handler does not move keeps what was known of it.
LEMMA Stays ==
  ASSUME NEW s \in Requests, HandlerOK(s), req'[s] = req[s], path' = path,
         missed \subseteq missed', late \subseteq late',
         req[s].at = "geocoding" => call'[s].key = call[s].key,
         req[s].at # "geocoding" => call'[s].at = call[s].at
  PROVE  HandlerOK(s)'
<1>1. KeyOK(s)'
  BY DEF HandlerOK, KeyOK, IsRegion, First, SearchKey
<1>2. NotFoundOK(s)'
  BY DEF HandlerOK, NotFoundOK, Earns, First, SearchKey
<1>3. RegionFree(s)'
  BY DEF HandlerOK, RegionFree, IsRegion, First, SearchKey
<1> QED BY <1>1, <1>2, <1>3 DEF HandlerOK

\* Only the middleware, the geocoder or the clock moves.
LEMMA HandlersRest ==
  ASSUME IInv, LimiterInv', GeocoderInv', missed \subseteq missed', path' = path,
         UNCHANGED <<rows, req, late>>,
         \A s \in Requests : /\ req[s].at = "geocoding" => call'[s].key = call[s].key
                             /\ req[s].at # "geocoding" => call'[s].at = call[s].at
  PROVE  IInv'
<1>1. \A s \in Requests : HandlerOK(s)'
  BY Stays DEF IInv
<1>2. TypeOK'
  BY DEF IInv, TypeOK, LimiterInv, GeocoderInv
<1> QED BY <1>1, <1>2 DEF IInv

\* The handler of r moves to row.
LEMMA OneHandler ==
  ASSUME IInv, LimiterInv', GeocoderInv', missed \subseteq missed', path' = path,
         NEW r \in Requests, NEW row \in ReqRow, req' = [req EXCEPT ![r] = row],
         row.at = "storing" => row.todo # {},
         rows' \subseteq Sites, late \subseteq late', late' \subseteq Requests,
         \A s \in Requests \ {r} : call'[s] = call[s],
         KeyOK(r)', NotFoundOK(r)', RegionFree(r)'
  PROVE  IInv'
<1>1. /\ req' \in [Requests -> ReqRow] /\ req'[r] = row
      /\ \A s \in Requests \ {r} : req'[s] = req[s]
  BY LookupTypes
<1>2. ASSUME NEW s \in Requests PROVE HandlerOK(s)'
  <2>1. CASE s = r
    BY <2>1 DEF HandlerOK
  <2>2. CASE s # r
    BY <1>1, <2>2, Stays DEF IInv
  <2> QED BY <2>1, <2>2
<1>3. \A s \in Requests : req'[s].at = "storing" => req'[s].todo # {}
  BY <1>1, LookupTypes
<1>4. TypeOK'
  BY <1>1, <1>3 DEF TypeOK, LimiterInv, GeocoderInv, ReqRow, HandlerAts, OfferKinds, Statuses
<1> QED BY <1>2, <1>4 DEF IInv

LEMMA HandlerRows ==
  ASSUME IInv, NEW r \in Requests
  PROVE  /\ Handler(req[r].query) \in ReqRow
         /\ Handler(req[r].query).query = req[r].query
         /\ req[r] \in ReqRow /\ req[r].query \in Queries
<1>1. req[r] \in ReqRow
  BY LookupTypes
<1>2. req[r].query \in Queries
  BY <1>1 DEF ReqRow
<1> QED BY <1>1, <1>2 DEF Handler, NoReply, ReqRow, HandlerAts, OfferKinds, Statuses

\* The handler of r replies: with nothing, unless it earned it, and with no region
\* where it should not.
LEMMA Replies ==
  ASSUME IInv, LimiterInv', GeocoderInv', missed \subseteq missed', path' = path,
         rows' \subseteq Sites, late \subseteq late', late' \subseteq Requests,
         NEW r \in Requests, \A s \in Requests \ {r} : call'[s] = call[s],
         call'[r].at = "none",
         NEW status \in Statuses, NEW sites \in SUBSET Sites, Reply(r, status, sites),
         status = "not found" => Earns(r) \/ r \in late',
         \/ sites \cap Regions = {} \/ path[r] # "resolve" \/ r \in late'
         \/ SearchKey(req[r].query) \in missed \/ ~IsRegion(req[r].query)
  PROVE  IInv'
<1> DEFINE q == req[r].query
           row == [Handler(q) EXCEPT !.at = "done", !.reply = [status |-> status, sites |-> sites]]
<1>1. Handler(q) \in ReqRow /\ Handler(q).query = q /\ Handler(q).todo = {}
  BY HandlerRows DEF Handler
<1>2. /\ row \in ReqRow /\ row.query = q /\ row.at = "done" /\ row.todo = {}
      /\ row.reply.status = status /\ row.reply.sites = sites
  BY <1>1 DEF ReqRow, HandlerAts
<1>3. req' = [req EXCEPT ![r] = row] /\ req'[r] = row
  BY LookupTypes DEF Reply
<1>4. KeyOK(r)'
  BY <1>2, <1>3 DEF KeyOK
<1>5. NotFoundOK(r)'
  BY <1>2, <1>3 DEF NotFoundOK, Earns, First, SearchKey
<1>6. RegionFree(r)'
  BY <1>2, <1>3 DEF RegionFree, IsRegion, First, SearchKey
<1> QED BY <1>2, <1>3, <1>4, <1>5, <1>6, OneHandler

\* The handler of r goes on to store sites, none of them a region where it should not.
LEMMA Offers ==
  ASSUME IInv, LimiterInv', GeocoderInv', missed \subseteq missed', path' = path,
         rows' \subseteq Sites, late \subseteq late', late' \subseteq Requests,
         NEW r \in Requests, \A s \in Requests \ {r} : call'[s] = call[s],
         call'[r].at = "none",
         NEW kind \in OfferKinds, NEW sites \in SUBSET Sites, Offer(r, kind, sites),
         sites # {},
         \/ sites \cap Regions = {} \/ path[r] # "resolve" \/ r \in late'
         \/ SearchKey(req[r].query) \in missed \/ ~IsRegion(req[r].query)
  PROVE  IInv'
<1> DEFINE q == req[r].query
           row == [Handler(q) EXCEPT !.at = "storing", !.todo = sites, !.kind = kind]
<1>1. Handler(q) \in ReqRow /\ Handler(q).query = q /\ Handler(q).reply = NoReply
  BY HandlerRows DEF Handler
<1>2. /\ row \in ReqRow /\ row.query = q /\ row.at = "storing" /\ row.todo = sites
      /\ row.reply.status = "none" /\ row.reply.sites = {}
  <2>1. row \in ReqRow /\ row.query = q /\ row.at = "storing" /\ row.todo = sites
    BY <1>1 DEF ReqRow, HandlerAts
  <2>2. row.reply = NoReply
    BY <1>1 DEF ReqRow
  <2> QED BY <2>1, <2>2 DEF NoReply
<1>3. req' = [req EXCEPT ![r] = row] /\ req'[r] = row
  BY LookupTypes DEF Offer
<1>4. KeyOK(r)'
  BY <1>2, <1>3 DEF KeyOK
<1>5. NotFoundOK(r)'
  BY <1>2, <1>3 DEF NotFoundOK
<1>6. RegionFree(r)'
  BY <1>2, <1>3 DEF RegionFree, IsRegion, First, SearchKey
<1> QED BY <1>2, <1>3, <1>4, <1>5, <1>6, OneHandler

\* A call that has an answer, or none, ends: what its caller relies on stays.
LEMMA CallEnds ==
  ASSUME IInv, NEW r \in Requests, EndCall(r),
         \/ call[r].at # "sleeping" /\ UNCHANGED quietGeocoder
         \/ Cancelled(r)
  PROVE  /\ GeocoderInv' /\ missed \subseteq missed' /\ call'[r].at = "none"
         /\ \A s \in Requests \ {r} : call'[s] = call[s]
<1>1. call' = [call EXCEPT ![r] = NoCall] /\ call \in [Requests -> CallRow]
  BY LookupTypes DEF EndCall
<1>2. call'[r].at = "none" /\ \A s \in Requests \ {r} : call'[s] = call[s]
  BY <1>1 DEF NoCall
<1>3. GeocoderInv' /\ missed \subseteq missed'
  BY <1>1, CallerHolds, CancelHolds DEF IInv, quietGeocoder
<1> QED BY <1>2, <1>3

\* resolve decides on hits that name no region first, or is late.
LEMMA Decides ==
  ASSUME IInv, LimiterInv', GeocoderInv', missed \subseteq missed', path' = path,
         rows' \subseteq Sites, late \subseteq late', late' \subseteq Requests,
         NEW r \in Requests, \A s \in Requests \ {r} : call'[s] = call[s],
         call'[r].at = "none",
         NEW hits \in Seq(Sites), Decide(r, hits), path[r] = "resolve",
         \/ r \in late'
         \/ /\ hits # <<>> => Head(hits) \notin Regions /\ hits = Answer[SearchKey(req[r].query)]
            /\ hits = <<>> => SearchKey(req[r].query) \in missed
  PROVE  IInv'
<1> DEFINE q == req[r].query
           known == req[r].known
           cities == {s \in SitesIn(hits) : CityScale(s)}
<1>1. known \in SUBSET Sites
  BY HandlerRows DEF ReqRow
<1>2. cities \in SUBSET Sites
  BY HitsAreSites
<1>3. r \in late' \/ SearchKey(q) \in missed \/ ~IsRegion(q)
  BY DEF IsRegion, First
<1>4. CASE Reply(r, "ambiguous", known)
  BY <1>1, <1>3, <1>4, Replies DEF Statuses
<1>5. CASE Reply(r, "destination", known)
  BY <1>1, <1>3, <1>5, Replies DEF Statuses
<1>6. CASE Offer(r, "ambiguous", cities) /\ cities # {}
  BY <1>2, <1>3, <1>6, Offers DEF OfferKinds
<1>7. CASE Offer(r, "destination", cities) /\ cities # {}
  BY <1>2, <1>3, <1>7, Offers DEF OfferKinds
<1>8. CASE Reply(r, "not found", {}) /\ cities = {}
  <2>1. r \in late' \/ Earns(r)
    <3>1. CASE hits = <<>>
      BY <3>1 DEF Earns
    <3>2. CASE hits # <<>> /\ r \notin late'
      <4>1. Head(hits) \in cities
        BY <3>2, HitsAreSites DEF CityScale
      <4> QED BY <1>8, <4>1
    <3> QED BY <3>1, <3>2
  <2>2. {} \in SUBSET Sites /\ {} \cap Regions = {} /\ "not found" \in Statuses
    BY DEF Statuses
  <2> QED BY <1>8, <2>1, <2>2, Replies
<1>9. Cardinality(cities) >= 2 => cities # {}
  <2>1. ASSUME NEW S, Cardinality(S) >= 2 PROVE S # {}
    BY <2>1, FS_EmptySet
  <2> QED BY <2>1
<1> QED BY <1>4, <1>5, <1>6, <1>7, <1>8, <1>9 DEF Decide

(***************************************************************************)
(* The actions                                                             *)
(***************************************************************************)
LEMMA Frames ==
  ASSUME IInv
  PROVE  /\ UNCHANGED limiterVars => LimiterInv' /\ path' = path
         /\ UNCHANGED geocoderVars => /\ GeocoderInv' /\ missed \subseteq missed'
                                      /\ \A s \in Requests : call'[s] = call[s]
<1>1. UNCHANGED limiterVars => LimiterInv' /\ path' = path
  BY LimiterRests DEF IInv, limiterVars
<1>2. UNCHANGED geocoderVars => call' = call
  BY DEF geocoderVars
<1>3. UNCHANGED geocoderVars => GeocoderInv' /\ missed \subseteq missed'
  BY GeocoderRests DEF IInv
<1> QED BY <1>1, <1>2, <1>3

LEMMA NotAsking ==
  ASSUME IInv, NEW r \in Requests, req[r].at # "geocoding"
  PROVE  call[r].at = "none"
BY DEF IInv, HandlerOK, KeyOK

\* The middleware, and the handlers before they ask.
LEMMA StartHolds ==
  ASSUME IInv, NEW r \in Requests, Checks(r) \/ TooMany(r) \/ FoundInTable(r) \/ AsksGeocoder(r)
  PROVE  IInv'
<1>0. req[r] \in ReqRow /\ req[r].query \in Queries /\ late \subseteq Requests /\ rows \subseteq Sites
  BY HandlerRows, LookupTypes
<1>1. CASE Checks(r)
  <2>1. LimiterInv' /\ path' = path
    <3>1. LimiterInv'
      BY <1>1, LimiterSteps DEF IInv, Checks
    <3>2. path' = path
      BY <1>1 DEF Checks, LimiterStep, Refused, MemoryAllows, RedisCounts, RedisRecords, FailsOpen
    <3> QED BY <3>1, <3>2
  <2> QED BY <1>1, <2>1, Frames, HandlersRest DEF Checks
<1>2. CASE TooMany(r)
  <2>1. {} \in SUBSET Sites /\ "too many" \in Statuses /\ call'[r].at = "none"
    BY <1>2, Frames, NotAsking DEF TooMany, Statuses
  <2> QED BY <1>0, <1>2, <2>1, Frames, Replies DEF TooMany
<1>3. CASE FoundInTable(r)
  <2>1. Stored(r) \in SUBSET Sites /\ "found" \in Statuses /\ call'[r].at = "none"
    BY <1>0, <1>3, Frames, NotAsking DEF FoundInTable, Stored, Statuses
  <2>2. path[r] # "resolve"
    BY <1>3 DEF FoundInTable
  <2> QED BY <1>0, <1>3, <2>1, <2>2, Frames, Replies DEF FoundInTable
<1>4. CASE AsksGeocoder(r)
  <2> DEFINE q == req[r].query
             key == <<IF path[r] = "search" THEN "geocode" ELSE "search", q>>
             row == [req[r] EXCEPT !.at = "geocoding", !.known = Stored(r)]
  <2>1. key \in Keys
    BY <1>0, KeysOf DEF SearchKey
  <2>2. call' = [call EXCEPT ![r] = Asked(key)] /\ UNCHANGED quietGeocoder
    BY <1>4 DEF AsksGeocoder, Ask
  <2>3. GeocoderInv' /\ missed \subseteq missed'
    <3>1. call[r].at # "sleeping"
      BY <1>4, NotAsking DEF AsksGeocoder
    <3> QED BY <2>1, <2>2, <3>1, CallerHolds DEF IInv, quietGeocoder
  <2>4. call'[r].key = key /\ \A s \in Requests \ {r} : call'[s] = call[s]
    BY <2>2, LookupTypes DEF Asked, NoCall
  <2>5. Stored(r) \in SUBSET Sites
    BY <1>0 DEF Stored
  <2>6. /\ row \in ReqRow /\ row.at = "geocoding" /\ row.query = q
        /\ row.reply = req[r].reply /\ row.todo = req[r].todo
    BY <1>0, <2>5 DEF ReqRow, HandlerAts
  <2>7. req' = [req EXCEPT ![r] = row] /\ req'[r] = row
    BY <1>4, LookupTypes DEF AsksGeocoder
  <2>8. LimiterInv' /\ path' = path /\ path[r] \in {"search", "resolve"} /\ late' = late /\ rows' = rows
    BY <1>4, Frames, LookupTypes DEF AsksGeocoder
  <2>9. KeyOK(r)'
    BY <2>4, <2>6, <2>7, <2>8 DEF KeyOK, SearchKey
  <2>10. NotFoundOK(r) /\ RegionFree(r)
    BY DEF IInv, HandlerOK
  <2>11. NotFoundOK(r)'
    BY <2>3, <2>6, <2>7, <2>8, <2>10 DEF NotFoundOK, Earns, First, SearchKey
  <2>12. RegionFree(r)'
    BY <2>3, <2>6, <2>7, <2>8, <2>10 DEF RegionFree, IsRegion, First, SearchKey
  <2> QED BY <1>0, <2>3, <2>4, <2>6, <2>7, <2>8, <2>9, <2>11, <2>12, OneHandler
<1> QED BY <1>1, <1>2, <1>3, <1>4

\* The handler asks for another key, one that goes with its region.
LEMMA AsksAgain ==
  ASSUME IInv, NEW r \in Requests, req[r].at = "geocoding", call[r].at = "answered",
         NEW key \in Keys, Ask(r, key), UNCHANGED <<limiterVars, quietGeocoder, rows, req, late>>,
         path[r] = "resolve", IsRegion(req[r].query),
         \/ key = <<"hubs", First(req[r].query)>>
         \/ key = <<"city", First(req[r].query)>> /\ <<"hubs", First(req[r].query)>> \in missed
  PROVE  IInv'
<1>1. GeocoderInv' /\ missed \subseteq missed'
  BY CallerHolds DEF IInv, Ask, quietGeocoder
<1>2. call'[r].key = key /\ \A s \in Requests \ {r} : call'[s] = call[s]
  BY LookupTypes DEF Ask, Asked, NoCall
<1>3. /\ LimiterInv' /\ path' = path /\ req[r] \in ReqRow /\ late' \subseteq Requests
      /\ rows' \subseteq Sites /\ req' = [req EXCEPT ![r] = req[r]] /\ req'[r] = req[r]
  BY Frames, LookupTypes
<1>4. KeyOK(r)'
  BY <1>1, <1>2, <1>3 DEF KeyOK, SearchKey, First, IsRegion
<1>5. NotFoundOK(r) /\ RegionFree(r)
  BY DEF IInv, HandlerOK
<1>6. NotFoundOK(r)'
  BY <1>1, <1>3, <1>5 DEF NotFoundOK, Earns, First, SearchKey
<1>7. RegionFree(r)'
  BY <1>1, <1>3, <1>5 DEF RegionFree, IsRegion, First, SearchKey
<1>8. req[r].at = "storing" => req[r].todo # {}
  BY LookupTypes
<1> QED BY <1>1, <1>2, <1>3, <1>4, <1>6, <1>7, <1>8, OneHandler

\* What the geocoder found, or raised, for a search or for a resolve.
LEMMA AnswerHolds ==
  ASSUME IInv, NEW r \in Requests,
         \/ SearchIsAnswered(r) \/ GeocoderRaises(r)
         \/ ResolveFindsRegion(r) \/ ResolveIsAnswered(r)
  PROVE  IInv'
<1> DEFINE q == req[r].query
<1>0. q \in Queries /\ late \subseteq Requests /\ rows \subseteq Sites
  BY HandlerRows, LookupTypes
<1>1. {} \in SUBSET Sites /\ {} \cap Regions = {}
  OBVIOUS
<1>2. CASE SearchIsAnswered(r)
  <2>1. path[r] = "search" /\ call[r].key = <<"geocode", q>>
    BY <1>2, AskedFor DEF SearchIsAnswered, AsksFor
  <2>2. /\ GeocoderInv' /\ missed \subseteq missed' /\ call'[r].at = "none"
        /\ \A s \in Requests \ {r} : call'[s] = call[s]
    BY <1>2, CallEnds DEF SearchIsAnswered
  <2>3. LimiterInv' /\ path' = path /\ rows' = rows /\ late' = late
    BY <1>2, Frames DEF SearchIsAnswered
  <2>4. CASE Got(r) = <<>>
    <3>1. Earns(r)
      BY <1>2, <2>1, <2>4, GotIs DEF Earns, SearchIsAnswered
    <3>2. Reply(r, "not found", {}) /\ "not found" \in Statuses
      BY <1>2, <2>4 DEF SearchIsAnswered, Statuses
    <3> QED BY <1>0, <1>1, <2>2, <2>3, <3>1, <3>2, Replies
  <2>5. CASE Got(r) # <<>>
    <3>1. SitesIn(Got(r)) \in SUBSET Sites /\ SitesIn(Got(r)) # {}
      BY <1>2, <2>5, GotIs, HitsAreSites DEF SearchIsAnswered
    <3>2. Offer(r, "found", SitesIn(Got(r))) /\ "found" \in OfferKinds
      BY <1>2, <2>5 DEF SearchIsAnswered, OfferKinds
    <3>3. path[r] # "resolve"
      BY <2>1
    <3> QED BY <1>0, <2>2, <2>3, <3>1, <3>2, <3>3, Offers
  <2> QED BY <2>4, <2>5
<1>3. CASE GeocoderRaises(r)
  <2>1. /\ GeocoderInv' /\ missed \subseteq missed' /\ call'[r].at = "none"
        /\ \A s \in Requests \ {r} : call'[s] = call[s]
    BY <1>3, CallEnds DEF GeocoderRaises
  <2>2. LimiterInv' /\ path' = path /\ rows' = rows /\ late' = late
    BY <1>3, Frames DEF GeocoderRaises
  <2>3. PICK status \in {"bad gateway", "error"} : Reply(r, status, {})
    BY <1>3 DEF GeocoderRaises
  <2>4. status \in Statuses /\ status # "not found"
    BY DEF Statuses
  <2> QED BY <1>0, <1>1, <2>1, <2>2, <2>3, <2>4, Replies
<1>4. CASE ResolveFindsRegion(r)
  <2>1. path[r] = "resolve" /\ call[r].key = SearchKey(q)
    BY <1>4, AskedFor DEF ResolveFindsRegion, AsksFor
  <2>2. Got(r) = Answer[SearchKey(q)]
    BY <1>4, <2>1, GotIs DEF ResolveFindsRegion, RegionFirst
  <2>3. IsRegion(q) /\ Head(Got(r)) = First(q)
    BY <1>4, <2>2 DEF ResolveFindsRegion, RegionFirst, IsRegion, First
  <2>4. <<"hubs", First(q)>> \in Keys /\ Ask(r, <<"hubs", First(q)>>)
    BY <1>0, <1>4, <2>3, KeysOf DEF ResolveFindsRegion
  <2> QED BY <1>4, <2>1, <2>3, <2>4, AsksAgain DEF ResolveFindsRegion, AsksFor
<1>5. CASE ResolveIsAnswered(r)
  <2>1. path[r] = "resolve" /\ call[r].key = SearchKey(q)
    BY <1>5, AskedFor DEF ResolveIsAnswered, AsksFor
  <2>2. /\ GeocoderInv' /\ missed \subseteq missed' /\ call'[r].at = "none"
        /\ \A s \in Requests \ {r} : call'[s] = call[s]
    BY <1>5, CallEnds DEF ResolveIsAnswered
  <2>3. LimiterInv' /\ path' = path /\ rows' = rows /\ late' = late
    BY <1>5, Frames DEF ResolveIsAnswered
  <2>4. /\ Got(r) \in Seq(Sites) /\ Decide(r, Got(r))
        /\ Got(r) = <<>> => SearchKey(q) \in missed
        /\ Got(r) # <<>> => Head(Got(r)) \notin Regions /\ Got(r) = Answer[SearchKey(q)]
    BY <1>5, <2>1, GotIs DEF ResolveIsAnswered, RegionFirst
  <2> QED BY <1>0, <2>1, <2>2, <2>3, <2>4, Decides
<1> QED BY <1>2, <1>3, <1>4, <1>5

\* Hubs of a region: cities, or nothing that was earned.
LEMMA HubsHold ==
  ASSUME IInv, NEW r \in Requests, TriesCities(r) \/ SuggestsHubs(r)
  PROVE  IInv'
<1> DEFINE q == req[r].query
<1>0. q \in Queries /\ late \subseteq Requests /\ rows \subseteq Sites
  BY HandlerRows, LookupTypes
<1>1. CASE TriesCities(r)
  <2>1. path[r] = "resolve" /\ IsRegion(q) /\ call[r].key = <<"hubs", First(q)>>
    BY <1>1, AskedFor DEF TriesCities, AsksFor
  <2>2. <<"hubs", First(q)>> \in missed /\ call[r].key[2] = First(q)
    BY <1>1, <2>1, GotIs DEF TriesCities
  <2>3. <<"city", First(q)>> \in Keys /\ Ask(r, <<"city", First(q)>>)
    BY <1>0, <1>1, <2>1, <2>2, KeysOf DEF TriesCities
  <2> QED BY <1>1, <2>1, <2>2, <2>3, AsksAgain DEF TriesCities, AsksFor
<1>2. CASE SuggestsHubs(r)
  <2> DEFINE hubs == Hubs(Got(r), call[r].key[2])
  <2>1. /\ path[r] = "resolve" /\ call[r].key[2] = First(q)
        /\ \/ call[r].key = <<"hubs", First(q)>> /\ Got(r) # <<>>
           \/ call[r].key = <<"city", First(q)>> /\ <<"hubs", First(q)>> \in missed
    <3>1. req[r].at = "geocoding" /\ (AsksFor(r, "hubs") \/ AsksFor(r, "city"))
      BY <1>2 DEF SuggestsHubs, AsksFor
    <3>2. CASE AsksFor(r, "hubs")
      <4>1. path[r] = "resolve" /\ call[r].key = <<"hubs", First(q)>>
        BY <3>1, <3>2, AskedFor
      <4>2. Got(r) # <<>>
        BY <1>2, <3>2 DEF SuggestsHubs
      <4>3. call[r].key[2] = First(q)
        BY <4>1
      <4> QED BY <4>1, <4>2, <4>3
    <3>3. CASE AsksFor(r, "city")
      <4>1. /\ path[r] = "resolve" /\ call[r].key = <<"city", First(q)>>
            /\ <<"hubs", First(q)>> \in missed
        BY <3>1, <3>3, AskedFor
      <4>2. call[r].key[2] = First(q)
        BY <4>1
      <4> QED BY <4>1, <4>2
    <3> QED BY <3>1, <3>2, <3>3
  <2>2. /\ GeocoderInv' /\ missed \subseteq missed' /\ call'[r].at = "none"
        /\ \A s \in Requests \ {r} : call'[s] = call[s]
    BY <1>2, CallEnds DEF SuggestsHubs
  <2>3. LimiterInv' /\ path' = path /\ rows' = rows /\ late' = late
    BY <1>2, Frames DEF SuggestsHubs
  <2>4. hubs \in SUBSET Sites /\ hubs \cap Regions = {}
    BY <1>2, GotIs, HitsAreSites DEF SuggestsHubs, Hubs, CityScale
  <2>5. CASE hubs = {}
    <3>1. CASE Got(r) = <<>>
      <4>1. <<"city", First(q)>> \in missed /\ <<"hubs", First(q)>> \in missed
        BY <1>2, <2>1, <3>1, GotIs DEF SuggestsHubs
      <4> QED BY <1>0, <1>2, <2>1, <2>2, <2>3, <2>5, <4>1, Replies DEF SuggestsHubs, Earns, Statuses
    <3>2. CASE Got(r) # <<>>
      <4>1. Got(r) = Answer[call[r].key]
        BY <1>2, <3>2, GotIs DEF SuggestsHubs
      <4>2. Earns(r)
        BY <2>1, <2>5, <4>1 DEF Earns
      <4> QED BY <1>0, <1>2, <2>2, <2>3, <2>5, <4>2, Replies DEF SuggestsHubs, Statuses
    <3> QED BY <3>1, <3>2
  <2>6. CASE hubs # {}
    <3>1. Offer(r, "hubs", hubs) /\ "hubs" \in OfferKinds
      BY <1>2, <2>6 DEF SuggestsHubs, OfferKinds
    <3> QED BY <1>0, <2>2, <2>3, <2>4, <2>6, <3>1, Offers
  <2> QED BY <2>5, <2>6
<1> QED BY <1>1, <1>2

\* A site is stored, and offered.
LEMMA StoresHold ==
  ASSUME IInv, NEW r \in Requests, Stores(r)
  PROVE  IInv'
<1> DEFINE q == req[r].query
<1>0. /\ req[r] \in ReqRow /\ q \in Queries /\ late \subseteq Requests /\ rows \subseteq Sites
      /\ RegionFree(r) /\ NotFoundOK(r) /\ call[r].at = "none"
  BY HandlerRows, LookupTypes, NotAsking DEF IInv, HandlerOK, Stores
<1>1. /\ LimiterInv' /\ GeocoderInv' /\ missed \subseteq missed' /\ path' = path /\ late' = late
      /\ \A s \in Requests : call'[s] = call[s]
  BY Frames DEF Stores
<1>2. PICK site \in req[r].todo :
        /\ rows' = rows \cup {site}
        /\ IF req[r].todo = {site} THEN Reply(r, req[r].kind, req[r].reply.sites \cup {site})
           ELSE req' = [req EXCEPT ![r] = WithSite(@, site)]
  BY DEF Stores
<1> DEFINE offered == req[r].reply.sites \cup {site}
<1>3. /\ req[r].todo \in SUBSET Sites /\ req[r].reply \in [status : Statuses, sites : SUBSET Sites]
      /\ req[r].kind \in OfferKinds
  BY <1>0 DEF ReqRow
<1>4. req[r].reply.sites \in SUBSET Sites
  BY <1>3
<1>5. offered \in SUBSET Sites /\ rows' \subseteq Sites
  BY <1>0, <1>2, <1>3, <1>4
<1>6. offered \subseteq req[r].reply.sites \cup req[r].todo
  OBVIOUS
<1>7. CASE req[r].todo = {site}
  <2>1. Reply(r, req[r].kind, offered)
    BY <1>2, <1>7
  <2>2. req[r].kind \in Statuses /\ req[r].kind # "not found"
    BY <1>3 DEF OfferKinds, Statuses
  <2>3. \/ offered \cap Regions = {} \/ path[r] # "resolve" \/ r \in late'
        \/ SearchKey(q) \in missed \/ ~IsRegion(q)
    BY <1>0, <1>1, <1>6 DEF RegionFree
  <2>4. call'[r].at = "none" /\ late \subseteq late' /\ late' \subseteq Requests
    BY <1>0, <1>1
  <2> QED BY <1>1, <1>5, <2>1, <2>2, <2>3, <2>4, Replies
<1>8. CASE req[r].todo # {site}
  <2> DEFINE reply == [status |-> req[r].reply.status, sites |-> offered]
             row == WithSite(req[r], site)
  <2>1. /\ reply \in [status : Statuses, sites : SUBSET Sites]
        /\ reply.status = req[r].reply.status /\ reply.sites = offered
    BY <1>3, <1>5
  <2>2. /\ row \in ReqRow /\ row.query = q /\ row.at = req[r].at
        /\ row.todo = req[r].todo \ {site} /\ row.reply = reply
    BY <1>0, <1>3, <2>1 DEF ReqRow, WithSite
  <2>3. req' = [req EXCEPT ![r] = row] /\ req'[r] = row
    BY <1>2, <1>8, LookupTypes
  <2>4. row.todo # {} /\ row.at = "storing"
    BY <1>8, <2>2 DEF Stores
  <2>5. KeyOK(r)'
    BY <1>0, <1>1, <2>3, <2>4 DEF KeyOK
  <2>6. NotFoundOK(r)'
    BY <1>0, <1>1, <2>1, <2>2, <2>3 DEF NotFoundOK, Earns, First, SearchKey
  <2>7. (row.reply.sites \cup row.todo) \subseteq (req[r].reply.sites \cup req[r].todo)
    BY <2>1, <2>2
  <2>8. RegionFree(r)'
    BY <1>0, <1>1, <2>2, <2>3, <2>7 DEF RegionFree, IsRegion, First, SearchKey
  <2>9. late \subseteq late' /\ late' \subseteq Requests
    BY <1>0, <1>1
  <2> QED BY <1>1, <1>5, <2>2, <2>3, <2>4, <2>5, <2>6, <2>8, <2>9, OneHandler
<1> QED BY <1>7, <1>8

\* The database raises: the reply is an error, and offers nothing.
LEMMA StoreFailsHolds ==
  ASSUME IInv, NEW r \in Requests, StoreFails(r)
  PROVE  IInv'
<1>1. /\ req[r] \in ReqRow /\ late \subseteq Requests /\ rows \subseteq Sites
      /\ call[r].at = "none"
  BY HandlerRows, LookupTypes, NotAsking DEF StoreFails
<1>2. /\ LimiterInv' /\ GeocoderInv' /\ missed \subseteq missed' /\ path' = path /\ late' = late
      /\ \A s \in Requests : call'[s] = call[s]
  BY Frames DEF StoreFails
<1>3. req[r].todo \in SUBSET Sites
  BY <1>1 DEF ReqRow
<1>4. rows' \subseteq Sites
  BY <1>1, <1>3 DEF StoreFails
<1>5. Reply(r, "error", {}) /\ "error" \in Statuses /\ {} \in SUBSET Sites
  BY DEF StoreFails, Statuses
<1> QED BY <1>1, <1>2, <1>4, <1>5, Replies

\* A deadline passed: the call is cancelled, and what was found before it stays.
LEMMA LateHolds ==
  ASSUME IInv, NEW r \in Requests, IsLate(r)
  PROVE  IInv'
<1>0. late \subseteq Requests /\ rows \subseteq Sites
  BY LookupTypes
<1>1. /\ LimiterInv' /\ path' = path /\ rows' = rows /\ late' = late \cup {r} /\ EndCall(r)
  BY Frames DEF IsLate, SearchIsLate, ResolveIsLate, HubsAreLate
<1>2. \/ call[r].at # "sleeping" /\ UNCHANGED quietGeocoder
      \/ Cancelled(r)
  BY NotAsking DEF IsLate, SearchIsLate, ResolveIsLate, HubsAreLate
<1>3. /\ GeocoderInv' /\ missed \subseteq missed' /\ call'[r].at = "none"
      /\ \A s \in Requests \ {r} : call'[s] = call[s]
  BY <1>1, <1>2, CallEnds
<1>4. /\ rows' \subseteq Sites /\ late \subseteq late' /\ late' \subseteq Requests /\ r \in late'
      /\ {} \in SUBSET Sites /\ "not found" \in Statuses
  BY <1>0, <1>1 DEF Statuses
<1>5. CASE SearchIsLate(r) \/ HubsAreLate(r)
  <2>1. Reply(r, "not found", {})
    BY <1>5 DEF SearchIsLate, HubsAreLate
  <2> QED BY <1>1, <1>3, <1>4, <2>1, Replies
<1>6. CASE ResolveIsLate(r)
  <2>1. path[r] = "resolve" /\ Decide(r, <<>>)
    BY <1>6, AskedFor DEF ResolveIsLate, AsksFor
  <2>2. <<>> \in Seq(Sites)
    OBVIOUS
  <2> QED BY <1>1, <1>3, <1>4, <2>1, <2>2, Decides
<1> QED BY <1>5, <1>6 DEF IsLate

\* A call keeps its key, and calls that are over stay so.
LEMMA GeocodesHolds ==
  ASSUME IInv, NEW r \in Requests, Geocodes(r)
  PROVE  IInv'
<1>1. GeocoderInv' /\ missed \subseteq missed' /\ LimiterInv' /\ path' = path
  BY GeocoderSteps, Frames DEF IInv, Geocodes
<1>2. call \in [Requests -> CallRow]
  BY LookupTypes
<1>3. /\ call'[r].key = call[r].key
      /\ \A s \in Requests \ {r} : call'[s] = call[s]
  BY <1>2 DEF Geocodes, GeocoderStep, EntersThrottle, PassesThrottle, NominatimReplies,
     NominatimAnswers, NominatimFails, NominatimRejects, Rejection, NominatimGarbles,
     AttemptTimesOut, Retries, Settle, CallRow
<1>4. \A s \in Requests : /\ req[s].at = "geocoding" => call'[s].key = call[s].key
                          /\ req[s].at # "geocoding" => call'[s].at = call[s].at
  BY <1>3 DEF Geocodes
<1> QED BY <1>1, <1>4, HandlersRest DEF Geocodes

LEMMA TickHolds ==
  ASSUME IInv, Tick
  PROVE  IInv'
<1>1. GeocoderInv' /\ missed \subseteq missed'
  BY GeocoderAges DEF IInv, Tick
<1>2. LimiterInv' /\ path' = path
  BY LimiterAges DEF IInv, Tick, LimiterTick
<1>3. \A s \in Requests : call'[s].key = call[s].key /\ call'[s].at = call[s].at
  <2> SUFFICES ASSUME NEW s \in Requests
               PROVE  call'[s].key = call[s].key /\ call'[s].at = call[s].at
    OBVIOUS
  <2>1. call[s] \in CallRow
    BY LookupTypes
  <2>2. call'[s] = IF call[s].wait > 0 THEN [call[s] EXCEPT !.wait = @ - 1] ELSE call[s]
    BY DEF Tick, GeocoderTick
  <2> QED BY <2>1, <2>2 DEF CallRow
<1> QED BY <1>1, <1>2, <1>3, HandlersRest DEF Tick

(***************************************************************************)
(* The theorems                                                            *)
(***************************************************************************)
LEMMA Starts == Init => IInv
<1> SUFFICES ASSUME Init PROVE IInv
  OBVIOUS
<1>1. LimiterInv /\ GeocoderInv
  BY LimiterStarts, GeocoderStarts DEF Init
<1>2. PICK query \in [Requests -> Queries] : req = [r \in Requests |-> Handler(query[r])]
  BY DEF Init
<1>3. ASSUME NEW r \in Requests
      PROVE  /\ req[r] \in ReqRow /\ req[r].at = "start" /\ req[r].reply = NoReply
             /\ req[r].todo = {}
  BY <1>2 DEF Handler, NoReply, ReqRow, HandlerAts, OfferKinds, Statuses
<1>4. req \in [Requests -> ReqRow]
  BY <1>2, <1>3
<1>5. TypeOK
  <2>1. rows \subseteq Sites /\ late \subseteq Requests
    BY LookupAssumption DEF Init
  <2> QED BY <1>1, <1>3, <1>4, <2>1
          DEF TypeOK, LimiterInv, GeocoderInv, ReqRow, HandlerAts, OfferKinds, Statuses
<1>6. ASSUME NEW r \in Requests PROVE HandlerOK(r)
  <2>1. KeyOK(r)
    BY <1>3 DEF KeyOK, Init, GeocoderInit, NoCall
  <2>2. NotFoundOK(r)
    <3>1. NoReply.status # "not found"
      BY DEF NoReply
    <3> QED BY <1>3, <3>1 DEF NotFoundOK
  <2>3. RegionFree(r)
    BY <1>3 DEF RegionFree, NoReply
  <2> QED BY <2>1, <2>2, <2>3 DEF HandlerOK
<1> QED BY <1>1, <1>5, <1>6 DEF IInv

LEMMA Steps == IInv /\ [Next]_vars => IInv'
<1> SUFFICES ASSUME IInv, [Next]_vars PROVE IInv'
  OBVIOUS
<1>1. ASSUME NEW r \in Requests, Proceeds(r) PROVE IInv'
  BY <1>1, StartHolds, AnswerHolds, HubsHold, StoresHold, StoreFailsHolds, GeocodesHolds
     DEF Proceeds
<1>2. ASSUME NEW r \in Requests, IsLate(r) PROVE IInv'
  BY <1>2, LateHolds
<1>3. CASE Tick
  BY <1>3, TickHolds
<1>4. CASE UNCHANGED vars
  <2>1. UNCHANGED limiterVars /\ UNCHANGED geocoderVars /\ UNCHANGED <<rows, req, late>>
    BY <1>4 DEF vars
  <2>2. \A s \in Requests : call'[s] = call[s]
    BY <2>1, Frames
  <2> QED BY <2>1, <2>2, Frames, HandlersRest
<1> QED BY <1>1, <1>2, <1>3, <1>4 DEF Next

THEOREM Invariant == Spec => []IInv
BY Starts, Steps, PTL DEF Spec

\* The limiter, the geocoder and the handlers keep their types, a lock of the
\* throttle is held by the call that sleeps in it, and what a handler stores is
\* not empty.
THEOREM TypeCorrect == Spec => []TypeOK
<1>1. IInv => TypeOK
  BY DEF IInv
<1> QED BY <1>1, Invariant, PTL

\* The limit of a path holds in every window, up to the requests that raced.
THEOREM LimitHolds == Spec => []WindowHolds
<1>1. IInv => WindowHolds
  BY LimiterHolds DEF IInv
<1> QED BY <1>1, Invariant, PTL

\* Of the calls that pass the throttle one a second sends its first request: the
\* lock keeps true, to the end of a sleep, what its holder read before it.
THEOREM CallsStaySpaced == Spec => []CallsAreSpaced
<1>1. IInv => CallsAreSpaced
  BY GeocoderSpaces DEF IInv
<1> QED BY <1>1, Invariant, PTL

\* "Not found" is never what a rejection by Nominatim looks like.
THEOREM NotFoundStaysEarned == Spec => []NotFoundIsEarned
<1>1. IInv => NotFoundIsEarned
  BY DEF IInv, HandlerOK, NotFoundOK, Earns, NotFoundIsEarned, First, SearchKey
<1> QED BY <1>1, Invariant, PTL

\* A region is offered only by a request that was late, or whose query got no
\* answer, now or when its result was cached.  (That it is never offered is false.)
THEOREM RegionsStayUnplanned == Spec => []RegionIsPlannedUnanswered
<1>1. IInv => RegionIsPlannedUnanswered
  <2> SUFFICES ASSUME IInv, NEW r \in Requests, AsksForRegion(r),
                      r \notin late, SearchKey(req[r].query) \notin missed
               PROVE  req[r].reply.sites \cap Regions = {}
    BY DEF RegionIsPlannedUnanswered, SearchKey
  <2>1. path[r] = "resolve" /\ IsRegion(req[r].query)
    BY DEF AsksForRegion, SearchKey, IsRegion, First
  <2>2. (req[r].reply.sites \cup req[r].todo) \cap Regions = {}
    BY <2>1 DEF IInv, HandlerOK, RegionFree
  <2> QED BY <2>2
<1> QED BY <1>1, Invariant, PTL

=============================================================================
