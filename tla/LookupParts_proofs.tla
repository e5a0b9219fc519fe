-------------------------- MODULE LookupParts_proofs --------------------------
(***************************************************************************)
(* What every step of the rate limiter and of a geocoder call preserves,   *)
(* for every set of requests, paths and keys, every limit and window,      *)
(* whatever Nominatim answers and however often a call is tried.  Lookup   *)
(* composes the two parts with the handlers; the theorems of its           *)
(* specification are in Lookup_proofs.                                     *)
(***************************************************************************)
EXTENDS RateLimiter, Geocoder, FiniteSetTheorems, TLAPS

(***************************************************************************)
(* The rate limiter                                                        *)
(***************************************************************************)
\* Let through, or about to be, in the last Window seconds and not by a failure.
Passed(p) == {r \in Requests : check[r] \in {"allowed", "counted"} /\ InWindow(r, p)} \ open

\* What memory lets through it has recorded, and Redis soon will.
OnRecord ==
  /\ limiter = "memory" => /\ open = {} /\ raced = {}
                           /\ \A r \in Requests : check[r] # "counted"
  /\ \A r \in Requests :
       check[r] = "allowed" /\ clock[r] < Window /\ r \notin open => r \in logged

\* WindowHolds does not say what a request may find that is counted and not yet
\* recorded: either the limit holds with it, or it holds without those that raced.
Bounded(p) == Cardinality(Passed(p)) <= Limit \/ Cardinality(Passed(p) \ raced) < Limit

LimiterInv == LimiterTypeOK /\ OnRecord /\ \A p \in Paths : Bounded(p)

(***************************************************************************)
(* Cardinalities                                                           *)
(***************************************************************************)
LEMMA SubsetCard ==
  ASSUME NEW S \in SUBSET Requests, NEW T \in SUBSET S
  PROVE  /\ IsFiniteSet(S) /\ Cardinality(S) \in Nat /\ Cardinality(T) \in Nat
         /\ Cardinality(T) <= Cardinality(S)
<1>1. IsFiniteSet(S) /\ IsFiniteSet(T)
  BY RequestsAssumption, FS_Subset
<1> QED BY <1>1, FS_Subset, FS_CardinalityType

LEMMA AddCard ==
  ASSUME NEW S \in SUBSET Requests, NEW r \in Requests
  PROVE  Cardinality(S \cup {r}) <= Cardinality(S) + 1
<1>1. IsFiniteSet(S) /\ Cardinality(S) \in Nat
  BY SubsetCard
<1>2. Cardinality(S \cup {r}) = IF r \in S THEN Cardinality(S) ELSE Cardinality(S) + 1
  BY <1>1, FS_AddElement
<1> QED BY <1>1, <1>2

\* The bound survives when nobody passes.
LEMMA Shrinks ==
  ASSUME NEW p \in Paths, Bounded(p), Passed(p) \subseteq Requests,
         Passed(p)' \subseteq Passed(p), Passed(p)' \ raced' \subseteq Passed(p) \ raced
  PROVE  Bounded(p)'
<1>1. /\ Cardinality(Passed(p)') \in Nat /\ Cardinality(Passed(p)) \in Nat
      /\ Cardinality(Passed(p)') <= Cardinality(Passed(p))
  BY SubsetCard
<1>2. /\ Cardinality(Passed(p)' \ raced') \in Nat /\ Cardinality(Passed(p) \ raced) \in Nat
      /\ Cardinality(Passed(p)' \ raced') <= Cardinality(Passed(p) \ raced)
  <2>1. Passed(p) \ raced \in SUBSET Requests
    OBVIOUS
  <2> QED BY <2>1, SubsetCard
<1>3. Limit \in Nat
  BY LimiterAssumption
<1>4. CASE Cardinality(Passed(p)) <= Limit
  <2>1. Cardinality(Passed(p)') <= Limit
    BY <1>1, <1>3, <1>4
  <2> QED BY <2>1 DEF Bounded
<1>5. CASE Cardinality(Passed(p) \ raced) < Limit
  <2>1. Cardinality(Passed(p)' \ raced') < Limit
    BY <1>2, <1>3, <1>5
  <2> QED BY <2>1 DEF Bounded
<1> QED BY <1>4, <1>5 DEF Bounded

LEMMA PassedAreRequests == \A p : Passed(p) \subseteq Requests
BY DEF Passed

(***************************************************************************)
(* The steps                                                               *)
(***************************************************************************)
LEMMA LimiterStarts == LimiterInit => LimiterInv
<1> SUFFICES ASSUME LimiterInit PROVE LimiterInv
  OBVIOUS
<1>1. LimiterTypeOK
  BY LimiterAssumption DEF LimiterInit, LimiterTypeOK
<1>2. OnRecord
  BY DEF LimiterInit, OnRecord
<1>3. ASSUME NEW p \in Paths PROVE Bounded(p)
  <2>1. Passed(p) = {}
    BY DEF LimiterInit, Passed
  <2>2. Cardinality(Passed(p)) = 0
    BY <2>1, FS_EmptySet
  <2> QED BY <2>2, LimiterAssumption DEF Bounded
<1> QED BY <1>1, <1>2, <1>3 DEF LimiterInv

\* A request that was new has passed: the bound holds of its path, if it did of
\* what was recorded there, or of the others without those that race.
LEMMA OnePasses ==
  ASSUME LimiterInv, NEW r \in Requests,
         check[r] = "new", ~IsFull(path[r]),
         path' = path, open' = open, raced \subseteq raced',
         clock' = [clock EXCEPT ![r] = 0],
         NEW verdict \in {"allowed", "counted"}, check' = [check EXCEPT ![r] = verdict],
         Counting(path[r]) = {} \/ (r \in raced' /\ Counting(path[r]) \subseteq raced')
  PROVE  \A p \in Paths : Bounded(p)'
<1> DEFINE q == path[r]
<1>1. /\ check \in [Requests -> {"new", "counted", "allowed", "refused"}]
      /\ clock \in [Requests -> 0..Window] /\ Window \in Nat \ {0} /\ Limit \in Nat \ {0}
      /\ q \in Paths /\ logged \subseteq Requests
  BY LimiterAssumption DEF LimiterInv, LimiterTypeOK
<1>2. ASSUME NEW p \in Paths, p # q PROVE Bounded(p)'
  <2>1. Passed(p)' = Passed(p)
    BY <1>1, <1>2 DEF Passed, InWindow
  <2> QED BY <2>1, Shrinks, PassedAreRequests DEF LimiterInv
<1>3. Bounded(q)'
  <2>1. Recorded(q) \in SUBSET Requests
    BY <1>1 DEF Recorded
  <2>2. Cardinality(Recorded(q)) \in Nat /\ Cardinality(Recorded(q)) < Limit
    <3>1. Cardinality(Recorded(q)) \in Nat
      BY <2>1, SubsetCard
    <3> QED BY <1>1, <3>1 DEF IsFull
  <2>3. Passed(q)' \subseteq Passed(q) \cup {r}
    BY <1>1 DEF Passed, InWindow
  <2>4. Passed(q) \subseteq Recorded(q) \cup Counting(q)
    BY <1>1 DEF Passed, Recorded, Counting, InWindow, LimiterInv, OnRecord
  <2>5. CASE Counting(q) = {}
    <3>1. Passed(q)' \subseteq Recorded(q) \cup {r} /\ Recorded(q) \cup {r} \in SUBSET Requests
      BY <2>1, <2>3, <2>4, <2>5
    <3>2. /\ Cardinality(Passed(q)') \in Nat /\ Cardinality(Recorded(q) \cup {r}) \in Nat
          /\ Cardinality(Passed(q)') <= Cardinality(Recorded(q) \cup {r})
      BY <3>1, SubsetCard
    <3>3. Cardinality(Recorded(q) \cup {r}) <= Cardinality(Recorded(q)) + 1
      BY <2>1, AddCard
    <3>4. Cardinality(Passed(q)') <= Limit
      BY <1>1, <2>2, <3>2, <3>3
    <3> QED BY <3>4 DEF Bounded
  <2>6. CASE r \in raced' /\ Counting(q) \subseteq raced'
    <3>1. Passed(q)' \ raced' \subseteq Recorded(q)
      BY <2>3, <2>4, <2>6
    <3>2. /\ Cardinality(Passed(q)' \ raced') \in Nat
          /\ Cardinality(Passed(q)' \ raced') <= Cardinality(Recorded(q))
      BY <2>1, <3>1, SubsetCard
    <3>3. Cardinality(Passed(q)' \ raced') < Limit
      BY <1>1, <2>2, <3>2
    <3> QED BY <3>3 DEF Bounded
  <2> QED BY <2>5, <2>6
<1> QED BY <1>2, <1>3

LEMMA LimiterSteps ==
  ASSUME LimiterInv, NEW r \in Requests, LimiterStep(r)
  PROVE  LimiterInv'
<1>0. /\ check \in [Requests -> {"new", "counted", "allowed", "refused"}]
      /\ clock \in [Requests -> 0..Window] /\ Window \in Nat \ {0} /\ Limit \in Nat \ {0}
      /\ path \in [Requests -> Paths] /\ 0 \in 0..Window
      /\ logged \subseteq Requests /\ open \subseteq Requests /\ raced \subseteq Requests
      /\ limiter \in {"memory", "redis"} /\ OnRecord /\ \A p \in Paths : Bounded(p)
  BY LimiterAssumption DEF LimiterInv, LimiterTypeOK
<1>1. CASE Refused(r)
  <2>1. LimiterTypeOK'
    BY <1>0, <1>1 DEF Refused, LimiterTypeOK
  <2>2. OnRecord'
    BY <1>0, <1>1 DEF Refused, OnRecord
  <2>3. ASSUME NEW p \in Paths PROVE Bounded(p)'
    <3>1. Passed(p)' = Passed(p) /\ raced' = raced
      BY <1>0, <1>1 DEF Refused, Passed, InWindow
    <3> QED BY <1>0, <3>1, Shrinks, PassedAreRequests
  <2> QED BY <2>1, <2>2, <2>3 DEF LimiterInv
<1>2. CASE MemoryAllows(r)
  <2>1. LimiterTypeOK'
    BY <1>0, <1>2 DEF MemoryAllows, Reads, LimiterTypeOK
  <2>2. OnRecord'
    BY <1>0, <1>2 DEF MemoryAllows, Reads, OnRecord
  <2>3. Counting(path[r]) = {}
    BY <1>0, <1>2 DEF MemoryAllows, OnRecord, Counting
  <2>4. \A p \in Paths : Bounded(p)'
    BY <1>2, <2>3, OnePasses DEF MemoryAllows, Reads
  <2> QED BY <2>1, <2>2, <2>4 DEF LimiterInv
<1>3. CASE RedisCounts(r)
  <2>1. Counting(path[r]) \subseteq Requests
    BY DEF Counting
  <2>2. LimiterTypeOK'
    BY <1>0, <1>3, <2>1 DEF RedisCounts, Reads, LimiterTypeOK
  <2>3. OnRecord'
    BY <1>0, <1>3 DEF RedisCounts, Reads, OnRecord
  <2>4. /\ raced \subseteq raced'
        /\ Counting(path[r]) = {} \/ (r \in raced' /\ Counting(path[r]) \subseteq raced')
    BY <1>3 DEF RedisCounts
  <2>5. \A p \in Paths : Bounded(p)'
    BY <1>3, <2>4, OnePasses DEF RedisCounts, Reads
  <2> QED BY <2>2, <2>3, <2>5 DEF LimiterInv
<1>4. CASE RedisRecords(r)
  <2>1. LimiterTypeOK'
    BY <1>0, <1>4 DEF RedisRecords, LimiterTypeOK
  <2>2. OnRecord'
    BY <1>0, <1>4 DEF RedisRecords, OnRecord
  <2>3. ASSUME NEW p \in Paths PROVE Bounded(p)'
    <3>1. Passed(p)' = Passed(p) /\ raced' = raced
      BY <1>0, <1>4 DEF RedisRecords, Passed, InWindow
    <3> QED BY <1>0, <3>1, Shrinks, PassedAreRequests
  <2> QED BY <2>1, <2>2, <2>3 DEF LimiterInv
<1>5. CASE FailsOpen(r)
  <2>1. LimiterTypeOK'
    BY <1>0, <1>5 DEF FailsOpen, Reads, LimiterTypeOK
  <2>2. OnRecord'
    BY <1>0, <1>5 DEF FailsOpen, Reads, OnRecord
  <2>3. ASSUME NEW p \in Paths PROVE Bounded(p)'
    <3>1. Passed(p)' \subseteq Passed(p) /\ raced' = raced
      BY <1>0, <1>5 DEF FailsOpen, Reads, Passed, InWindow
    <3> QED BY <1>0, <3>1, Shrinks, PassedAreRequests
  <2> QED BY <2>1, <2>2, <2>3 DEF LimiterInv
<1> QED BY <1>1, <1>2, <1>3, <1>4, <1>5 DEF LimiterStep

LEMMA LimiterAges ==
  ASSUME LimiterInv, LimiterTick
  PROVE  LimiterInv'
<1>0. /\ check \in [Requests -> {"new", "counted", "allowed", "refused"}]
      /\ clock \in [Requests -> 0..Window] /\ Window \in Nat \ {0}
      /\ path \in [Requests -> Paths]
      /\ logged \subseteq Requests /\ open \subseteq Requests /\ raced \subseteq Requests
      /\ limiter \in {"memory", "redis"} /\ OnRecord /\ \A p \in Paths : Bounded(p)
  BY LimiterAssumption DEF LimiterInv, LimiterTypeOK
<1>1. /\ clock' \in [Requests -> 0..Window]
      /\ \A r \in Requests : clock'[r] < Window => clock[r] < Window
  BY <1>0 DEF LimiterTick
<1>2. LimiterTypeOK'
  BY <1>0, <1>1 DEF LimiterTick, LimiterTypeOK, Young
<1>3. OnRecord'
  BY <1>0, <1>1 DEF LimiterTick, OnRecord, Young
<1>4. ASSUME NEW p \in Paths PROVE Bounded(p)'
  <2>1. /\ Passed(p)' \subseteq Passed(p)
        /\ Passed(p)' \ raced' \subseteq Passed(p) \ raced
    BY <1>0, <1>1 DEF LimiterTick, Passed, InWindow, Young
  <2> QED BY <1>0, <2>1, Shrinks, PassedAreRequests
<1> QED BY <1>2, <1>3, <1>4 DEF LimiterInv

LEMMA LimiterRests ==
  ASSUME LimiterInv, UNCHANGED limiterVars
  PROVE  LimiterInv'
BY DEF LimiterInv, LimiterTypeOK, OnRecord, Bounded, Passed, InWindow, limiterVars

LEMMA LimiterHolds == LimiterInv => WindowHolds
<1> SUFFICES ASSUME LimiterInv, NEW p \in Paths
             PROVE  LET racing == raced \cap Admitted(p)
                    IN /\ racing = {} => Cardinality(Admitted(p) \ open) <= Limit
                       /\ racing # {} => Cardinality(Admitted(p) \ open) < Limit + Cardinality(racing)
                       /\ limiter = "memory" => racing = {} /\ open = {}
  BY DEF WindowHolds
<1> DEFINE racing == raced \cap Admitted(p)
           A == Admitted(p) \ open
<1>1. Limit \in Nat \ {0} /\ Bounded(p)
  BY LimiterAssumption DEF LimiterInv
<1>2. /\ Passed(p) \in SUBSET Requests /\ racing \in SUBSET Requests /\ A \in SUBSET Requests
      /\ A \subseteq Passed(p) /\ A \ racing \subseteq Passed(p) \ raced
  BY DEF Admitted, Passed
<1>3. /\ Cardinality(A) \in Nat /\ Cardinality(Passed(p)) \in Nat
      /\ Cardinality(A) <= Cardinality(Passed(p))
  BY <1>2, SubsetCard
<1>4. /\ IsFiniteSet(Passed(p) \ raced) /\ Cardinality(Passed(p) \ raced) \in Nat
      /\ Cardinality(A \ racing) \in Nat
      /\ Cardinality(A \ racing) <= Cardinality(Passed(p) \ raced)
  <2>1. Passed(p) \ raced \in SUBSET Requests
    BY <1>2
  <2> QED BY <1>2, <2>1, SubsetCard
<1>5. IsFiniteSet(racing) /\ Cardinality(racing) \in Nat
  BY <1>2, SubsetCard
<1>6. ASSUME racing = {} PROVE Cardinality(A) <= Limit
  <2>1. Cardinality(A) <= Cardinality(Passed(p) \ raced)
    <3>1. A \ racing = A
      BY <1>6
    <3> QED BY <1>4, <3>1
  <2> QED BY <1>1, <1>3, <1>4, <2>1 DEF Bounded
<1>7. ASSUME racing # {} PROVE Cardinality(A) < Limit + Cardinality(racing)
  <2>1. CASE Cardinality(Passed(p)) <= Limit
    <3>1. Cardinality(racing) # 0
      BY <1>5, <1>7, FS_EmptySet
    <3> QED BY <1>1, <1>3, <1>5, <2>1, <3>1
  <2>2. CASE Cardinality(Passed(p) \ raced) < Limit
    <3>1. A \ racing \in SUBSET Requests /\ IsFiniteSet(A \ racing)
      BY <1>2, SubsetCard
    <3>2. /\ Cardinality((A \ racing) \cup racing)
               = Cardinality(A \ racing) + Cardinality(racing) - Cardinality((A \ racing) \cap racing)
      BY <1>5, <3>1, FS_Union
    <3>3. (A \ racing) \cap racing = {} /\ Cardinality({}) = 0
      BY FS_EmptySet
    <3>4. Cardinality((A \ racing) \cup racing) = Cardinality(A \ racing) + Cardinality(racing)
      BY <1>4, <1>5, <3>2, <3>3
    <3>5. Cardinality(A) <= Cardinality((A \ racing) \cup racing)
      <4>1. (A \ racing) \cup racing \in SUBSET Requests /\ A \subseteq (A \ racing) \cup racing
        BY <1>2
      <4> QED BY <4>1, SubsetCard
    <3>6. Cardinality(A) < Limit + Cardinality(racing)
      BY <1>1, <1>3, <1>4, <1>5, <2>2, <3>4, <3>5
    <3> QED BY <3>6
  <2> QED BY <1>1, <2>1, <2>2 DEF Bounded
<1>8. limiter = "memory" => racing = {} /\ open = {}
  BY DEF LimiterInv, OnRecord
<1> QED BY <1>6, <1>7, <1>8

(***************************************************************************)
(* The geocoder                                                            *)
(***************************************************************************)
CallAts == {"none", "throttled", "sleeping", "sent", "waiting", "answered", "rejected", "broken"}
CallRow == [at : CallAts, key : Keys \cup {<<>>}, got : {"none", "found"},
            attempt : 0..Attempts, wait : 0..2]

\* Nothing is cached, or handed to a caller, as absent unless it was missed.
Earned(key, got) == IF got = "none" THEN key \in missed ELSE Answer[key] # <<>>
IsCached(k) == cache[k] # "absent" => Earned(k, cache[k])
CallOK(c) ==
  /\ c.at # "none" => c.key \in Keys
  /\ c.at = "answered" => Earned(c.key, c.got)
  /\ c.at = "waiting" => c.attempt < Attempts
\* Whoever is about to pass does so in a second in which nobody has.
IsSpaced ==
  /\ fresh <= 1 /\ (spaced => fresh = 0)
  /\ \A r \in Requests : call[r].at = "sleeping" /\ call[r].wait = 0 => spaced

GeocoderInv ==
  /\ GeocoderTypeOK
  /\ \A k \in Keys : IsCached(k)
  /\ \A r \in Requests : CallOK(call[r])
  /\ IsSpaced

LEMMA GeocoderTypes ==
  ASSUME GeocoderInv
  PROVE  /\ cache \in [Keys -> {"absent", "found", "none"}]
         /\ holder \in Requests \cup {Nobody} /\ spaced \in BOOLEAN
         /\ missed \subseteq Keys /\ fresh \in Nat /\ Attempts \in Nat \ {0}
         /\ call \in [Requests -> CallRow]
         /\ \A r \in Requests : (call[r].at = "sleeping" <=> holder = r) /\ CallOK(call[r])
BY GeocoderAssumption DEF GeocoderInv, GeocoderTypeOK, CallRow, CallAts

\* Nobody passes: only who wakes up, or has nothing to sleep for, relies on the time.
LEMMA StaysSpaced ==
  ASSUME GeocoderInv, NEW r \in Requests, NEW c, call' = [call EXCEPT ![r] = c],
         spaced' = spaced, fresh' = fresh, c.at = "sleeping" /\ c.wait = 0 => spaced
  PROVE  IsSpaced'
<1>1. /\ call'[r] = c /\ \A s \in Requests \ {r} : call'[s] = call[s]
      /\ fresh <= 1 /\ (spaced => fresh = 0)
      /\ \A s \in Requests : call[s].at = "sleeping" /\ call[s].wait = 0 => spaced
  BY GeocoderTypes DEF GeocoderInv, IsSpaced
<1>2. ASSUME NEW s \in Requests, call'[s].at = "sleeping", call'[s].wait = 0 PROVE spaced'
  BY <1>1, <1>2
<1> QED BY <1>1, <1>2 DEF IsSpaced

\* One call becomes c, and what the others rely on stays.
LEMMA OneCall ==
  ASSUME GeocoderInv, NEW r \in Requests, NEW c \in CallRow, call' = [call EXCEPT ![r] = c],
         cache' \in [Keys -> {"absent", "found", "none"}], \A k \in Keys : IsCached(k)',
         missed \subseteq missed', missed' \subseteq Keys,
         spaced' \in BOOLEAN, fresh' \in Nat, IsSpaced',
         holder' \in Requests \cup {Nobody},
         \A s \in Requests \ {r} : holder' = s <=> holder = s,
         c.at = "sleeping" <=> holder' = r,
         c.at # "none" => c.key \in Keys,
         c.at = "answered" => IF c.got = "none" THEN c.key \in missed' ELSE Answer[c.key] # <<>>,
         c.at = "waiting" => c.attempt < Attempts
  PROVE  GeocoderInv'
<1>1. call \in [Requests -> CallRow]
  BY GeocoderTypes
<1>2. /\ call' \in [Requests -> CallRow] /\ call'[r] = c
      /\ \A s \in Requests \ {r} : call'[s] = call[s]
  BY <1>1
<1>3. CallOK(call[r])' /\ (call'[r].at = "sleeping" <=> holder' = r)
  BY <1>2 DEF CallOK, Earned
<1>4. ASSUME NEW s \in Requests \ {r}
      PROVE  CallOK(call[s])' /\ (call'[s].at = "sleeping" <=> holder' = s)
  <2>1. CallOK(call[s]) /\ (call[s].at = "sleeping" <=> holder = s) /\ call'[s] = call[s]
    BY <1>2, GeocoderTypes
  <2>2. call'[s].at = "sleeping" <=> holder' = s
    BY <2>1
  <2>3. CallOK(call[s])'
    BY <2>1 DEF CallOK, Earned
  <2> QED BY <2>2, <2>3
<1>5. \A s \in Requests : CallOK(call[s])' /\ (call'[s].at = "sleeping" <=> holder' = s)
  BY <1>3, <1>4
<1>6. GeocoderTypeOK'
  BY <1>2, <1>5 DEF GeocoderTypeOK, CallRow, CallAts, CallOK
<1> QED BY <1>5, <1>6 DEF GeocoderInv

(***************************************************************************)
(* The steps                                                               *)
(***************************************************************************)
LEMMA GeocoderStarts == GeocoderInit => GeocoderInv
<1> SUFFICES ASSUME GeocoderInit PROVE GeocoderInv
  OBVIOUS
<1>1. NoCall \in CallRow /\ NoCall.at = "none"
  BY GeocoderAssumption DEF NoCall, CallRow, CallAts
<1>2. call \in [Requests -> CallRow] /\ \A r \in Requests : call[r] = NoCall
  BY <1>1 DEF GeocoderInit
<1>3. Nobody \notin Requests
  BY RequestsAssumption
<1>4. GeocoderTypeOK
  BY <1>1, <1>2, <1>3 DEF GeocoderInit, GeocoderTypeOK, CallRow, CallAts
<1>5. \A r \in Requests : CallOK(call[r])
  BY <1>1, <1>2 DEF CallOK
<1>6. (\A k \in Keys : IsCached(k)) /\ IsSpaced
  BY <1>1, <1>2 DEF GeocoderInit, IsCached, IsSpaced
<1> QED BY <1>4, <1>5, <1>6 DEF GeocoderInv

\* The result of a call is what the cache then holds.
LEMMA SettleHolds ==
  ASSUME GeocoderInv, NEW r \in Requests, call[r].at = "sent",
         NEW got \in {"none", "found"}, got = "found" => Answer[call[r].key] # <<>>,
         Settle(r, got), UNCHANGED <<holder, spaced, fresh>>
  PROVE  GeocoderInv' /\ missed \subseteq missed'
<1> DEFINE key == call[r].key
           c == [call[r] EXCEPT !.at = "answered", !.got = got]
<1>1. /\ call[r] \in CallRow /\ key \in Keys /\ missed \subseteq Keys
      /\ cache \in [Keys -> {"absent", "found", "none"}]
      /\ call[r].at = "sleeping" <=> holder = r
  BY GeocoderTypes DEF CallOK
<1>2. c \in CallRow /\ c.at = "answered" /\ c.got = got /\ c.key = key
  BY <1>1 DEF CallRow, CallAts
<1>3. call' = [call EXCEPT ![r] = c]
  BY DEF Settle
<1>4. missed \subseteq missed' /\ missed' \subseteq Keys /\ (got = "none" => key \in missed')
  BY <1>1 DEF Settle
<1>5. cache' \in [Keys -> {"absent", "found", "none"}] /\ \A k \in Keys : IsCached(k)'
  <2>1. cache' = [cache EXCEPT ![key] = got]
    BY DEF Settle
  <2>2. \A k \in Keys : IsCached(k)
    BY DEF GeocoderInv
  <2> QED BY <1>1, <1>4, <2>1, <2>2 DEF IsCached, Earned
<1>6. spaced' \in BOOLEAN /\ fresh' \in Nat /\ IsSpaced' /\ holder' \in Requests \cup {Nobody}
  BY <1>2, <1>3, GeocoderTypes, StaysSpaced
<1> QED BY <1>1, <1>2, <1>3, <1>4, <1>5, <1>6, OneCall

\* A step of one call that changes neither the cache nor what was missed.
LEMMA QuietStep ==
  ASSUME GeocoderInv, NEW r \in Requests, NEW c \in CallRow, call' = [call EXCEPT ![r] = c],
         cache' = cache, missed' = missed,
         spaced' \in BOOLEAN, fresh' \in Nat, IsSpaced',
         holder' \in Requests \cup {Nobody},
         \A s \in Requests \ {r} : holder' = s <=> holder = s,
         c.at = "sleeping" <=> holder' = r,
         c.at # "none" => c.key \in Keys,
         c.at = "answered" => Earned(c.key, c.got),
         c.at = "waiting" => c.attempt < Attempts
  PROVE  GeocoderInv' /\ missed \subseteq missed'
<1>1. \A k \in Keys : IsCached(k)'
  BY DEF GeocoderInv, IsCached, Earned
<1>2. c.at = "answered" => IF c.got = "none" THEN c.key \in missed' ELSE Answer[c.key] # <<>>
  BY DEF Earned
<1>3. cache' \in [Keys -> {"absent", "found", "none"}] /\ missed' \subseteq Keys
  BY GeocoderTypes
<1> QED BY <1>1, <1>2, <1>3, OneCall

\* The caller asks for a key, or has done with its call: its request is neither
\* in the throttle nor anywhere else that the geocoder waits for it.
LEMMA CallerHolds ==
  ASSUME GeocoderInv, NEW r \in Requests, call[r].at # "sleeping",
         UNCHANGED <<cache, holder, spaced, missed, fresh>>,
         \/ call' = [call EXCEPT ![r] = NoCall]
         \/ \E k \in Keys : call' = [call EXCEPT ![r] = Asked(k)]
  PROVE  GeocoderInv' /\ missed \subseteq missed'
<1>1. /\ spaced' \in BOOLEAN /\ fresh' \in Nat /\ holder' \in Requests \cup {Nobody}
      /\ holder' # r /\ cache \in [Keys -> {"absent", "found", "none"}]
  BY GeocoderTypes
<1>2. NoCall \in CallRow /\ NoCall.at = "none"
  BY GeocoderAssumption DEF NoCall, CallRow, CallAts
<1>3. CASE call' = [call EXCEPT ![r] = NoCall]
  <2>1. IsSpaced'
    BY <1>2, <1>3, StaysSpaced
  <2> QED BY <1>1, <1>2, <1>3, <2>1, QuietStep
<1>4. ASSUME NEW k \in Keys, call' = [call EXCEPT ![r] = Asked(k)]
      PROVE  GeocoderInv' /\ missed \subseteq missed'
  <2>1. CASE cache[k] # "absent"
    <3>1. Asked(k) = [NoCall EXCEPT !.at = "answered", !.key = k, !.got = cache[k]]
      BY <2>1 DEF Asked
    <3>2. Asked(k) \in CallRow /\ Asked(k).at = "answered" /\ Asked(k).key = k /\ Asked(k).got = cache[k]
      BY <1>1, <1>2, <2>1, <3>1 DEF CallRow, CallAts, NoCall
    <3>3. Earned(k, cache[k])
      BY <2>1 DEF GeocoderInv, IsCached
    <3>4. IsSpaced'
      BY <1>4, <3>2, StaysSpaced
    <3> QED BY <1>1, <1>4, <3>2, <3>3, <3>4, QuietStep
  <2>2. CASE cache[k] = "absent"
    <3>1. Asked(k) = [NoCall EXCEPT !.at = "throttled", !.key = k]
      BY <2>2 DEF Asked
    <3>2. Asked(k) \in CallRow /\ Asked(k).at = "throttled" /\ Asked(k).key = k
      BY <1>2, <3>1 DEF CallRow, CallAts, NoCall
    <3>3. IsSpaced'
      BY <1>4, <3>2, StaysSpaced
    <3> QED BY <1>1, <1>4, <3>2, <3>3, QuietStep
  <2> QED BY <2>1, <2>2
<1> QED BY <1>3, <1>4

LEMMA CancelHolds ==
  ASSUME GeocoderInv, NEW r \in Requests, Cancelled(r), call' = [call EXCEPT ![r] = NoCall]
  PROVE  GeocoderInv' /\ missed \subseteq missed'
<1>1. NoCall \in CallRow /\ NoCall.at = "none"
  BY GeocoderAssumption DEF NoCall, CallRow, CallAts
<1>2. Nobody \notin Requests
  BY RequestsAssumption
<1>3. /\ spaced' = spaced /\ fresh' = fresh /\ spaced' \in BOOLEAN /\ fresh' \in Nat
      /\ cache' = cache /\ missed' = missed
  BY GeocoderTypes DEF Cancelled
<1>4. /\ holder' \in Requests \cup {Nobody} /\ holder' # r
      /\ \A s \in Requests \ {r} : holder' = s <=> holder = s
  <2>1. holder \in Requests \cup {Nobody} /\ holder' = IF holder = r THEN Nobody ELSE holder
    BY GeocoderTypes DEF Cancelled, HolderWithout
  <2> QED BY <1>2, <2>1
<1>5. IsSpaced'
  BY <1>1, <1>3, StaysSpaced
<1> QED BY <1>1, <1>3, <1>4, <1>5, QuietStep

LEMMA GeocoderRests ==
  ASSUME GeocoderInv, UNCHANGED geocoderVars
  PROVE  GeocoderInv' /\ missed \subseteq missed'
BY DEF GeocoderInv, GeocoderTypeOK, IsCached, CallOK, Earned, IsSpaced, geocoderVars

LEMMA GeocoderSteps ==
  ASSUME GeocoderInv, NEW r \in Requests, GeocoderStep(r)
  PROVE  GeocoderInv' /\ missed \subseteq missed'
<1> DEFINE row == call[r]
<1>1. /\ call \in [Requests -> CallRow] /\ row \in CallRow
      /\ row.at = "sleeping" <=> holder = r
      /\ holder \in Requests \cup {Nobody} /\ Nobody \notin Requests
      /\ spaced \in BOOLEAN /\ fresh \in Nat /\ Attempts \in Nat \ {0}
      /\ row.at # "none" => row.key \in Keys
      /\ row.at = "waiting" => row.attempt < Attempts
  BY GeocoderTypes, RequestsAssumption DEF CallOK
<1>2. row.attempt \in 0..Attempts /\ row.wait \in 0..2
  BY <1>1 DEF CallRow
<1>3. IsSpaced
  BY DEF GeocoderInv
<1>4. CASE EntersThrottle(r)
  <2> DEFINE c == [row EXCEPT !.at = "sleeping", !.wait = ToSleep]
  <2>0. ToSleep \in 0..2 /\ (ToSleep = 0 => spaced)
    BY <1>1 DEF ToSleep
  <2>1. /\ c \in CallRow /\ c.at = "sleeping" /\ c.key = row.key /\ c.wait = ToSleep
        /\ call' = [call EXCEPT ![r] = c]
    <3>1. c \in CallRow /\ c.at = "sleeping" /\ c.key = row.key /\ c.wait = ToSleep
      BY <1>1, <2>0 DEF CallRow, CallAts
    <3>2. call' = [call EXCEPT ![r] = c]
      BY <1>1, <1>4 DEF EntersThrottle
    <3> QED BY <3>1, <3>2
  <2>2. /\ cache' = cache /\ missed' = missed /\ spaced' = spaced /\ fresh' = fresh
        /\ holder = Nobody /\ holder' = r /\ row.at = "throttled"
    BY <1>4 DEF EntersThrottle
  <2>3. IsSpaced'
    BY <2>0, <2>1, <2>2, StaysSpaced
  <2> QED BY <1>1, <2>1, <2>2, <2>3, QuietStep
<1>5. CASE PassesThrottle(r)
  <2> DEFINE c == [row EXCEPT !.at = "sent", !.attempt = 1]
  <2>0. 1 \in 0..Attempts
    BY <1>1
  <2>1. c \in CallRow /\ c.at = "sent" /\ c.key = row.key
    BY <1>1, <2>0 DEF CallRow, CallAts
  <2>2. call' = [call EXCEPT ![r] = c]
    BY <1>1, <1>5 DEF PassesThrottle
  <2>3. /\ cache' = cache /\ missed' = missed /\ spaced' = FALSE
        /\ fresh' = fresh + 1 /\ holder' = Nobody /\ row.at = "sleeping" /\ row.wait = 0
    BY <1>1, <1>5 DEF PassesThrottle
  <2>5. holder = r
    BY <1>1, <2>3
  <2>6. \A s \in Requests : call'[s].at # "sleeping"
    BY <1>1, <2>1, <2>2, <2>5, GeocoderTypes
  <2>4. IsSpaced' /\ fresh' \in Nat
    BY <1>1, <1>3, <2>3, <2>6 DEF IsSpaced
  <2> QED BY <1>1, <2>1, <2>2, <2>3, <2>4, <2>5, QuietStep
<1>6. CASE NominatimAnswers(r)
  <2>1. CASE Answer[row.key] = <<>>
    BY <1>6, <2>1, SettleHolds DEF NominatimAnswers
  <2>2. CASE Answer[row.key] # <<>>
    BY <1>6, <2>2, SettleHolds DEF NominatimAnswers
  <2> QED BY <2>1, <2>2
<1>7. CASE NominatimFails(r)
  BY <1>7, SettleHolds DEF NominatimFails
<1>8. CASE NominatimRejects(r) \/ NominatimGarbles(r)
  <2>1. PICK at \in {"rejected", "broken"} : call' = [call EXCEPT ![r].at = at]
    BY <1>8 DEF NominatimRejects, Rejection, NominatimGarbles
  <2> DEFINE c == [row EXCEPT !.at = at]
  <2>2. c \in CallRow /\ c.at = at /\ c.key = row.key
    BY <1>1 DEF CallRow, CallAts
  <2>3. call' = [call EXCEPT ![r] = c]
    BY <2>1
  <2>4. /\ cache' = cache /\ missed' = missed /\ spaced' = spaced /\ fresh' = fresh
        /\ holder' = holder /\ row.at = "sent"
    BY <1>8 DEF NominatimRejects, Rejection, NominatimGarbles
  <2>5. at # "sleeping" /\ at # "answered" /\ at # "waiting"
    OBVIOUS
  <2>6. IsSpaced'
    BY <2>2, <2>3, <2>4, StaysSpaced
  <2> QED BY <1>1, <2>2, <2>3, <2>4, <2>5, <2>6, QuietStep
<1>9. CASE AttemptTimesOut(r)
  <2>1. CASE row.attempt < Attempts
    <3> DEFINE c == [row EXCEPT !.at = "waiting", !.wait = Backoff(row.attempt)]
    <3>1. Backoff(row.attempt) \in 0..2
      BY DEF Backoff
    <3>2. c \in CallRow /\ c.at = "waiting" /\ c.key = row.key /\ c.attempt = row.attempt
      BY <1>1, <3>1 DEF CallRow, CallAts
    <3>3. call' = [call EXCEPT ![r] = c]
      BY <1>1, <1>9, <2>1 DEF AttemptTimesOut
    <3>4. /\ cache' = cache /\ missed' = missed /\ spaced' = spaced /\ fresh' = fresh
          /\ holder' = holder /\ row.at = "sent"
      BY <1>9, <2>1 DEF AttemptTimesOut
    <3>5. IsSpaced'
      BY <3>2, <3>3, <3>4, StaysSpaced
    <3> QED BY <1>1, <2>1, <3>2, <3>3, <3>4, <3>5, QuietStep
  <2>2. CASE ~(row.attempt < Attempts)
    BY <1>9, <2>2, SettleHolds DEF AttemptTimesOut
  <2> QED BY <2>1, <2>2
<1>10. CASE Retries(r)
  <2> DEFINE c == [row EXCEPT !.at = "sent", !.attempt = @ + 1]
  <2>1. row.at = "waiting" /\ row.attempt + 1 \in 0..Attempts
    BY <1>1, <1>2, <1>10 DEF Retries
  <2>2. c \in CallRow /\ c.at = "sent" /\ c.key = row.key
    BY <1>1, <2>1 DEF CallRow, CallAts
  <2>3. call' = [call EXCEPT ![r] = c]
    BY <1>1, <1>10 DEF Retries
  <2>4. /\ cache' = cache /\ missed' = missed /\ spaced' = spaced /\ fresh' = fresh
        /\ holder' = holder
    BY <1>10 DEF Retries
  <2>5. IsSpaced'
    BY <2>2, <2>3, <2>4, StaysSpaced
  <2> QED BY <1>1, <2>1, <2>2, <2>3, <2>4, <2>5, QuietStep
<1> QED BY <1>4, <1>5, <1>6, <1>7, <1>8, <1>9, <1>10 DEF GeocoderStep, NominatimReplies

LEMMA GeocoderAges ==
  ASSUME GeocoderInv, GeocoderTick
  PROVE  GeocoderInv' /\ missed \subseteq missed'
<1>1. ASSUME NEW r \in Requests
      PROVE  /\ call'[r] \in CallRow /\ call'[r].at = call[r].at /\ call'[r].key = call[r].key
             /\ call'[r].got = call[r].got /\ call'[r].attempt = call[r].attempt
  <2>1. call[r] \in CallRow
    BY GeocoderTypes
  <2>2. call[r].wait \in 0..2
    BY <2>1 DEF CallRow
  <2>3. CASE call[r].wait > 0
    <3>1. call'[r] = [call[r] EXCEPT !.wait = @ - 1] /\ call[r].wait - 1 \in 0..2
      BY <2>2, <2>3 DEF GeocoderTick
    <3> QED BY <2>1, <3>1 DEF CallRow
  <2>4. CASE ~(call[r].wait > 0)
    BY <2>1, <2>4 DEF GeocoderTick
  <2> QED BY <2>3, <2>4
<1>2. call' \in [Requests -> CallRow]
  BY <1>1 DEF GeocoderTick
<1>3. /\ cache' = cache /\ missed' = missed /\ holder' = holder /\ spaced' = TRUE /\ fresh' = 0
  BY DEF GeocoderTick
<1>4. \A r \in Requests : CallOK(call[r])' /\ (call'[r].at = "sleeping" <=> holder' = r)
  <2> SUFFICES ASSUME NEW r \in Requests
               PROVE  CallOK(call[r])' /\ (call'[r].at = "sleeping" <=> holder' = r)
    OBVIOUS
  <2>1. CallOK(call[r]) /\ (call[r].at = "sleeping" <=> holder = r)
    BY GeocoderTypes
  <2>2. call'[r].at = "sleeping" <=> holder' = r
    BY <1>1, <1>3, <2>1
  <2>3. CallOK(call[r])'
    BY <1>1, <1>3, <2>1 DEF CallOK, Earned
  <2> QED BY <2>2, <2>3
<1>5. (\A k \in Keys : IsCached(k)') /\ IsSpaced'
  BY <1>3 DEF GeocoderInv, IsCached, Earned, IsSpaced
<1>6. GeocoderTypeOK'
  <2>1. /\ cache \in [Keys -> {"absent", "found", "none"}]
        /\ holder \in Requests \cup {Nobody} /\ missed \subseteq Keys
    BY GeocoderTypes
  <2> QED BY <1>2, <1>3, <1>4, <2>1 DEF GeocoderTypeOK, CallRow, CallAts, CallOK
<1> QED BY <1>3, <1>4, <1>5, <1>6 DEF GeocoderInv

(***************************************************************************)
(* What the callers see                                                    *)
(***************************************************************************)
LEMMA GotIsEarned ==
  ASSUME GeocoderInv, NEW r \in Requests, call[r].at = "answered"
  PROVE  LET hits == Hits(call[r].key, call[r].got)
         IN /\ call[r].key \in Keys
            /\ hits = <<>> => call[r].key \in missed
            /\ hits # <<>> => hits = Answer[call[r].key]
<1>1. CallOK(call[r]) /\ call[r] \in CallRow
  BY GeocoderTypes
<1>2. call[r].key \in Keys /\ Earned(call[r].key, call[r].got)
  BY <1>1 DEF CallOK
<1>3. call[r].got \in {"none", "found"}
  BY <1>1 DEF CallRow
<1>4. CASE call[r].got = "none"
  BY <1>2, <1>4 DEF Earned, Hits
<1>5. CASE call[r].got = "found"
  BY <1>2, <1>5 DEF Earned, Hits
<1> QED BY <1>3, <1>4, <1>5

LEMMA GeocoderSpaces == GeocoderInv => CallsAreSpaced
BY DEF GeocoderInv, IsSpaced, CallsAreSpaced
==============================================================================
