------------------------------ MODULE MCCatalog ------------------------------
(* An instance of Catalog for TLC. *)
EXTENDS Catalog, TLC
CONSTANTS d1, d2, p, q, india, nepal, nobody

ThreeJobs == 1..3
TwoDestinations == {d1, d2}
TwoPlaces == {p, q}
OneOrTwo == {1, 2}
TwoCountries == {india, nepal}
Tags == (p :> nobody) @@ (q :> india)

Counters(country, n, e, i) ==
  [country |-> country, place_count |-> n, enriched_count |-> e, indexed_count |-> i]
Row(d, summary) == [dest |-> d, summary |-> summary]

\* Nothing yet; or one destination seeded, with one of its two places enriched
\* and indexed.  The other destination lies abroad, or in the same country.
EmptyCatalog(country) ==
  [dest |-> (d1 :> Counters(india, 0, 0, 0)) @@ (d2 :> Counters(country, 0, 0, 0)),
   place |-> [x \in TwoPlaces |-> Row(nobody, FALSE)],
   point |-> [x \in TwoPlaces |-> nobody]]
SeededCatalog(country) ==
  [dest |-> (d1 :> Counters(india, 2, 1, 1)) @@ (d2 :> Counters(country, 0, 0, 0)),
   place |-> (p :> Row(d1, TRUE)) @@ (q :> Row(d1, FALSE)),
   point |-> (p :> d1) @@ (q :> nobody)]
SomeCatalogs == {EmptyCatalog(nepal), SeededCatalog(nepal), SeededCatalog(india)}
=============================================================================
