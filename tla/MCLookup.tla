------------------------------- MODULE MCLookup -------------------------------
(* An instance of Lookup for TLC. *)
EXTENDS Lookup, TLC
CONSTANTS goa, panaji, region, hub, town, in, pt

TwoPaths == {"search", "resolve"}
TwoQueries == {goa, panaji}
ThreeSites == {region, hub, town}
OneRegion == {region}
EveryKey == ({"geocode", "search"} \X TwoQueries) \cup ({"hubs", "city"} \X OneRegion)

\* A state, with a hub in it; and a name that a town of another country shares
\* with the hub.
Answers ==
  (<<"geocode", goa>> :> <<region>>) @@ (<<"search", goa>> :> <<region, hub>>) @@
  (<<"geocode", panaji>> :> <<hub>>) @@ (<<"search", panaji>> :> <<hub, town>>) @@
  (<<"hubs", region>> :> <<town, hub>>) @@ (<<"city", region>> :> <<town>>)
SomeTables == {{}}
NamesOf == (goa :> {region, hub}) @@ (panaji :> {hub, town})
Countries == (region :> in) @@ (hub :> in) @@ (town :> pt)
=============================================================================
