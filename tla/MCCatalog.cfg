\* Three jobs of any kind on two destinations that want the same two places.
CONSTANTS
  d1 = d1
  d2 = d2
  p = p
  q = q
  india = india
  nepal = nepal
  nobody = nobody
  Jobs <- ThreeJobs
  Destinations <- TwoDestinations
  Places <- TwoPlaces
  Countries <- TwoCountries
  Tagged <- Tags
  Nobody <- nobody
  Floor = 2
  Limits <- OneOrTwo
  Catalogs <- SomeCatalogs
SPECIFICATION Spec
INVARIANTS
  TypeOK
  ExclusiveIngest
  CountsAreBacked
  IndexIsBacked
  LocksAreOfIngests
PROPERTIES
  SearchIsScoped
\* All jobs may have ended.
CHECK_DEADLOCK FALSE
