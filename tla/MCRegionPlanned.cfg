\* A search stores a region, and a resolve of the same name gets no answer in time.
CONSTANTS
  goa = goa
  panaji = panaji
  region = region
  hub = hub
  town = town
  in = in
  pt = pt
  Requests = {1, 2}
  Nobody = nobody
  Paths <- TwoPaths
  Limit = 1
  Window = 1
  Keys <- EveryKey
  Sites <- ThreeSites
  Answer <- Answers
  Attempts = 2
  Queries <- TwoQueries
  Regions <- OneRegion
  Named <- NamesOf
  Country <- Countries
  Tables <- SomeTables
SPECIFICATION Spec
INVARIANT RegionIsNotPlanned
\* All requests may have been answered.
CHECK_DEADLOCK FALSE
