\* Requests for a region, or for a name that two cities share.
CONSTANTS
  goa = goa
  panaji = panaji
  region = region
  hub = hub
  town = town
  in = in
  pt = pt
  Requests = {1, 2}
  Nobody = nobody
  Paths <- TwoPaths
  Limit = 1
  Window = 1
  Keys <- EveryKey
  Sites <- ThreeSites
  Answer <- Answers
  Attempts = 2
  Queries <- TwoQueries
  Regions <- OneRegion
  Named <- NamesOf
  Country <- Countries
  Tables <- SomeTables
SPECIFICATION FairSpec
INVARIANTS
  TypeOK
  WindowHolds
  CallsAreSpaced
  NotFoundIsEarned
PROPERTIES
  EveryRequestIsAnswered
\* All requests may have been answered.
CHECK_DEADLOCK FALSE
