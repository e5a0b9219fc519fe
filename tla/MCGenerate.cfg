\* Two requests for one key: a plan cached by one while the other runs, or
\* replayed by it.
CONSTANTS
  r1 = r1
  r2 = r2
  Requests <- TwoRequests
  QueueBound = 1
SPECIFICATION FairSpec
INVARIANTS
  TypeOK
  OneTerminal
  AnsweredInFull
  TripsAreItineraries
  CacheIsServable
  NoOrphanTask
  AnswersAreRecorded
PROPERTY ImplementsContract
\* A stream ends.
CHECK_DEADLOCK FALSE
