\* A day with more morning-only stops than slots; one morning slot, so that two
\* morning-only places already compete for it.
CONSTANTS
  e1 = e1
  e2 = e2
  u1 = u1
  u2 = u2
  a = a
  b = b
  m = m
  n = n
  nobody = nobody
  Requests <- TwoRequests
  Users <- TwoUsers
  Places <- FourPlaces
  Days <- TwoDays
  MorningOnly <- Mornings
  MorningSlots = 1
  Nobody <- nobody
  Itineraries <- SavedTrips
  Mixtures <- MixedTrips
SPECIFICATION Spec
PROPERTY OnlyRemovedStopsLeave
\* All requests may be answered.
CHECK_DEADLOCK FALSE
