\* A hop over lunch: four places on two days of at most three stops, with the code's times.
CONSTANTS
  Places <- FourPlaces
  Base = 0
  Days <- TwoDays
  Duration <- Minutes
  MorningOnly <- Views
  Avoided <- Monasteries
  MaxPlaces = 3
  VisitBudget = 170
  MorningSlots = 1
  MaxTravel = 180
  LatestMorning = 630
  AnchorMin = 0
  DayStart = 480
  LunchStart = 780
  LunchBreak = 60
  Midnight = 1440
  Inputs <- SomeInputs
SPECIFICATION Spec
INVARIANT HopsTakeTheirTime
CHECK_DEADLOCK FALSE
