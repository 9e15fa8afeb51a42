CONSTANTS
  a1 = a1
  Apps <- OneApp
  SecondsPerMin = 1
  MinPerHour = 2
  TickBound = 1
  CountBound = 3
SPECIFICATION FairSpec
INVARIANTS TickTimerArmedOnce DisplayedTimeValid OnlyLateTimersSurvive
PROPERTIES ResetIsFinal ImplementsStopwatch HeldButtonEndsSession
