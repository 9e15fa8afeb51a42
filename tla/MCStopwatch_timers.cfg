CONSTANTS
  a1 = a1
  Apps <- OneApp
  SecondsPerMin = 2
  MinPerHour = 1
  TickBound = 1
  CountBound = 1
SPECIFICATION Spec
INVARIANT TimersRemoved
