CONSTANTS
  Threads = 4
  Places = 2
  Last = 2
  Inputs <- Typed
  Queue = 1
  Events = 3
SPECIFICATION FairSpec
INVARIANTS GoodInputIsSafe DarkAtRest RunShowsWhatWasAsked
PROPERTIES RunsEnd
CHECK_DEADLOCK FALSE
