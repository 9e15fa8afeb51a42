CONSTANTS
  Threads = 5
  Minute = 2
  MaxSeconds = 3
  Presses = {{}, {1}, {4}, {7}}
  Keys = {"back", "other"}
  Queue = 2
  Events = 4
SPECIFICATION FairSpec
INVARIANTS OneStopwatchRuns ObeysWithinARound BoardShowsTime
PROPERTIES ImplementsStopwatch LeavingEndsThreads
CHECK_DEADLOCK FALSE
