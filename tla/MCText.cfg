CONSTANTS
  Limit = 3
  Presses <- MCPresses
  Touched <- MCTouched
  Queue = 2
  Events = 4
SPECIFICATION FairSpec
INVARIANTS TypeOK BoardShowsText TextIsAsTyped
PROPERTIES TooLongIsReplaced LeavingEndsThread
CHECK_DEADLOCK FALSE
