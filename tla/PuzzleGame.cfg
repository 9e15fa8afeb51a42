CONSTANTS
  Rows = 2
  Cols = 2
  Mixes = 4
  TimeLimit = 3
  ShowFrom = 2
SPECIFICATION FairSpec
INVARIANTS StaysSolvable ScoreIsOfTheBoard
PROPERTIES SolvedStaysSolved GameEnds
CHECK_DEADLOCK FALSE
