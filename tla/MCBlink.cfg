CONSTANTS
  a1 = a1
  a2 = a2
  Apps <- TwoApps
  Options <- SomeOptions
  Numbers = {2}
  Width = 4
  Lengths <- ShortLines
  Writes = 2
  Loads = 2
SPECIFICATION FairSpec
INVARIANTS TypeOK TimerArmedOnce UnloadedIsQuiet RunShowsWhatWasAsked TextsStayWhole
PROPERTY RunsEnd
CHECK_DEADLOCK FALSE
