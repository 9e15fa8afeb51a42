CONSTANTS
  Keys = {"SW1", "SW3", "UP", "DOWN", "QUIT", "release"}
  KeyBound = 3
  QueueSize = 2
  Chords = TRUE
  Fails = TRUE
  Prompt = TRUE
SPECIFICATION FairSpec
INVARIANTS CountsFromZero NeverObeyedTwice
PROPERTIES CommandsArrive QuitEndsAll
CHECK_DEADLOCK FALSE
