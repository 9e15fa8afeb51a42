CONSTANTS
  Keys = {"UP"}
  KeyBound = 4
  QueueSize = 2
  Chords = TRUE
  Fails = FALSE
  Prompt = TRUE
SPECIFICATION Spec
PROPERTY QuitIsFinal
CHECK_DEADLOCK FALSE
