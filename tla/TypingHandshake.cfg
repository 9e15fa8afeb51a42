CONSTANTS
  Switches = {1, 2, 3, 4, 5, 6, 8, 9}
  Presses = {{}, {1}, {5}, {2, 3}, {4, 5}, {5, 6}, {8, 9}, {2, 9}}
  Prompt = TRUE
SPECIFICATION FairHandshake
INVARIANT HandshakeTypeOK
PROPERTIES ImplementsBursts BurstsAreServed
CHECK_DEADLOCK FALSE
