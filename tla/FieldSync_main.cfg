SPECIFICATION FieldFairSpec
CONSTANTS
  Actions = {1, 2}
  Replays = {r1, r2}
  Mishaps = 1
INVARIANTS FieldConsistent InOrder
PROPERTIES QueueDrains
CHECK_DEADLOCK FALSE
