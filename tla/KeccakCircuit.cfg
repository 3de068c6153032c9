SPECIFICATION Spec
CONSTANTS
  M = 64
  Messages <- MCMessages
  Flips <- MCFlips
INVARIANTS
  CheckpointsDecide
  OutputsAgree
\* The circuit is built once.
CHECK_DEADLOCK FALSE
