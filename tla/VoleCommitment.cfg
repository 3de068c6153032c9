\* Two trees of depth 3: all pairs of opened and derived challenges.
SPECIFICATION Spec
CONSTANTS
  Tau = 2
  K = 3
  Salt = salt
INVARIANTS
  Correlation
  ChallengeIsBound
  HiddenLeafOnly
\* A reconstruction ends in keys or in a rejection.
CHECK_DEADLOCK FALSE
