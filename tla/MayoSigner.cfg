SPECIFICATION Spec
CONSTANTS
  Lanes = 2
  V = 2
  O = 2
  M = 3
  K = 3
  FTail <- MCFTail
  KeyMaterial <- MCKeyMaterial
  Targets <- MCTargets
  Vinegars <- MCVinegars
  Randoms <- MCRandoms
  MaxAttempts = 2
INVARIANTS
  SignaturesVerify
  WhippedFormsAgree
\* Signing ends.
CHECK_DEADLOCK FALSE
