SPECIFICATION Spec
SYMMETRY MCSymmetry
CHECK_DEADLOCK FALSE
CONSTANTS
  SecurityBits = 4
  MaxTrees = 4
  MaxTreeDepth = 3
  MAX_DEGREE = 3
  Geometries <- MCGeometries
  Publics = {public1, public2}

  Circuits <- MCCircuits
  MaxRuns = 2
  MaxAlterations = 1
INVARIANTS
  AcceptedIsIntact
  ChallengesBind
  NeverPanics
  SidesAgree
