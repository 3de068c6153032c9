\* Rows of three elements in words of two: every row is ragged.
SPECIFICATION KernelsSpec
CONSTANTS
  Lanes = 2
  Rows = 2
  Cols = 3
  Entries = {8, 15}
  Scalars = {1, 8, 11}
  Equations = 3
  Unknowns = 4
  Matrices <- MCMatrices
  Probes <- MCProbes
  RightSides <- MCRightSides
  Randoms <- MCRandoms
INVARIANTS
  PackedProductsExact
  SystemsSolved
  MultipliersAgree
  EmbeddingIsHomomorphism
  TransposesExact
  FoldsExact
  ConsistencyDecides
  MasksHide
\* A kernel returns.
CHECK_DEADLOCK FALSE
