SPECIFICATION Spec
CONSTANTS
  Lanes = 2
  F = {0, 1, 6, 7}
  Plus <- GFPlus
  Times <- GFTimes
  Zero = 0
  One = 1
  MAX_DEGREE = 3
  Voles <- MCVoles
  Witnesses <- MCWitnesses
  Scalars <- MCScalars
  Coefficients <- MCCoefficients
  Streams <- MCStreams
  Masks <- MCMasks
  Forgeries <- MCForgeries
  MaxWires = 2
  MaxExprs = 3
  MaxConstraints = 2
INVARIANTS KeysMatch HonestProofsVerify FalseProofsFail
\* A circuit is proved once.
CHECK_DEADLOCK FALSE
