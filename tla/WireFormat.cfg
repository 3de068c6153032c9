SPECIFICATION Spec
CHECK_DEADLOCK FALSE
CONSTANTS
  U32Bytes = 1
  U64Bytes = 2
  HashBytes = 2
  ElemBytes = 1
  SaltBytes = 1
  ParamSets = {1, 2}
  TargetNibbles <- MCTargetNibbles
  SignatureNibbles <- MCSignatureNibbles
  PublicNibbles <- MCPublicNibbles
  SecretNibbles <- MCSecretNibbles
  MaxWireBytes = 60
  MaxProofBytes = 48
  MaxContextBytes = 2
  MaxItems = 16
  Contexts <- MCContexts
  Artifacts <- MCArtifacts
  SignedTokens <- MCSignedTokens
  DamageBytes = {0, 1, 2, 3, 16, 128, 255}
  MaxFaults = 1
INVARIANTS
  RoundTrip
  Canonical
  ReservationBounded
