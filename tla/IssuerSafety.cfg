CONSTANTS
  r1 = r1
  r2 = r2
  n1 = n1
  n2 = n2
  c1 = c1
  c2 = c2
  c3 = c3
  home = home
  away = away
  s1 = s1
  s2 = s2
  NoRecord = NoRecord
  NoRequest = NoRequest
  Contexts <- MCContexts
  Nullifiers <- MCNullifiers
  Commitments <- MCCommitments
  Salts <- MCSalts
  Replicas <- MCReplicas
  Context = home
  Requests <- MCRequests
  U64Max = 2
  MaxFaults = 2
SPECIFICATION Spec
SYMMETRY MCSymmetry
PROPERTIES
  ImplementsSpendOnce
  RetriesAreReplayed
INVARIANTS
  TypeOK
  ReleasedIsDurable
  RecordsAreEarned
  RefusalsAreJustified
