CONSTANTS
  r1 = r1
  r2 = r2
  n1 = n1
  n2 = n2
  c1 = c1
  c2 = c2
  c3 = c3
  home = home
  away = away
  s1 = s1
  s2 = s2
  NoRecord = NoRecord
  NoRequest = NoRequest
  Contexts <- MCContexts
  Nullifiers <- MCOneNullifier
  Commitments <- MCCommitments
  Salts <- MCOneSalt
  Replicas <- MCReplicas
  Context = home
  Requests <- MCConflicts
  U64Max = 2
  MaxFaults = 2
SPECIFICATION FairSpec
PROPERTIES
  ConsumedIsAnswered
