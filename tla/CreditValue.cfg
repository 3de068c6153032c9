CONSTANTS
  home = home
  away = away
  s1 = s1
  s2 = s2
  k1 = k1
  k2 = k2
  k3 = k3
  NoRecord = NoRecord
  Contexts <- MCHome
  Context = home
  Nullifiers <- MCNullifiers
  Commitments <- MCCommitments
  Salts <- MCOneSalt
  Secrets <- MCThreeSecrets
  U64Max = 2
SPECIFICATION Spec
SYMMETRY MCSecretSymmetry
PROPERTIES
  ImplementsLedger
INVARIANTS
  ValueConserved
  AnswersFinish
