SPECIFICATION SpendSpec
CONSTANTS
  BALANCE_BITS = 3
  Lanes = 2
  M = 3
  KN = 4
  NullifierBits = 6
  Forms <- MCForms
  Shake <- MCShake
  Sign <- MCSign
  Secrets <- MCSecrets
  Draws <- MCDraws
INVARIANTS
  AcceptedBalances
  StatementsHold
  HonestSpendVerifies
\* A verdict is final.
CHECK_DEADLOCK FALSE
