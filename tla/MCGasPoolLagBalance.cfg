\* A fullnode whose reads trail the chain, and a charge (3) larger than a
\* coin's balance (2): the balance derived from a stale pre-execution read
\* after a successful execution wraps.
CONSTANTS
  c1 = c1
  c2 = c2
  c3 = c3
  e1 = e1
  e2 = e2
  NoObject = NoObject
  Coins <- MCCoins
  Callers <- MCCallers
  InitBalance = 2
  Budgets = {1, 3}
  HealthBudget = 1
  NetGasUsages = {1, 3}
  DailyLimit = 1
  BalanceModulus = 16
  HonestCallers = TRUE
  FullnodeLags = TRUE
  MaxReservations = 3
  MaxTx = 2
  MaxCrashes = 0
  MaxCancels = 0
  MaxAdmitted = 1
SPECIFICATION Spec
SYMMETRY MCSymmetry
INVARIANT NoBalanceWraps
