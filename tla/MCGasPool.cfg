\* Honest callers, a fullnode that is up to date, one crash and restart:
\* the safety of the coin lifecycle under any interleaving of callers, the
\* unlocker task, time and the crash.
CONSTANTS
  c1 = c1
  c2 = c2
  c3 = c3
  e1 = e1
  e2 = e2
  NoObject = NoObject
  Coins <- MCCoins
  Callers <- MCCallers
  InitBalance = 2
  Budgets = {1, 3}
  HealthBudget = 1
  NetGasUsages = {1}
  DailyLimit = 1
  BalanceModulus = 16
  HonestCallers = TRUE
  FullnodeLags = FALSE
  MaxReservations = 3
  MaxTx = 2
  MaxCrashes = 1
  MaxCancels = 1
  MaxAdmitted = 1
SPECIFICATION Spec
SYMMETRY MCSymmetry
INVARIANTS
  TypeOK
  CoinHeldOnce
  PoolMatchesChain
