\* Cap overshoot: two coins, a daily limit of 0, one reserve_gas call that
\* may wait between check_usage and the storage, and room for four executed
\* transactions, so the limit is crossed by every outstanding reservation
\* and the waiting call, and the window rolls.
CONSTANTS
  c1 = c1  c2 = c2  c3 = c3  e1 = e1  e2 = e2
  NoObject = NoObject
  Coins <- MCTwoCoins
  Callers <- MCCallers
  InitBalance = 2
  Budgets = {1}
  HealthBudget = 1
  NetGasUsages = {1}
  DailyLimit = 0
  BalanceModulus = 16
  HonestCallers = TRUE
  FullnodeLags = FALSE
  MaxReservations = 4
  MaxTx = 4
  MaxCrashes = 0
  MaxCancels = 0
  MaxAdmitted = 1
SPECIFICATION Spec
SYMMETRY MCTwoSymmetry
INVARIANT CapOvershootBounded
