\* Callers whose transaction pays with coins other than the ones their
\* reservation handed out.
CONSTANTS
  c1 = c1
  c2 = c2
  c3 = c3
  e1 = e1
  e2 = e2
  NoObject = NoObject
  Coins <- MCCoins
  Callers <- MCCallers
  InitBalance = 2
  Budgets = {1, 3}
  HealthBudget = 1
  NetGasUsages = {1}
  DailyLimit = 1
  BalanceModulus = 16
  HonestCallers = FALSE
  FullnodeLags = FALSE
  MaxReservations = 3
  MaxTx = 2
  MaxCrashes = 0
  MaxCancels = 0
  MaxAdmitted = 1
SPECIFICATION Spec
SYMMETRY MCSymmetry
INVARIANTS
  NoCoinLost
