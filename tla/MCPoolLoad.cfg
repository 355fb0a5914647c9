\* Four coin ids, pages of two (so the load takes two or three pages),
\* balances on both sides of the threshold, and up to two chain changes
\* while the load runs.  The calibration with SPLIT_COUNT scaled to 5 and
\* every gas_used up to eight times it, remainders of every size included.
CONSTANTS
  NumIds = 4
  Balances = {1, 2}
  NoCoin = NoCoin
  Threshold = 2
  PageSize = 2
  MaxChanges = 2
  SplitCount = 5
  MaxGasUsed = 40
SPECIFICATION MCSpec
INVARIANTS
  LoadFindsStableCoins
  CalibrationCoversSplit
PROPERTY
  LoadTerminates
