------------------------- MODULE GasCostCalibration -------------------------
(* SuiClient::calibrate_gas_cost_per_object (sui_client.rs 170-201).  The  *)
(* pool initializer asks what one new coin object costs: the client        *)
(* dry-runs (dev_inspect, retried until it answers) a pay::split_n of one  *)
(* gas coin into SPLIT_COUNT coins, and divides the gas it used.  The      *)
(* transaction it builds and the dry run change nothing on chain: the one  *)
(* step is the answer of the dry run and the u64 arithmetic of line 200.   *)
EXTENDS Naturals

CONSTANTS
  SplitCount,   \* SPLIT_COUNT (500 in the code), scaled down
  MaxGasUsed    \* largest gas_used of the dry run considered

ASSUME SplitCount \in Nat \ {0} /\ MaxGasUsed >= SplitCount

VARIABLES
  calibrated,     \* calibrate_gas_cost_per_object has returned
  gasUsed,        \* gas_used of the dry run's effects
  costPerObject   \* the value it returned

cvars == <<calibrated, gasUsed, costPerObject>>

\* gas_used of the dry run: each of the SplitCount new objects pays at least
\* one unit of storage, so the split never costs less than SplitCount.
GasUsedValues == SplitCount..MaxGasUsed

\* Mutant: the doubling is dropped, the floored quotient alone is returned.
CalibrateNoMargin(used) == used \div SplitCount

\* gas_used / SPLIT_COUNT * 2: u64 division floors before the doubling.
CalibrateGasCostPerObject(used) == (used \div SplitCount) * 2

CInit == calibrated = FALSE /\ gasUsed = 0 /\ costPerObject = 0

\* dev_inspect_transaction_block of the split, retried until it answers,
\* then the per-object cost from its gas_used.
Calibrate ==
  /\ ~calibrated
  /\ \E g \in GasUsedValues :
       /\ gasUsed' = g
       /\ costPerObject' = CalibrateGasCostPerObject(g)
  /\ calibrated' = TRUE

\* The comment at line 199, "multiply by 2 to be conservative and resilient
\* to precision loss": for every gas_used the dry run can report, the
\* per-object cost the initializer gets, paid for SPLIT_COUNT objects,
\* covers the gas the measured split really used, although the division
\* floors away up to SPLIT_COUNT - 1 of it.
CalibrationCoversSplit ==
  calibrated => costPerObject * SplitCount >= gasUsed

=============================================================================
