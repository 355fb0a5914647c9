----------------------------- MODULE MCPoolLoad -----------------------------
(* Bounds for checking the two SuiClient steps of the pool initializer   *)
(* with TLC: the paged load (PoolLoad) and the gas cost calibration.     *)
EXTENDS PoolLoad, GasCostCalibration

\* The load and the calibration are independent steps of the initializer
\* and interleave; every page request is eventually answered.
MCInit == Init /\ CInit

MCNext ==
  \/ Next /\ UNCHANGED cvars
  \/ Calibrate /\ UNCHANGED vars

MCSpec ==
  /\ MCInit
  /\ [][MCNext]_<<vars, cvars>>
  /\ WF_<<vars, cvars>>(GetCoinsPage /\ UNCHANGED cvars)

=============================================================================
