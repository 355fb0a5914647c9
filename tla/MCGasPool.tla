----------------------------- MODULE MCGasPool -----------------------------
(* Model values and small bounds for checking GasPool with TLC.            *)
EXTENDS GasPool, TLC

CONSTANTS c1, c2, c3, e1, e2

MCCoins == {c1, c2, c3}
MCCallers == {e1, e2}

\* One caller, for the liveness run: the races between callers are the
\* safety runs' business, the reclaim races a caller against the task.
MCOneCaller == {e1}

\* Two coins, for the liveness run: a smashing budget still reserves both.
MCTwoCoins == {c1, c2}

\* Coins and callers are interchangeable in Init and in every action.
MCSymmetry == Permutations(MCCoins) \cup Permutations(MCCallers)
MCTwoSymmetry == Permutations(MCTwoCoins) \cup Permutations(MCCallers)

=============================================================================
