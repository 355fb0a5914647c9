------------------------ MODULE MCTransactionValidity ------------------------
(* Model values for checking TransactionValidity with TLC: the gas coin,  *)
(* a transaction input and the result of an earlier command.              *)
EXTENDS TransactionValidity

CONSTANTS gas, input, result

MCArguments == {gas, input, result}

=============================================================================
