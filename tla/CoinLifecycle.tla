--------------------------- MODULE CoinLifecycle ---------------------------
(* What the gas pool promises about each of the sponsor's coins, stated   *)
(* without callers, tasks, versions or balances.  A coin is in the pool,  *)
(* reserved for a user, in the custody of one party that will return it   *)
(* (an execution or the unlocker task), or gone for good.                 *)
(*                                                                         *)
(*   pool --Reserve--> reserved --Take--> custody --Return--> pool | gone *)
(*                                                                         *)
(* A reserved coin never goes straight back to the pool: it is returned   *)
(* only after someone took custody and reconciled it with the chain.  A   *)
(* coin leaves the books only from custody, when the chain deleted it.    *)
EXTENDS FiniteSets

CONSTANT Coins

VARIABLE status

Status == {"pool", "reserved", "custody", "gone"}

\* The coins of S all move from one status to another, in one step.
Move(S, from, to) ==
  /\ S # {}
  /\ \A i \in S : status[i] = from
  /\ status' = [i \in Coins |-> IF i \in S THEN to ELSE status[i]]

Init == status = [i \in Coins |-> "pool"]

\* reserve_gas hands a set of pool coins to one reservation.
Reserve == \E S \in SUBSET Coins : Move(S, "pool", "reserved")

\* ready_for_execution, or expire_coins, takes reserved coins into custody.
Take == \E S \in SUBSET Coins : Move(S, "reserved", "custody")

\* The custodian returns the coins that survive (Back) and drops the ones
\* the chain deleted (Dropped).
Return ==
  \E Back, Dropped \in SUBSET Coins :
    /\ Back \cap Dropped = {}
    /\ Back \cup Dropped # {}
    /\ \A i \in Back \cup Dropped : status[i] = "custody"
    /\ status' = [i \in Coins |-> CASE i \in Back    -> "pool"
                                    [] i \in Dropped -> "gone"
                                    [] OTHER         -> status[i]]

Next == Reserve \/ Take \/ Return

\* Custody is temporary: a coin some party has taken is eventually returned.
Spec == Init /\ [][Next]_status /\ WF_status(Return)

TypeOK == status \in [Coins -> Status]

=============================================================================
