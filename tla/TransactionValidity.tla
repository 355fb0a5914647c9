------------------------- MODULE TransactionValidity -------------------------
(* GasPool::check_transaction_validity (gas_pool_core.rs 247-278) and the  *)
(* early return it guards in execute_transaction (line 105).  A sponsored  *)
(* transaction may use the gas coin only to pay gas: no command may take   *)
(* it as an operand.  The code walks the commands, collects the operands   *)
(* of each kind of command into all_args, and rejects the transaction if   *)
(* any of them is Argument::GasCoin.                                       *)
(*                                                                         *)
(* The walk is checked against a reference definition written from the    *)
(* signatures of the programmable-transaction commands: the gas coin,      *)
(* a Coin<SUI> object, is misused when it stands at a position whose type  *)
(* admits a coin.                                                          *)
EXTENDS Integers, Sequences, SequencesExt

CONSTANTS
  Arguments,    \* argument values: GasCoin and a few others
  GasCoin,      \* Argument::GasCoin
  MaxArgs,      \* most operands in one vector argument of a command
  MaxCommands   \* most commands in one transaction

ASSUME GasCoin \in Arguments

VARIABLES
  commands,     \* the commands of the transaction being built
  verdict       \* "none" until execute_transaction checked it

vars == <<commands, verdict>>

ArgSeq == BoundedSeq(Arguments, MaxArgs)

\* The seven Command variants, each with its argument fields.  Publish
\* carries module bytes and dependency ids, and no Argument.
Command ==
       [kind : {"MoveCall"}, arguments : ArgSeq]
  \cup [kind : {"TransferObjects"}, objects : ArgSeq, address : Arguments]
  \cup [kind : {"SplitCoins"}, coin : Arguments, amounts : ArgSeq]
  \cup [kind : {"MergeCoins"}, target : Arguments, sources : ArgSeq]
  \cup [kind : {"Publish"}]
  \cup [kind : {"MakeMoveVec"}, elems : ArgSeq]
  \cup [kind : {"Upgrade"}, ticket : Arguments]

-----------------------------------------------------------------------------
(* The code                                                                *)

\* Mutant: the target of MergeCoins is not collected.
CommandArgsNoMergeTarget(c) ==
  CASE c.kind = "MoveCall"        -> c.arguments
    [] c.kind = "TransferObjects" -> c.objects
    [] c.kind = "SplitCoins"      -> <<c.coin>>
    [] c.kind = "MergeCoins"      -> c.sources
    [] c.kind = "MakeMoveVec"     -> c.elems
    [] c.kind \in {"Publish", "Upgrade"} -> <<>>

\* The operands one command contributes to all_args (the match arms).
CommandArgs(c) ==
  CASE c.kind = "MoveCall"        -> c.arguments
    [] c.kind = "TransferObjects" -> c.objects
    [] c.kind = "SplitCoins"      -> <<c.coin>>
    [] c.kind = "MergeCoins"      -> <<c.target>> \o c.sources
    [] c.kind = "MakeMoveVec"     -> c.elems
    [] c.kind \in {"Publish", "Upgrade"} -> <<>>

\* all_args: the loop over iter_commands, extending the vector per command.
RECURSIVE AllArgs(_)
AllArgs(cmds) ==
  IF cmds = <<>> THEN <<>>
  ELSE CommandArgs(Head(cmds)) \o AllArgs(Tail(cmds))

\* uses_gas is false: no collected argument matches Argument::GasCoin.
CheckTransactionValidity(cmds) ==
  LET allArgs == AllArgs(cmds)
  IN ~\E k \in 1..Len(allArgs) : allArgs[k] = GasCoin

-----------------------------------------------------------------------------
(* The reference: operand positions and the types they admit.             *)

\* Each argument position of a command, with the type of value it takes.
Positions(c) ==
  LET each(s, t) == {<<s[k], t>> : k \in DOMAIN s}
  IN CASE c.kind = "MoveCall"        -> each(c.arguments, "any")
       [] c.kind = "TransferObjects" -> each(c.objects, "object")
                                          \cup {<<c.address, "address">>}
       [] c.kind = "SplitCoins"      -> {<<c.coin, "coin">>}
                                          \cup each(c.amounts, "u64")
       [] c.kind = "MergeCoins"      -> {<<c.target, "coin">>}
                                          \cup each(c.sources, "coin")
       [] c.kind = "MakeMoveVec"     -> each(c.elems, "any")
       [] c.kind = "Upgrade"         -> {<<c.ticket, "ticket">>}
       [] c.kind = "Publish"         -> {}

\* Types a Coin<SUI> value can stand at.
CoinTypes == {"any", "object", "coin"}

GasCoinMisused(cmds) ==
  \E k \in 1..Len(cmds) :
    \E p \in Positions(cmds[k]) : p[1] = GasCoin /\ p[2] \in CoinTypes

-----------------------------------------------------------------------------
(* A client builds a transaction one command at a time and submits it;     *)
(* execute_transaction checks it and either returns the error at once or   *)
(* goes on to ready_for_execution.                                         *)

Init == commands = <<>> /\ verdict = "none"

AddCommand ==
  /\ verdict = "none"
  /\ Len(commands) < MaxCommands
  /\ \E c \in Command : commands' = Append(commands, c)
  /\ UNCHANGED verdict

\* Line 105: Self::check_transaction_validity(&tx_data)?
CheckValidity ==
  /\ verdict = "none"
  /\ verdict' = IF CheckTransactionValidity(commands) THEN "accepted"
                ELSE "rejected"
  /\ UNCHANGED commands

\* The client starts over with a new transaction.
NewTransaction ==
  /\ verdict # "none"
  /\ commands' = <<>>
  /\ verdict' = "none"

Next == AddCommand \/ CheckValidity \/ NewTransaction

Spec == Init /\ [][Next]_vars

\* check_transaction_validity accepts exactly the transactions that never
\* hand the gas coin to a command as an operand of a type a coin can
\* have: its match arms collect every such position (including the
\* MergeCoins target and the SplitCoins coin) and no other.
ValidityMatchesReference ==
  verdict # "none" =>
    (verdict = "accepted" <=> ~GasCoinMisused(commands))

=============================================================================
