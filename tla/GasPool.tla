------------------------------ MODULE GasPool ------------------------------
(***************************************************************************)
(* The coin lifecycle of the sponsored gas pool (gas_pool_core.rs): the    *)
(* concurrent execute_transaction calls of GasPool, the coin unlocker task *)
(* started by GasPoolContainer, the storage they share (reserve, ready,    *)
(* add_new_coins, expire_coins), the daily gas usage cap, and the chain    *)
(* and fullnode that SuiClient talks to.  One sponsor address.             *)
(*                                                                         *)
(* Every await of the Rust code is a suspension point: one action models  *)
(* the code from one await to the next, together with the atomic storage, *)
(* cap or chain call it makes.                                             *)
(***************************************************************************)
EXTENDS Integers, FiniteSets, FiniteSetsExt

CONSTANTS
  Coins,            \* object ids of the sponsor's gas coins
  Callers,          \* concurrent execute_transaction invocations
  InitBalance,      \* balance of every coin after the initial pool load
  Budgets,          \* gas budgets callers pass to reserve_gas
  HealthBudget,     \* MIST_PER_OCT / 10 used by debug_check_health
  NetGasUsages,     \* net_gas_usage values the chain may charge
  DailyLimit,       \* gas_usage_daily_cap
  BalanceModulus,   \* 2^w: the u64 of GasCoin.balance, scaled down
  HonestCallers,    \* TRUE: a caller pays with exactly its reserved coins
  FullnodeLags,     \* TRUE: fullnode reads may trail the chain
  MaxReservations,  \* bound on ReservationIDs the storage allocates
  MaxTx,            \* bound on transactions the chain executes
  MaxCrashes,       \* bound on process crashes
  MaxCancels,       \* bound on dropped execute_transaction futures
  MaxAdmitted,      \* bound on reserve_gas calls between check and storage
  NoObject          \* None of get_latest_gas_objects: object is gone

ASSUME
  /\ Coins # {} /\ Callers # {}
  /\ InitBalance \in Nat \ {0}
  /\ Budgets \subseteq Nat \ {0} /\ HealthBudget \in Nat \ {0}
  /\ NetGasUsages \subseteq Int
  /\ DailyLimit \in Nat /\ BalanceModulus \in Nat \ {0}
  /\ HonestCallers \in BOOLEAN /\ FullnodeLags \in BOOLEAN
  /\ MaxReservations \in Nat /\ MaxTx \in Nat /\ MaxCrashes \in Nat
  /\ MaxCancels \in Nat /\ MaxAdmitted \in Nat

VARIABLES
  chain,        \* object id -> [ver, bal] on chain, or NoObject
  fullnode,     \* object id -> what the fullnode's read API returns
  available,    \* storage: set of available GasCoin [id, ver, bal]
  res,          \* storage: ReservationID -> [state, coins, budget]
  nextRid,      \* storage: next ReservationID to allocate
  usage,        \* GasUsageCap: usage of the current window
  windowOver,   \* GasUsageCap: 24h passed since the window started
  call,         \* Caller -> local state of its execute_transaction
  sweeper,      \* local state of the coin unlocker task
  cancelled,    \* the oneshot cancel was sent by GasPoolContainer::drop
  txCount,      \* transactions executed on chain (bounds the model)
  gasLedger,    \* ghost: net gas charged on chain, and added by update_usage
  crashes,      \* process crashes so far (bounds the model)
  cancels,      \* execute_transaction futures dropped so far (bounds the model)
  admitted      \* reserve_gas calls past check_usage, not yet at the storage

vars == <<chain, fullnode, available, res, nextRid, usage, windowOver,
          call, sweeper, cancelled, txCount, gasLedger, crashes, cancels, admitted>>

Rids == 1..MaxReservations
RState == {"none", "active", "due", "inflight", "expired"}
ChainObj == [ver : Nat, bal : Nat]
GasCoin == [id : Coins, ver : Nat, bal : Nat]
ObjRef == [id : Coins, ver : Nat]
CallPc == {"idle", "balance", "sign", "submit", "update_usage",
           "reconcile", "release"}
SweepPc == {"expire", "read", "release", "sleep", "stopped"}

Ids(coins) == {c.id : c \in coins}
RefOf(c) == [id |-> c.id, ver |-> c.ver]
TotalBalance(coins) == MapThenSumSet(LAMBDA c : c.bal, coins)

\* `as u64` of an i64: two's complement wrap into [0, 2^w).
AsU64(i) == i % BalanceModulus

-----------------------------------------------------------------------------
(* SuiClient (sui_client.rs)                                               *)

\* try_get_sui_coin_balance: the GasCoin of an object response, or None when
\* the object no longer exists.
TryGetSuiCoinBalance(i) ==
  IF fullnode[i] = NoObject THEN NoObject
  ELSE [id |-> i, ver |-> fullnode[i].ver, bal |-> fullnode[i].bal]

\* get_latest_gas_objects(ids).into_values().flatten(): the GasCoins of the
\* ids, the ones whose object is gone dropped.
LatestGasObjects(ids) ==
  {TryGetSuiCoinBalance(i) : i \in ids} \ {NoObject}

\* get_total_gas_coin_balance: sum of the balances of LatestGasObjects.
GetTotalGasCoinBalance(ids) == TotalBalance(LatestGasObjects(ids))

\* The chain accepts a transaction whose payment refs are all the current
\* versions of live objects that together cover the gas budget.
ChainAccepts(refs, budget) ==
  /\ \A r \in refs : chain[r.id] # NoObject /\ chain[r.id].ver = r.ver
  /\ MapThenSumSet(LAMBDA r : chain[r.id].bal, refs) >= budget

\* Effects of executing the transaction: the gas object g receives the
\* smashed balance minus the charge, at the Lamport version of the inputs,
\* every other payment coin is deleted.
Smash(refs, g, gas) ==
  LET ver == Max({r.ver : r \in refs}) + 1
      bal == MapThenSumSet(LAMBDA r : chain[r.id].bal, refs) - gas
  IN [i \in Coins |->
        IF i = g THEN [ver |-> ver, bal |-> bal]
        ELSE IF i \in Ids(refs) THEN NoObject ELSE chain[i]]

\* The fullnode sees a chain update at once unless it may lag.
FullnodeAfter(newChain) == IF FullnodeLags THEN fullnode ELSE newChain

-----------------------------------------------------------------------------
(* Storage (spec 4.3): the atomic operations of the coin store.            *)

\* reserve_gas_coins: a minimal-cardinality subset of the available coins
\* covering the budget.
CoverSets(budget) ==
  {S \in SUBSET available : S # {} /\ TotalBalance(S) >= budget}
MinimalCovers(budget) ==
  {S \in CoverSets(budget) :
     \A T \in CoverSets(budget) : Cardinality(S) <= Cardinality(T)}

\* add_new_coins: idempotent on (ObjectId, Version).
AddNewCoins(coins) ==
  available \cup {c \in coins : \A a \in available : RefOf(a) # RefOf(c)}

\* ReservationIDs past their TTL that expire_coins will collect.
DueRids == {r \in 1..(nextRid - 1) : res[r].state = "due"}

-----------------------------------------------------------------------------
(* GasUsageCap (spec 4.4)                                                  *)

\* check_usage: the usage of the current window is not over the limit.
CheckUsage == windowOver \/ usage <= DailyLimit

\* update_usage(net): a rollover resets the window, then adds net.
UpdateUsage(net) ==
  /\ usage' = IF windowOver THEN net ELSE usage + net
  /\ windowOver' = FALSE

\* Wall time reaches the end of the 24h window.
DayPasses ==
  /\ ~windowOver
  /\ windowOver' = TRUE
  /\ UNCHANGED <<chain, fullnode, available, res, nextRid, usage, call,
                 sweeper, cancelled, txCount, gasLedger, crashes, cancels, admitted>>

-----------------------------------------------------------------------------
(* GasPool::reserve_gas, and debug_check_health which reserves and signs   *)
(* without submitting.                                                     *)

\* Mutant: reserve_gas does not call check_usage first.
ReserveGasCheckSkipped ==
  /\ admitted < MaxAdmitted
  /\ admitted' = admitted + 1
  /\ UNCHANGED <<chain, fullnode, available, res, nextRid, usage, windowOver,
                 call, sweeper, cancelled, txCount, gasLedger, crashes, cancels>>

\* reserve_gas up to its second await (lines 71-73): check_usage finds the
\* window's usage within the limit, and the call goes on to the storage.
\* Other calls and executions may run before its reserve_gas_coins.
ReserveGasCheck ==
  /\ admitted < MaxAdmitted
  /\ CheckUsage
  /\ admitted' = admitted + 1
  /\ UNCHANGED <<chain, fullnode, available, res, nextRid, usage, windowOver,
                 call, sweeper, cancelled, txCount, gasLedger, crashes, cancels>>

\* Mutant: the ReservationID counter advances twice per reservation.
ReserveGasSkipsId(budget) ==
  /\ admitted > 0
  /\ nextRid <= MaxReservations
  /\ \E S \in MinimalCovers(budget) :
       /\ available' = available \ S
       /\ res' = [res EXCEPT ![nextRid] =
                    [state |-> "active", coins |-> S, budget |-> budget]]
  /\ nextRid' = nextRid + 2
  /\ admitted' = admitted - 1
  /\ UNCHANGED <<chain, fullnode, usage, windowOver, call, sweeper,
                 cancelled, txCount, gasLedger, crashes, cancels>>

\* Mutant: reserve_gas_coins records the reservation but leaves its coins
\* in the available set.
ReserveGasKeepsCoins(budget) ==
  /\ admitted > 0
  /\ nextRid <= MaxReservations
  /\ \E S \in MinimalCovers(budget) :
       /\ available' = available
       /\ res' = [res EXCEPT ![nextRid] =
                    [state |-> "active", coins |-> S, budget |-> budget]]
  /\ nextRid' = nextRid + 1
  /\ admitted' = admitted - 1
  /\ UNCHANGED <<chain, fullnode, usage, windowOver, call, sweeper,
                 cancelled, txCount, gasLedger, crashes, cancels>>

\* The rest of reserve_gas (lines 74-87): reserve_gas_coins takes a cover
\* of the budget out of the pool for a new ACTIVE reservation.
ReserveGas(budget) ==
  /\ admitted > 0
  /\ nextRid <= MaxReservations
  /\ \E S \in MinimalCovers(budget) :
       /\ available' = available \ S
       /\ res' = [res EXCEPT ![nextRid] =
                    [state |-> "active", coins |-> S, budget |-> budget]]
  /\ nextRid' = nextRid + 1
  /\ admitted' = admitted - 1
  /\ UNCHANGED <<chain, fullnode, usage, windowOver, call, sweeper,
                 cancelled, txCount, gasLedger, crashes, cancels>>

\* reserve_gas_coins finds no cover of the budget: the ? at line 77 returns
\* the error and nothing changed.
ReserveGasNoCapacity(budget) ==
  /\ admitted > 0
  /\ MinimalCovers(budget) = {}
  /\ admitted' = admitted - 1
  /\ UNCHANGED <<chain, fullnode, available, res, nextRid, usage, windowOver,
                 call, sweeper, cancelled, txCount, gasLedger, crashes, cancels>>

DebugCheckHealth == ReserveGas(HealthBudget)

\* The reservation's deadline passes (now > reserve time + duration).
TtlElapses(r) ==
  /\ res[r].state = "active"
  /\ res' = [res EXCEPT ![r].state = "due"]
  /\ UNCHANGED <<chain, fullnode, available, nextRid, usage, windowOver,
                 call, sweeper, cancelled, txCount, gasLedger, crashes, cancels, admitted>>

-----------------------------------------------------------------------------
(* GasPool::execute_transaction, one action per await.                     *)

Idle == [pc |-> "idle", refs |-> {}, budget |-> 0, pre |-> 0, gas |-> 0,
         gasObj |-> NoObject, out |-> {}]

\* The payment refs of the caller's tx_data.  An honest caller pays with the
\* refs reserve_gas handed out; any other caller may name any live coin of
\* the sponsor, which it can read from the chain.
TxPayments(r) ==
  IF HonestCallers
  THEN {{RefOf(c) : c \in res[r].coins}}
  ELSE {P \in SUBSET {[id |-> i, ver |-> chain[i].ver] :
                        i \in {j \in Coins : chain[j] # NoObject}} : P # {}}

\* Mutant: ready_for_execution also accepts a reservation already in flight.
ExecuteTransactionTwice(e, r) ==
  /\ call[e].pc = "idle"
  /\ r < nextRid
  /\ res[r].state \in {"active", "due", "inflight"}
  /\ res' = [res EXCEPT ![r].state = "inflight"]
  /\ \E refs \in TxPayments(r) :
       call' = [call EXCEPT ![e] = [Idle EXCEPT !.pc = "balance",
                  !.refs = refs, !.budget = res[r].budget]]
  /\ UNCHANGED <<chain, fullnode, available, nextRid, usage, windowOver,
                 sweeper, cancelled, txCount, gasLedger, crashes, cancels, admitted>>

\* The sponsor and validity checks pass, the payment ids are cached, and
\* ready_for_execution moves the reservation to in-flight.  When it fails
\* (the reservation expired or is in flight) the call returns the error
\* and changes nothing.
ExecuteTransaction(e, r) ==
  /\ call[e].pc = "idle"
  /\ r < nextRid
  /\ res[r].state \in {"active", "due"}
  /\ res' = [res EXCEPT ![r].state = "inflight"]
  /\ \E refs \in TxPayments(r) :
       call' = [call EXCEPT ![e] = [Idle EXCEPT !.pc = "balance",
                  !.refs = refs, !.budget = res[r].budget]]
  /\ UNCHANGED <<chain, fullnode, available, nextRid, usage, windowOver,
                 sweeper, cancelled, txCount, gasLedger, crashes, cancels, admitted>>

\* Total balance of the payment coins prior to execution.
QueryBalance(e) ==
  /\ call[e].pc = "balance"
  /\ call' = [call EXCEPT ![e].pc = "sign",
                ![e].pre = GetTotalGasCoinBalance(Ids(call[e].refs))]
  /\ UNCHANGED <<chain, fullnode, available, res, nextRid, usage,
                 windowOver, sweeper, cancelled, txCount, gasLedger, crashes, cancels, admitted>>

\* The sponsor signature, up to 3 attempts; failing them all is an error
\* response.
SignTransaction(e) ==
  /\ call[e].pc = "sign"
  /\ \/ call' = [call EXCEPT ![e].pc = "submit"]
     \/ call' = [call EXCEPT ![e].pc = "reconcile"]
  /\ UNCHANGED <<chain, fullnode, available, res, nextRid, usage,
                 windowOver, sweeper, cancelled, txCount, gasLedger, crashes, cancels, admitted>>

\* SuiClient::execute_transaction, up to 3 attempts.  The chain executes
\* the transaction and the effects come back; or it executes it and every
\* response is lost; or it never executes it.
Submit(e) ==
  /\ call[e].pc = "submit"
  /\ \/ /\ txCount < MaxTx
        /\ ChainAccepts(call[e].refs, call[e].budget)
        /\ \E g \in Ids(call[e].refs), gas \in NetGasUsages :
             LET newChain == Smash(call[e].refs, g, gas)
             IN /\ gas <= call[e].budget
                /\ chain' = newChain
                /\ fullnode' = FullnodeAfter(newChain)
                /\ gasLedger' = [gasLedger EXCEPT !.charged = @ + gas]
                /\ \/ call' = [call EXCEPT ![e].pc = "update_usage",
                                 ![e].gas = gas,
                                 ![e].gasObj = [id |-> g,
                                                ver |-> newChain[g].ver]]
                   \/ call' = [call EXCEPT ![e].pc = "reconcile"]
        /\ txCount' = txCount + 1
     \/ /\ call' = [call EXCEPT ![e].pc = "reconcile"]
        /\ UNCHANGED <<chain, fullnode, txCount, gasLedger, crashes, cancels, admitted>>
  /\ UNCHANGED <<available, res, nextRid, usage, windowOver, sweeper,
                 cancelled, crashes, cancels, admitted>>

\* execute_transaction_impl after a response: update_usage with the
\* effects' net gas usage (the ghost records what was counted).
ChargeUsage(net) ==
  /\ UpdateUsage(net)
  /\ gasLedger' = [gasLedger EXCEPT !.counted = @ + net]

\* Mutant: the new coin keeps the pre-execution total, the charge forgotten.
UpdateUsageNoCharge(e) ==
  /\ call[e].pc = "update_usage"
  /\ ChargeUsage(call[e].gas)
  /\ call' = [call EXCEPT ![e].pc = "release",
                ![e].out = {[id |-> call[e].gasObj.id,
                             ver |-> call[e].gasObj.ver,
                             bal |-> AsU64(call[e].pre)]}]
  /\ UNCHANGED <<chain, fullnode, available, res, nextRid, sweeper,
                 cancelled, txCount, crashes, cancels, admitted>>

\* update_usage with the effects' net gas usage; back in
\* execute_transaction the one coin left is the gas object, at the balance
\* derived from the pre-execution total.
UpdateUsageAndDerive(e) ==
  /\ call[e].pc = "update_usage"
  /\ ChargeUsage(call[e].gas)
  /\ call' = [call EXCEPT ![e].pc = "release",
                ![e].out = {[id |-> call[e].gasObj.id,
                             ver |-> call[e].gasObj.ver,
                             bal |-> AsU64(call[e].pre - call[e].gas)]}]
  /\ UNCHANGED <<chain, fullnode, available, res, nextRid, sweeper,
                 cancelled, txCount, crashes, cancels, admitted>>

\* The transaction failed: the coins to release are the payment coins the
\* fullnode still knows.
ReconcileFailed(e) ==
  /\ call[e].pc = "reconcile"
  /\ call' = [call EXCEPT ![e].pc = "release",
                ![e].out = LatestGasObjects(Ids(call[e].refs))]
  /\ UNCHANGED <<chain, fullnode, available, res, nextRid, usage,
                 windowOver, sweeper, cancelled, txCount, gasLedger, crashes, cancels, admitted>>

\* release_gas_coins: add_new_coins, retried until it succeeds.
ReleaseCoins(coins) == available' = AddNewCoins(coins)

\* Back in execute_transaction: the coins are released whatever the
\* response was, then the response is returned.
ReleaseGasCoins(e) ==
  /\ call[e].pc = "release"
  /\ ReleaseCoins(call[e].out)
  /\ call' = [call EXCEPT ![e] = Idle]
  /\ UNCHANGED <<chain, fullnode, res, nextRid, usage, windowOver,
                 sweeper, cancelled, txCount, gasLedger, crashes, cancels, admitted>>

\* The caller's future is dropped at one of the awaits after
\* ready_for_execution (lines 126, 131, 163, 174): the RPC request that
\* drives it is cancelled.  Nothing detaches the rest of the call, so its
\* locals vanish, the reservation stays in flight, and release_gas_coins
\* never runs; the process, the pool and the unlocker task go on.
CancelCall(e) ==
  /\ cancels < MaxCancels
  /\ call[e].pc # "idle"
  /\ cancels' = cancels + 1
  /\ call' = [call EXCEPT ![e] = Idle]
  /\ UNCHANGED <<chain, fullnode, available, res, nextRid, usage, windowOver,
                 sweeper, cancelled, txCount, gasLedger, crashes, admitted>>

-----------------------------------------------------------------------------
(* The coin unlocker task (start_coin_unlock_task) and its cancellation.   *)

\* Mutant: expire_coins commits, but the ids it returns are dropped.
SweepExpireDropsIds ==
  /\ sweeper.pc = "expire"
  /\ res' = [r \in Rids |->
               IF r \in DueRids THEN [res[r] EXCEPT !.state = "expired"]
               ELSE res[r]]
  /\ sweeper' = [sweeper EXCEPT !.pc = "sleep"]
  /\ UNCHANGED <<chain, fullnode, available, nextRid, usage, windowOver,
                 call, cancelled, txCount, gasLedger, crashes, cancels, admitted>>

\* expire_coins moves every reservation past its deadline to expired and
\* returns its coin ids; an error is logged and read as no coins.
SweepExpire ==
  /\ sweeper.pc = "expire"
  /\ LET ids == UNION {Ids(res[r].coins) : r \in DueRids}
     IN /\ res' = [r \in Rids |->
                     IF r \in DueRids THEN [res[r] EXCEPT !.state = "expired"]
                     ELSE res[r]]
        /\ sweeper' = [sweeper EXCEPT !.pc = IF ids = {} THEN "sleep"
                                             ELSE "read",
                                      !.ids = ids]
  /\ UNCHANGED <<chain, fullnode, available, nextRid, usage, windowOver,
                 call, cancelled, txCount, gasLedger, crashes, cancels, admitted>>

SweepExpireFails ==
  /\ sweeper.pc = "expire"
  /\ sweeper' = [sweeper EXCEPT !.pc = "sleep"]
  /\ UNCHANGED <<chain, fullnode, available, res, nextRid, usage,
                 windowOver, call, cancelled, txCount, gasLedger, crashes, cancels, admitted>>

\* get_latest_gas_objects of the expired coins.
SweepRead ==
  /\ sweeper.pc = "read"
  /\ sweeper' = [sweeper EXCEPT !.pc = "release",
                   !.out = LatestGasObjects(sweeper.ids)]
  /\ UNCHANGED <<chain, fullnode, available, res, nextRid, usage,
                 windowOver, call, cancelled, txCount, gasLedger, crashes, cancels, admitted>>

SweepRelease ==
  /\ sweeper.pc = "release"
  /\ ReleaseCoins(sweeper.out)
  /\ sweeper' = [pc |-> "sleep", ids |-> {}, out |-> {}]
  /\ UNCHANGED <<chain, fullnode, res, nextRid, usage, windowOver, call,
                 cancelled, txCount, gasLedger, crashes, cancels, admitted>>

\* The cancel branch of the select!: the receiver is ready once the cancel
\* was sent, and the loop breaks.
SweepStop ==
  /\ sweeper.pc = "sleep"
  /\ cancelled
  /\ sweeper' = [sweeper EXCEPT !.pc = "stopped"]
  /\ UNCHANGED <<chain, fullnode, available, res, nextRid, usage,
                 windowOver, call, cancelled, txCount, gasLedger, crashes, cancels, admitted>>

\* Mutant: the select! polls only the sleep, the cancel is never seen.
SweepSleepIgnoresCancel ==
  /\ sweeper.pc = "sleep"
  /\ sweeper' = [sweeper EXCEPT !.pc = "expire"]
  /\ UNCHANGED <<chain, fullnode, available, res, nextRid, usage,
                 windowOver, call, cancelled, txCount, gasLedger, crashes, cancels, admitted>>

\* tokio::select! of the 1s sleep against the cancel receiver: either
\* branch may win once the cancel was sent.
SweepSleep ==
  \/ /\ sweeper.pc = "sleep"
     /\ sweeper' = [sweeper EXCEPT !.pc = "expire"]
     /\ UNCHANGED <<chain, fullnode, available, res, nextRid, usage,
                    windowOver, call, cancelled, txCount, gasLedger, crashes, cancels, admitted>>
  \/ SweepStop

\* Drop for GasPoolContainer sends the cancel once.
DropContainer ==
  /\ ~cancelled
  /\ cancelled' = TRUE
  /\ UNCHANGED <<chain, fullnode, available, res, nextRid, usage,
                 windowOver, call, sweeper, txCount, gasLedger, crashes, cancels, admitted>>

\* The process crashes and restarts: every reserve_gas and
\* execute_transaction call and the unlocker task vanish with their locals,
\* and GasPoolContainer::new starts a fresh task with a fresh
\* GasUsageCap::new (line 374), whose window starts empty.  The storage
\* (spec 6, durable) and the chain keep their state.
CrashRestart ==
  /\ crashes < MaxCrashes
  /\ crashes' = crashes + 1
  /\ call' = [e \in Callers |-> Idle]
  /\ sweeper' = [pc |-> "expire", ids |-> {}, out |-> {}]
  /\ cancelled' = FALSE
  /\ admitted' = 0
  /\ usage' = 0
  /\ windowOver' = FALSE
  /\ UNCHANGED <<chain, fullnode, available, res, nextRid, txCount, gasLedger,
                 cancels>>

\* A lagging fullnode catches up on one object.
FullnodeSync(i) ==
  /\ fullnode[i] # chain[i]
  /\ fullnode' = [fullnode EXCEPT ![i] = chain[i]]
  /\ UNCHANGED <<chain, available, res, nextRid, usage, windowOver, call,
                 sweeper, cancelled, txCount, gasLedger, crashes, cancels, admitted>>

-----------------------------------------------------------------------------

\* GasPoolContainer::new after the initial pool load: every coin available
\* at version 1, no reservation, the unlocker task about to run.
Init ==
  /\ chain = [i \in Coins |-> [ver |-> 1, bal |-> InitBalance]]
  /\ fullnode = chain
  /\ available = {[id |-> i, ver |-> 1, bal |-> InitBalance] : i \in Coins}
  /\ res = [r \in Rids |-> [state |-> "none", coins |-> {}, budget |-> 0]]
  /\ nextRid = 1
  /\ usage = 0
  /\ windowOver = FALSE
  /\ call = [e \in Callers |-> Idle]
  /\ sweeper = [pc |-> "expire", ids |-> {}, out |-> {}]
  /\ cancelled = FALSE
  /\ txCount = 0
  /\ gasLedger = [charged |-> 0, counted |-> 0]
  /\ crashes = 0
  /\ cancels = 0
  /\ admitted = 0

\* The service has shut down and nothing is left to run.
Terminated ==
  /\ sweeper.pc = "stopped"
  /\ \A e \in Callers : call[e].pc = "idle"
  /\ UNCHANGED vars

CallerStep(e) ==
  \/ QueryBalance(e) \/ SignTransaction(e) \/ Submit(e)
  \/ UpdateUsageAndDerive(e) \/ ReconcileFailed(e) \/ ReleaseGasCoins(e)

SweeperStep ==
  \/ SweepExpire \/ SweepExpireFails \/ SweepRead \/ SweepRelease
  \/ SweepSleep

Next ==
  \/ ReserveGasCheck
  \/ \E b \in Budgets : ReserveGas(b)
  \/ DebugCheckHealth
  \/ \E b \in Budgets \cup {HealthBudget} : ReserveGasNoCapacity(b)
  \/ \E r \in Rids : TtlElapses(r)
  \/ \E e \in Callers, r \in Rids : ExecuteTransaction(e, r)
  \/ \E e \in Callers : CallerStep(e)
  \/ SweeperStep
  \/ DayPasses
  \/ DropContainer
  \/ CrashRestart
  \/ \E e \in Callers : CancelCall(e)
  \/ \E i \in Coins : FullnodeSync(i)
  \/ Terminated

\* Once past ready_for_execution a call runs to the end (release is
\* retried forever); the unlocker task runs every second; deadlines pass;
\* the storage is eventually available to expire_coins; a lagging fullnode
\* eventually catches up; select! keeps polling a ready cancel receiver, so
\* the cancel branch, enabled at every sleep after drop, eventually wins.  Reserving, executing and dropping are up to the
\* users and get no fairness.
Fairness ==
  /\ \A e \in Callers : WF_vars(CallerStep(e))
  /\ WF_vars(SweeperStep)
  /\ SF_vars(SweepExpire)
  /\ SF_vars(SweepSleep /\ sweeper'.pc = "stopped")
  /\ \A r \in Rids : WF_vars(TtlElapses(r))
  /\ \A i \in Coins : WF_vars(FullnodeSync(i))

Spec == Init /\ [][Next]_vars /\ Fairness

-----------------------------------------------------------------------------
(* Properties                                                              *)

TypeOK ==
  /\ chain \in [Coins -> ChainObj \cup {NoObject}]
  /\ fullnode \in [Coins -> ChainObj \cup {NoObject}]
  /\ available \subseteq GasCoin
  /\ res \in [Rids -> [state : RState, coins : SUBSET GasCoin, budget : Nat]]
  /\ nextRid \in 1..(MaxReservations + 1)
  /\ usage \in Int /\ windowOver \in BOOLEAN
  /\ \A e \in Callers :
       /\ call[e].pc \in CallPc
       /\ call[e].refs \subseteq ObjRef
       /\ call[e].out \subseteq GasCoin
  /\ sweeper.pc \in SweepPc
  /\ sweeper.ids \subseteq Coins /\ sweeper.out \subseteq GasCoin
  /\ cancelled \in BOOLEAN /\ txCount \in 0..MaxTx
  /\ gasLedger \in [charged : Int, counted : Int]
  /\ crashes \in 0..MaxCrashes
  /\ cancels \in 0..MaxCancels
  /\ admitted \in 0..MaxAdmitted

\* Who holds coin i: the available set, a reservation not yet in flight, a
\* call past ready_for_execution, the unlocker task between expire_coins
\* and add_new_coins.
ReservedBy(i) ==
  {r \in Rids : res[r].state \in {"active", "due"} /\ i \in Ids(res[r].coins)}
HeldByCall(f, i) ==
  \/ call[f].pc \in CallPc \ {"idle", "release"} /\ i \in Ids(call[f].refs)
  \/ call[f].pc = "release" /\ i \in Ids(call[f].out)
HeldBySweeper(i) ==
  \/ sweeper.pc = "read" /\ i \in sweeper.ids
  \/ sweeper.pc = "release" /\ i \in Ids(sweeper.out)
Holders(i) ==
  (IF i \in Ids(available) THEN {"pool"} ELSE {})
  \cup {<<"reservation", r>> : r \in ReservedBy(i)}
  \cup {<<"call", f>> : f \in {g \in Callers : HeldByCall(g, i)}}
  \cup (IF HeldBySweeper(i) THEN {"sweeper"} ELSE {})

\* No double spend (spec 3, invariant 1): a coin is held by at most one of
\* the pool, a reservation, an execute_transaction call and the unlocker
\* task, and the pool never has two versions of it.  Broken by handing a
\* coin out twice, or by add_new_coins of a coin someone else holds.
CoinHeldOnce ==
  \A i \in Coins :
    /\ Cardinality(Holders(i)) <= 1
    /\ Cardinality({c \in available : c.id = i}) <= 1

\* Conservation (spec 8.1): every coin alive on chain is held by someone;
\* ready_for_execution and expire_coins take coins off the books, and only
\* the release of exactly those coins puts them back.
NoCoinLost ==
  \A i \in Coins : chain[i] # NoObject => Holders(i) # {}

\* Reconciliation is exact: every coin the pool offers, available or
\* reserved, has the version and balance the chain has.  The balance
\* derived as pre-execution total minus net gas usage, the failure path and
\* the unlocker's reads must all agree with the chain.
PoolMatchesChain ==
  \A c \in available \cup UNION {res[r].coins :
                                 r \in {q \in Rids : res[q].state \in {"active", "due"}}} :
    chain[c.id] = [ver |-> c.ver, bal |-> c.bal]

\* Cap overshoot (spec 4.4, a soft admission gate): reserve_gas checks the
\* cap at line 73 and reserves at line 76, and usage is charged only at
\* line 230.  Once usage passes the limit no check admits a call until the
\* window rolls, so what lies past the limit comes from reservations
\* outstanding at the crossing, each holding a distinct coin, and from calls
\* already past check_usage: at most one maximal charge per coin and per
\* such call.
CapOvershootBounded ==
  usage <= DailyLimit + Max(NetGasUsages) * (Cardinality(Coins) + MaxAdmitted)

\* Usage accounting (spec 4.4, "net gas usage from each executed
\* transaction is added to window_usage"): every unit of gas the chain
\* charged is counted by update_usage, or is about to be by a call between
\* the submit and update_usage.
UsageCountsAllGas ==
  gasLedger.charged =
    gasLedger.counted +
      MapThenSumSet(LAMBDA e : call[e].gas,
                    {e \in Callers : call[e].pc = "update_usage"})

\* Crash recovery (spec 4.7 and 9: coins of a crashed execution "remain in
\* IN_FLIGHT and must be addressed by restart-time recovery in the Coin
\* Store"): a crash strands only coins of IN_FLIGHT reservations.  Every
\* coin alive on chain that nobody holds belongs to a reservation the
\* storage has in flight, where such a recovery would find it.
OnlyInFlightStranded ==
  \A i \in Coins :
    chain[i] # NoObject /\ Holders(i) = {} =>
      \E r \in Rids : res[r].state = "inflight" /\ i \in Ids(res[r].coins)

\* No wrapped balance (the i64 arithmetic of line 137 and the `as u64` of
\* line 154): balances only shrink or merge on chain, so no coin the pool
\* offers can hold more than all the sponsor's coins held at the start.  A
\* pre-execution total read below the charge goes negative and wraps to a
\* balance near 2^64.
NoBalanceWraps ==
  \A c \in available : c.bal <= Cardinality(Coins) * InitBalance

\* Shutdown (spec 9): once GasPoolContainer::drop has sent the cancel, the
\* coin unlocker task makes no further call to the storage.
NoStoreCallAfterDrop ==
  [][cancelled => ~(SweepExpire \/ SweepExpireFails \/ SweepRelease)]_vars

\* Shutdown completes (spec 4.7, 9): once GasPoolContainer::drop has sent
\* the cancel, the unlocker task eventually leaves its loop, whatever
\* iteration it was in; select! keeps polling the ready receiver until it
\* wins against the sleep.
ShutdownStopsTask == cancelled ~> sweeper.pc = "stopped"

\* Post-expiration reclaim (spec 8.4): a coin that is reserved is
\* eventually available again, unless the chain deleted it or the
\* container was dropped and the unlocker task stopped.
ReservedCoinsReturn ==
  \A i \in Coins :
    (\E r \in Rids : res[r].state \in {"active", "due"} /\ i \in Ids(res[r].coins))
      ~> (i \in Ids(available) \/ chain[i] = NoObject \/ cancelled)

-----------------------------------------------------------------------------
(* Refinement: GasPool implements the abstract coin lifecycle.            *)

\* The abstract status of each coin, read off the calls and the unlocker
\* task, the reservations and the available set, in that order: a coin
\* someone holds is in custody whatever the storage still says of it.
CoinStatus ==
  [i \in Coins |->
     CASE (\E f \in Callers : HeldByCall(f, i)) \/ HeldBySweeper(i) -> "custody"
       [] ReservedBy(i) # {}                                     -> "reserved"
       [] i \in Ids(available)                                   -> "pool"
       [] OTHER                                                  -> "gone"]

Lifecycle == INSTANCE CoinLifecycle WITH status <- CoinStatus

\* Every step of reserve_gas, execute_transaction, the unlocker task and
\* the chain moves coins only along pool -> reserved -> custody -> pool or
\* gone, and every coin taken into custody (ready_for_execution,
\* expire_coins) is eventually released by add_new_coins or dropped
\* because the chain deleted it.
CoinLifecycleSpec == Lifecycle!Spec

=============================================================================
