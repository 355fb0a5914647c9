# TLA+ model of the sponsored gas pool

A model-checking project for `src/src/gas_pool/gas_pool_core.rs` and
`src/src/sui_client.rs`. The main model covers the coin lifecycle: coins
move between the pool, reservations, in-flight executions and the
expiration sweeper. It runs these concurrently against a chain and a
fullnode that may lag, with crashes of the service and dropped calls. Smaller modules cover
the abstract lifecycle it refines, the transaction validity check, the
initial pool load and the gas cost calibration.

## 1. Inventory

### Components, their state and operations

| Component | Where | State | Operations (state-changing) |
|---|---|---|---|
| Orchestrator `GasPool` | gas_pool_core.rs 39-359 | none of its own; per call: cached `payment`, `total_gas_coin_balance`, the response, `updated_coins` | `reserve_gas`, `execute_transaction` (+ `execute_transaction_impl`, `get_total_gas_coin_balance`, `release_gas_coins`), `debug_check_health` |
| Unlocker task | gas_pool_core.rs 314-347 | loop position, `unlocked_coins`, `latest_coins` | each tick: `expire_coins`, `get_latest_gas_objects`, `release_gas_coins`, then sleep 1s or stop on cancel |
| `GasPoolContainer` | gas_pool_core.rs 361-396 | `cancel_sender` | `new` (spawns the task), `drop` (sends cancel once) |
| `SuiClient` | sui_client.rs | none (RPC client) | `execute_transaction` (up to 3 attempts), `get_latest_gas_objects` (chunks of 50, each retried forever), `try_get_sui_coin_balance`; pool seeding helpers (`get_all_owned_sui_coins_above_balance_threshold`, `calibrate_gas_cost_per_object`, `construct_coin_split_pt`), `get_reference_gas_price`, `wait_for_object` (test only) |
| Storage (trait, not in src/) | spec 4.3 | available coins, reservations with deadline, id counter | `reserve_gas_coins`, `ready_for_execution`, `add_new_coins`, `expire_coins` |
| `GasUsageCap` (not in src/) | spec 4.4 | window usage, window start | `check_usage`, `update_usage` |
| `TxSigner` (not in src/) | spec 4.2 | remote | `sign_transaction` (may fail; 3 attempts) |

### How they interact

* A caller's `reserve_gas` awaits `check_usage`, then awaits the storage's
  `reserve_gas_coins`. Other calls run between the two awaits. The call
  returns the refs of the reserved coins.
* A caller's `execute_transaction` validates the transaction and caches
  the payment ids *from the transaction*. It then calls
  `ready_for_execution`, the commit point that takes custody of the coins.
  Next it reads the pre-execution total from the fullnode, signs, submits,
  and updates the cap. It computes the coins to return and calls
  `add_new_coins` until that succeeds.
* The unlocker task shares the storage with the callers. Every second it
  expires reservations past their deadline, re-reads their coins from the
  fullnode, and returns them.
* The chain changes only when a submitted transaction executes. The
  fullnode's read API may trail the chain.

### What is hard here

* Interleavings: many callers, possibly retrying the same reservation,
  run concurrently with the unlocker task. Each await is a suspension point.
* Partial failure: a submit can time out after the chain executed the
  transaction. A storage call can fail. Signing can fail.
* Stale reads: a lagging fullnode affects the pre-execution balance, the
  failure-path re-read and the unlocker's re-read.
* Trust: the transaction (payment coins, gas budget) comes from an
  untrusted user.
* Time: reservation TTLs, the 1s tick, the 24h cap window.
* Shutdown: `drop` sends the cancel but does not join the task.
* Cancellation: the phase after the commit point runs inside the caller's
  future, so a dropped request leaves it unfinished.

### What makes each component correct

* Storage and orchestrator together:
  * a coin is held by at most one party (no double spend);
  * every live coin is held by someone (conservation);
  * the pool's view of each coin equals the chain's;
  * every reserved coin eventually returns to the pool.
* Orchestrator: after a success, the released coin is the gas object at
  its true balance.
* Container: no storage call by the unlocker task after shutdown.
* Cap: within a window, the limit is overshot by at most one charge per
  coin plus one per call that passed `check_usage` and has not yet reached
  the storage. Every executed transaction's gas is counted.
* Crash and dropped calls: they strand only coins that restart recovery
  can find.
* Validity: the gas coin is never handed to a command as an operand.
* Initial load: it terminates and finds every coin above the threshold.
* Calibration: the per-object cost covers the split it was measured on,
  in spite of the floor division.

The hazards these properties target are listed, each at its source line,
under `hazards` in `PROJECT.json`.

## 2. Plan and progress

1. **GasPool.tla** (done): the whole coin lifecycle in one module. It
   covers callers, the unlocker task, container drop, storage, cap, chain
   and fullnode. The components share state too tightly to split usefully.
2. **CoinLifecycle.tla** (done): the abstract lifecycle. GasPool refines
   it through `Lifecycle == INSTANCE CoinLifecycle WITH status <- CoinStatus`.
3. **TransactionValidity.tla** (done): `check_transaction_validity` as a
   recursive operator, checked against a reference definition.
4. **Cap properties** (done): the overshoot bound, and the lost usage.
5. **Crash and restart** (done): `CrashRestart` in GasPool.
6. **PoolLoad.tla** (done): the initial pool load.
7. **Wrap and shutdown** (done): `NoBalanceWraps` replaces the exact-balance
   check in the stale-read run. `ShutdownStopsTask` adds shutdown liveness.
8. **Dropped calls and calibration** (done):
   - `CancelCall` drops an `execute_transaction` future at an await
     after `ready_for_execution`;
   - GasCostCalibration models `calibrate_gas_cost_per_object`, composed
     with PoolLoad in `MCPoolLoad`.
9. Left open:
   - a liveness instance with three coins (about 14 min);
   - `add_new_coins` against a store that is not idempotent.

## 3. Modules and how they correspond to the code

### GasPool.tla

**Variables**

| Variable | Stands for |
|---|---|
| `chain` | the on-chain state of each coin id: version and balance, or gone |
| `fullnode` | what the fullnode's read API returns |
| `available`, `res`, `nextRid` | the storage |
| `usage`, `windowOver` | `GasUsageCap` |
| `call[e]` | the locals of one `execute_transaction` invocation: pc, payment refs, budget, `total_gas_coin_balance`, charged gas, effects gas object, `updated_coins` |
| `sweeper` | the loop position and locals of the unlocker task |
| `cancelled` | whether the oneshot cancel has been sent |
| `admitted` | `reserve_gas` calls past `check_usage` and before `reserve_gas_coins` |
| `txCount`, `crashes`, `cancels` | transactions executed on chain, process crashes and dropped calls (bounds only) |
| `gasLedger` | a ghost: net gas charged on chain, and net gas added by `update_usage` |

**Actions.** Each action runs from one await to the next.

| Action | Code |
|---|---|
| `ReserveGasCheck` | `reserve_gas` lines 71-73: `check_usage` passes and the call waits before the storage. `admitted` counts such calls, up to `MaxAdmitted`. An over-cap call changes nothing and is not a step. |
| `ReserveGas(b)` | lines 74-87: a waiting call gets coins from `reserve_gas_coins` |
| `ReserveGasNoCapacity(b)` | lines 74-77: `reserve_gas_coins` fails, and the waiting call returns the error |
| `DebugCheckHealth` | `debug_check_health`: a reservation that is signed but never executed |
| `ExecuteTransaction(e, r)` | lines 101-120, up to a successful `ready_for_execution`. A failed one returns with no state change. |
| `QueryBalance` | line 126 |
| `SignTransaction` | signing with up to 3 attempts: ok or error |
| `Submit` | `SuiClient::execute_transaction`, with three outcomes: executed with effects; executed but every response lost; not executed |
| `UpdateUsageAndDerive` | `update_usage` (line 230), then the success branch of lines 134-156, including the `as u64` wrap |
| `ReconcileFailed` | the error branch, lines 157-168 |
| `ReleaseGasCoins` | `release_gas_coins`. It retries forever, so it happens once and succeeds. |
| `SweepExpire` / `SweepExpireFails` / `SweepRead` / `SweepRelease` / `SweepSleep` | the unlocker loop. `SweepStop` is the cancel branch of the `select!`. |
| `DropContainer` | `Drop` |
| `CrashRestart` | the process dies and `GasPoolContainer::new` runs again. Calls, waiting `reserve_gas` calls and the task are lost. The storage (durable, spec 6) and the chain keep their state. The cap is a fresh `GasUsageCap::new` (line 374), so its window is empty. |
| `CancelCall(e)` | the future of a call is dropped at one of the awaits after `ready_for_execution` (lines 126-174), for example because the RPC request was cancelled. Nothing detaches the rest of the call, so it never reaches `release_gas_coins`, while the process and the unlocker task go on. Bounded by `MaxCancels`. |
| `TtlElapses`, `DayPasses`, `FullnodeSync` | the environment: time passing, and the fullnode catching up |

Two helpers are shared by several actions:
- `ReleaseCoins` is `release_gas_coins`, used by calls and by the task;
- `ChargeUsage` is the `update_usage` call site, lines 224-235.

The storage and cap operators (`MinimalCovers`, `AddNewCoins`, `DueRids`,
`CheckUsage`, `UpdateUsage`) are modelled from the spec, because that code
is not under src/.

**Refinement.** `CoinStatus` maps each coin to one abstract status:
- custody, if a call or the unlocker task holds it;
- otherwise reserved, if an active or due reservation has it;
- otherwise pool, if it is available;
- otherwise gone.

Custody comes first, so a coin that the storage still lists while someone
holds it shows up as an illegal pool -> custody step.

**Abstractions**

* One sponsor.
* Coins are model values.
* Balances are small integers, and the u64 is scaled to `BalanceModulus`.
* The chain smashes the payment into one gas object at the Lamport version.
* A transaction that aborts in Move still returns effects and charges gas,
  so it is the "executed with effects" outcome.
* The sponsor and validity checks return before any state changes. Validity
  is checked on its own in TransactionValidity.

### CoinLifecycle.tla

The abstract specification has one variable, `status`, that maps each coin
to pool, reserved, custody or gone. It has three actions:
- `Reserve`: pool to reserved;
- `Take`: reserved to custody;
- `Return`: custody to pool or gone.

It has weak fairness on `Return`, so custody always ends. This is what
spec 3 calls the ownership rule: the store, a reservation, or a transient
custodian. It has no run of its own; GasPool's runs check it as a property.

### TransactionValidity.tla

`CommandArgs` translates the match arms of `check_transaction_validity`
(lines 250-270). `AllArgs` is the loop, written as a RECURSIVE walk over
the commands. `CheckTransactionValidity` is the `uses_gas` test.

The reference `GasCoinMisused` is written independently of the code, from
the command signatures. Each argument position has a type: any, object,
coin, address, u64 or ticket. The gas coin, a `Coin<SUI>`, is misused
where a coin can stand.

A client builds transactions of up to two commands. Vector operands have
up to two of {gas coin, input, result}. `CheckValidity` is line 105.

### PoolLoad.tla

`get_all_owned_sui_coins_above_balance_threshold` (sui_client.rs 44-80)
works as follows:
- `GetCoinsPage` is one loop iteration: the page, the `>=` filter, and
  either the next cursor or the break;
- `ChainChange` changes a sponsor coin between pages;
- the fullnode's `get_coins` paging (`After`, `Page`, `HasNextPage`) is
  modelled from its documented behaviour: id order, at most `PageSize`
  coins after the cursor, and `has_next_page` when more coins remain.

### GasCostCalibration.tla

`calibrate_gas_cost_per_object` (sui_client.rs 170-201) is modelled as
follows:
- `Calibrate` is one step: the dry run answers with some `gas_used`, and
  `CalibrateGasCostPerObject` takes `gas_used / SPLIT_COUNT * 2` with
  floor division;
- `GasUsedValues` starts at `SPLIT_COUNT`, because each of the new coins
  pays at least one unit of storage;
- the split transaction it builds and the dry run change no state.

`MCPoolLoad` composes this module with PoolLoad into `MCSpec`. Both are
steps of the pool initializer and they interleave.

## 4. Runs

The GasPool runs use `MCGasPool.tla`:
- coins `c1, c2, c3` and callers `e1, e2`;
- every coin starts at balance 2;
- budgets {1, 3}, net gas usage 1, daily limit 1, `BalanceModulus` 16;
- at most 3 reservations and 2 executed transactions.

These bounds are enough for the cases that matter:
- a budget of 3 needs two coins, so execution smashes coins;
- two callers can race for the same reservation;
- a reservation can be both executed and expired;
- the cap is exceeded after two transactions;
- two transactions can touch the same coin in turn, which is where stale
  reads bite.

Coins and callers are symmetric in `Init` and in every action, so the
safety runs use symmetry. The liveness run does not.

| Run | cfg | Expect | What it shows |
|---|---|---|---|
| core_safety | MCGasPool.cfg | pass | Honest callers, an up-to-date fullnode, up to one crash with restart anywhere, and one dropped call: `CoinHeldOnce` and `PoolMatchesChain` hold under every interleaving. This includes lost responses, signing failures, swallowed `expire_coins` errors, TTLs, the cap window and shutdown. About 1.95M states, 1.5 min. |
| reclaim_liveness | MCGasPoolLive.cfg | pass | With one caller and two coins (a budget of 3 still takes both): `ReservedCoinsReturn`, the refinement `CoinLifecycleSpec`, and `ShutdownStopsTask` (after drop the task leaves its loop). About 205k states, 1.5 min. |
| lagging_fullnode_safety | MCGasPoolLag.cfg | pass | Stale reads never double-hold or lose a coin (`NoCoinLost`, with no crash). About 3.2M states, 2.5 min. |
| cap_overshoot | MCGasPoolCap.cfg | pass | Two coins, daily limit 0, four transactions, one `reserve_gas` call waiting between `check_usage` and `reserve_gas_coins`. Usage passes the limit but stays within limit + max charge x (coins + waiting calls) (`CapOvershootBounded`). It reaches this bound of 3: two reservations, plus a call that passed the check and reserves a returned coin after both were charged. The bound without the waiting calls is violated. About 507k states, 12 s. |
| transaction_validity | MCTransactionValidity.cfg | pass | The code's verdict equals the reference on all 21,757 transactions of up to two commands. |
| pool_load | MCPoolLoad.cfg | pass | Four ids, pages of two, balances on both sides of threshold 2, up to two changes during the load: the load terminates and finds every untouched coin above the threshold. Interleaved with it, `CalibrationCoversSplit` holds for `SPLIT_COUNT` 5 and every `gas_used` from 5 to 40, so every remainder of the division occurs. About 130k states. |
| foreign_payment | MCGasPoolForeignPayment.cfg | violation | The caller pays with a coin that is not in its reservation. The reserved coin is off the books forever. |
| lagging_fullnode_balance | MCGasPoolLagBalance.cfg | violation | With net gas usage {1, 3}: two successive transactions on the same coin. The second reads the pre-execution balance from before the first (2 instead of 3). It is charged 3, and the derived balance wraps to 15 (scaled u64) in the pool. This breaks `NoBalanceWraps` (16 states). |
| lagging_fullnode_reconcile | MCGasPoolLagReconcile.cfg | violation | An executed transaction with every response lost. The failure path re-reads the old version. |
| shutdown_not_joined | MCGasPoolShutdown.cfg | violation | `drop`, then the unlocker task's next `expire_coins`. |
| lost_usage | MCGasPoolLostUsage.cfg | violation | An executed transaction whose responses were all lost is never added to the daily usage (6 states). |
| crash_strands_expired | MCGasPoolCrashStrands.cfg | violation | Reserve, TTL, `expire_coins`, crash: the EXPIRED reservation's coins are held by nobody and are not IN_FLIGHT (5 states). |

**Findings.** The findings are in `PROJECT.json`.

* Most important: nothing in `execute_transaction` ties the transaction's
  payment to the reservation it names (gas_pool_core.rs:106).
* The cap misses the gas of transactions whose responses were lost
  (line 223, before `update_usage` at 230).
* The restart recovery the spec asks for (IN_FLIGHT only) misses the
  coins of reservations that `expire_coins` committed just before a crash.
* A stale pre-execution read below the charge makes the derived balance
  wrap to near 2^64 (lines 126, 137, 154).
* The code does not meet what the spec claims about lagging fullnodes and
  shutdown.
* Spec 9 asks for the reconcile-and-return phase to run detached. In the
  code it runs inside the caller's future, so a dropped request strands
  the coins in flight. core_safety shows that a dropped call breaks
  neither exclusivity nor reconciliation. There is no run for the leak
  itself: without a restart nothing recovers those coins.

**Deadlock.** Deadlock is checked in every run:
- GasPool's only terminal state is `Terminated`: the container was
  dropped, the task stopped and no call is running;
- PoolLoad ends in `Loaded`;
- TransactionValidity always lets the client start a new transaction.

## 5. Fairness and why the code justifies it

| Fairness | Justification |
|---|---|
| Weak fairness on each caller's steps after `ready_for_execution` | `release_gas_coins` retries forever. The liveness run assumes the call is not dropped (`MaxCancels` 0). The code does not ensure this; see the finding on dropped calls. |
| Weak fairness on the unlocker task | It is a tokio task woken every second. |
| Strong fairness on the stop step of `SweepSleep` | After `drop`, the cancel receiver is ready at every `select!`. `select!` polls every ready branch, so the cancel eventually wins against the sleep. The step is enabled only while the task sleeps, so weak fairness would not do. |
| Strong fairness on a successful `expire_coins` | The storage is eventually available (spec 9). Without it, an always-failing storage would starve expiry. |
| Weak fairness on `TtlElapses` and `FullnodeSync` | Wall time advances, and a fullnode eventually applies what was certified. |
| Weak fairness on `GetCoinsPage` (PoolLoad) | Each page is `retry_forever`, and spec 9 assumes the chain client is eventually available. |

`ReserveGasCheck`, `ReserveGas`, `ExecuteTransaction`, `DropContainer`, `CrashRestart`,
`CancelCall` and `Calibrate` are user or environment actions and get no fairness. The liveness run has
no crash: after a crash, in-flight coins wait for a recovery that is not
specified.

## 6. Not modelled, and why

* Restart recovery of the coin store is outside src/ and unspecified
  (spec 4.7). The model shows which coins it would have to find.
* A storage call that commits and then reports an error. The model's
  storage calls succeed or fail atomically, so `release_gas_coins` never
  retries an `add_new_coins` that already committed. Such a retry after
  the coin was reserved again would put it back in the pool a second time.
* A released reservation stays IN_FLIGHT. `add_new_coins` takes no
  reservation id, so nothing in the code lets the store retire it.
* Read-only helpers:
  * `construct_coin_split_pt` builds a value;
  * `get_reference_gas_price`, `query_pool_available_coin_count`,
    `support_address` and `get_gas_pool_arc` only read.
* `wait_for_object` and the `#[cfg(test)]` assertion exist only in test
  builds.
* Metrics and logging have no effect on state.
* The chunking of `get_latest_gas_objects` into batches of 50, each
  retried forever, is collapsed into one read. The union of the chunks
  equals one read of the fullnode at one instant, up to lag, and lag is
  modelled separately.
* Multiple sponsors and the `UnknownSponsor` early return: one sponsor is
  enough for the coin lifecycle.
* TransactionValidity does not check the `SplitCoins` amounts, the
  `TransferObjects` address or the `Upgrade` ticket, and neither does the
  code. The reference agrees, because a coin cannot stand at those
  positions; a gas coin placed there fails the chain's type check.
