------------------------------ MODULE PoolLoad ------------------------------
(* The initial pool load: SuiClient::                                      *)
(* get_all_owned_sui_coins_above_balance_threshold (sui_client.rs 44-80).  *)
(* The loop asks the fullnode's get_coins for one page after the cursor,   *)
(* retrying each page until it succeeds, keeps the coins of the page whose *)
(* balance is at least the threshold, and follows next_cursor while        *)
(* has_next_page.  The sponsor's coins may change on chain between pages.  *)
(*                                                                         *)
(* The fullnode's pages are modelled as get_coins serves them: coins in    *)
(* order of object id, at most PageSize after the cursor, has_next_page    *)
(* when more remain, next_cursor the last id of the page.                  *)
EXTENDS Integers, FiniteSets, FiniteSetsExt

CONSTANTS
  NumIds,       \* object ids of the sponsor's coins are 1..NumIds
  Balances,     \* balances a coin may have
  NoCoin,       \* the sponsor owns no coin with this id
  Threshold,    \* balance_threshold
  PageSize,     \* coins per page of get_coins
  MaxChanges    \* bound on chain changes during the load

ASSUME NumIds \in Nat \ {0} /\ PageSize \in Nat \ {0} /\ MaxChanges \in Nat

Ids == 1..NumIds

VARIABLES
  owned,        \* the chain: balance of each sponsor coin, or NoCoin
  cursor,       \* cursor: 0 for None, else the last object id of a page
  coins,        \* the GasCoins collected so far
  done,         \* the loop has returned
  changes,      \* chain changes so far
  stable        \* ghost: coin owned at or above the threshold, unchanged, since the load began

vars == <<owned, cursor, coins, done, changes, stable>>

AboveThreshold(b) == b # NoCoin /\ b >= Threshold

-----------------------------------------------------------------------------
(* get_coins(address, None, cursor, None)                                  *)

\* Coins owned after the cursor, in id order.
After(c) == {i \in Ids : i > c /\ owned[i] # NoCoin}

\* The first PageSize of them.
Page(c) == {i \in After(c) : Cardinality({j \in After(c) : j < i}) < PageSize}

HasNextPage(c) == Cardinality(After(c)) > PageSize

-----------------------------------------------------------------------------

Init ==
  /\ owned \in [Ids -> Balances \cup {NoCoin}]
  /\ cursor = 0
  /\ coins = {}
  /\ done = FALSE
  /\ changes = 0
  /\ stable = [i \in Ids |-> AboveThreshold(owned[i])]

\* Mutant: the loop returns after the first page, has_next_page unread.
GetCoinsPageIgnoresNextPage ==
  /\ ~done
  /\ coins' = coins \cup {[id |-> i, bal |-> owned[i]] :
                          i \in {j \in Page(cursor) : AboveThreshold(owned[j])}}
  /\ done' = TRUE
  /\ UNCHANGED <<owned, cursor, changes, stable>>

\* Mutant: cursor = page.next_cursor is forgotten.
GetCoinsPageKeepsCursor ==
  /\ ~done
  /\ coins' = coins \cup {[id |-> i, bal |-> owned[i]] :
                          i \in {j \in Page(cursor) : AboveThreshold(owned[j])}}
  /\ IF HasNextPage(cursor) THEN UNCHANGED done ELSE done' = TRUE
  /\ UNCHANGED <<owned, cursor, changes, stable>>

\* One iteration of the loop: the page (after retry_forever succeeds), the
\* threshold filter, and either the next cursor or the break.
GetCoinsPage ==
  /\ ~done
  /\ LET page == Page(cursor)
     IN /\ coins' = coins \cup {[id |-> i, bal |-> owned[i]] :
                                  i \in {j \in page : AboveThreshold(owned[j])}}
        /\ IF HasNextPage(cursor)
           THEN cursor' = Max(page) /\ UNCHANGED done
           ELSE done' = TRUE /\ UNCHANGED cursor
  /\ UNCHANGED <<owned, changes, stable>>

\* A transaction of the sponsor creates, deletes or changes the balance of
\* coin i while the load is running.
ChainChange(i, b) ==
  /\ ~done
  /\ changes < MaxChanges
  /\ b # owned[i]
  /\ owned' = [owned EXCEPT ![i] = b]
  /\ stable' = [stable EXCEPT ![i] = FALSE]
  /\ changes' = changes + 1
  /\ UNCHANGED <<cursor, coins, done>>

\* The pool starts once the load returned.
Loaded == done /\ UNCHANGED vars

Next ==
  \/ GetCoinsPage
  \/ \E i \in Ids, b \in Balances \cup {NoCoin} : ChainChange(i, b)
  \/ Loaded

\* retry_forever: every page request eventually succeeds.
Spec == Init /\ [][Next]_vars /\ WF_vars(GetCoinsPage)

-----------------------------------------------------------------------------

\* Spec 4.1 (list_owned_coins_above returns the coins at or above the
\* threshold): when the loop returns, every coin the sponsor owned at or
\* above the threshold, untouched for the whole load, is in the result at
\* its balance, however the other coins changed between pages.
LoadFindsStableCoins ==
  done => \A i \in Ids : stable[i] => [id |-> i, bal |-> owned[i]] \in coins

\* The loop over pages terminates: the cursor only moves forward and the
\* chain changes finitely often.
LoadTerminates == <>done

=============================================================================
