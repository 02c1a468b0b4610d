--------------------------- MODULE ExchangeAccount ---------------------------
(***************************************************************************)
(* One account on one exchange, as the trading engine sees it through an   *)
(* ExchangeAPIWrapper.  The exchange is not part of the repository: its    *)
(* behaviour is what exchange_coordinator.pyx, harness.pyx and the wrappers *)
(* rely on when they call it.                                              *)
(*                                                                         *)
(* Orders are named by the ids the exchange hands out, in the order it     *)
(* hands them out.  Every order has the same size, in units of the volume  *)
(* currency; price and fees play no part in the control of the engine and  *)
(* are abstracted away.                                                    *)
(***************************************************************************)
EXTENDS Integers, FiniteSets, FiniteSetsExt

CONSTANTS
  MaxOrders,  \* bound: orders ever placed on the account
  Volume,     \* size of every order
  Side,       \* Side[o] is 1 for a bid, -1 for an ask
  AuditSkip,  \* oldest filled orders missing from get_order_audit_data
  Env         \* what may go wrong, see Trouble

(***************************************************************************)
(* What the environment may do to the engine in a given instance:          *)
(*   "api"    a request fails, retries included                            *)
(*   "lost"   the exchange accepts an order but its answer is lost         *)
(*   "lag"    the open-order list and the details answer from stale data   *)
(*   "age"    orders may be more than an hour old                          *)
(*   "commit" a database commit fails                                      *)
(*   "crash"  the process dies                                             *)
(*   "signal" the operator sends SIGINT or SIGHUP                          *)
(***************************************************************************)
Trouble == {"api", "lost", "lag", "age", "commit", "crash", "signal"}

OrderIds == 1..MaxOrders

ASSUME AccountAssumption ==
  /\ MaxOrders \in Nat
  /\ Volume \in Nat \ {0}
  /\ Side \in [OrderIds -> {1, -1}]
  /\ AuditSkip \in Nat
  /\ Env \subseteq Trouble

VARIABLES
  xState,   \* the exchange's view of each order id
  xFilled,  \* volume of the order that has traded
  xCancel   \* open orders whose cancellation was requested, not yet done

xVars == <<xState, xFilled, xCancel>>

OpenOnExchange == {o \in OrderIds : xState[o] = "open"}

\* An order the exchange has not seen has no trades, an open one has volume
\* left, and only open orders are being cancelled.
ExchangeType ==
  /\ xState \in [OrderIds -> {"none", "open", "closed"}]
  /\ xFilled \in [OrderIds -> 0..Volume]
  /\ xCancel \in SUBSET OpenOnExchange
  /\ \A o \in OrderIds :
       /\ xState[o] = "none" => xFilled[o] = 0
       /\ xState[o] = "open" => xFilled[o] < Volume

ExchangeInit ==
  /\ xState = [o \in OrderIds |-> "none"]
  /\ xFilled = [o \in OrderIds |-> 0]
  /\ xCancel = {}

-----------------------------------------------------------------------------
(* What the exchange does on its own.                                      *)

\* An open order trades one unit; it leaves the book when it is full.
Fill(o) ==
  /\ xState[o] = "open"
  /\ xFilled' = [xFilled EXCEPT ![o] = @ + 1]
  /\ IF xFilled[o] + 1 = Volume
     THEN /\ xState' = [xState EXCEPT ![o] = "closed"]
          /\ xCancel' = xCancel \ {o}
     ELSE UNCHANGED <<xState, xCancel>>

\* A cancellation the exchange accepted takes effect.
CancelTakesEffect(o) ==
  /\ o \in xCancel
  /\ xState' = [xState EXCEPT ![o] = "closed"]
  /\ xCancel' = xCancel \ {o}
  /\ UNCHANGED xFilled

-----------------------------------------------------------------------------
(* What requests do to it, and what they answer.                           *)

\* place_order: the next id, open and untouched.
Accept(o) ==
  /\ xState[o] = "none"
  /\ \A p \in OrderIds : p < o => xState[p] # "none"
  /\ xState' = [xState EXCEPT ![o] = "open"]
  /\ UNCHANGED <<xFilled, xCancel>>

\* cancel_order on the orders of S: closed orders are left alone.
RequestCancel(S) ==
  /\ xCancel' = xCancel \cup (S \cap OpenOnExchange)
  /\ UNCHANGED <<xState, xFilled>>

\* get_open_orders: the ids listed.  A lagging list omits open orders.
OpenOrderLists ==
  IF "lag" \in Env THEN SUBSET OpenOnExchange ELSE {OpenOnExchange}

\* get_multi_order_details: the filled volumes reported for o.
Reports(o) ==
  IF "lag" \in Env THEN 0..xFilled[o] ELSE {xFilled[o]}

\* get_order_audit_data: the recent orders that traded.  The wrappers drop
\* the oldest ones because their trades may be split across a page.
AuditedOrders ==
  {o \in OrderIds :
     /\ xFilled[o] > 0
     /\ Cardinality({p \in 1..(o - 1) : xFilled[p] > 0}) >= AuditSkip}

\* The signed sum over all orders of a per-order volume.
Net(f) == MapThenSumSet(LAMBDA o : Side[o] * f[o], OrderIds)

\* get_balance, relative to the balance when the ledger was initialized.
ExchangeBalance == Net(xFilled)
=============================================================================
