-------------------------- MODULE EngineProperties --------------------------
(***************************************************************************)
(* What is checked and proved of LiveRunner.                               *)
(***************************************************************************)
EXTENDS LiveRunner

Settled == {"FILLED", "CANCELLED"}

(***************************************************************************)
(* The database never claims a trade the exchange has not made, in the     *)
(* session or in the rows, whatever fails: was_eaten and                   *)
(* was_partially_eaten replace an order's trades by a list that the        *)
(* exchange gave at some time.                                             *)
(***************************************************************************)
NoPhantomTrades ==
  \A o \in OrderIds : trades[o] <= xFilled[o] /\ dbTrades[o] <= xFilled[o]

(***************************************************************************)
(* An order that the database calls FILLED or CANCELLED has left the       *)
(* exchange and its trades are all there: an order is settled only when    *)
(* _get_current_orders has missed it in the open orders, and its details   *)
(* are requested after that.                                               *)
(***************************************************************************)
SettledOrdersExact ==
  \A o \in OrderIds :
    dbStatus[o] \in Settled => xState[o] = "closed" /\ dbTrades[o] = xFilled[o]

(***************************************************************************)
(* Position and balance contain exactly the trades of the order rows,      *)
(* except for the change that update_position is about to add.             *)
(***************************************************************************)
Pending(o) == IF change.order = o THEN change.amount ELSE 0

PositionFollowsTrades ==
  \A o \in OrderIds : posted[o] + Pending(o) = trades[o]

(***************************************************************************)
(* _run_accounting saves an order and its position change in two commits.  *)
(* A process that dies between them leaves the position wrong for one      *)
(* order, never for more.                                                  *)
(***************************************************************************)
OneOrderPerCrash ==
  LET outOfStep == {o \in OrderIds : dbPosted[o] # dbTrades[o]}
      atHand == IF pc = "update_position" THEN {change.order} ELSE {}
  IN  Cardinality(outOfStep \ atHand) <= crashes

(***************************************************************************)
(* While the engine runs on, an order open on the exchange or OPEN in the  *)
(* ledger keeps the exchange active, so that the next tick consolidates    *)
(* its ledger.  Only an audit clears is_active, and wind_down has made     *)
(* sure that nothing is open by then.                                      *)
(***************************************************************************)
OpenOrdersStayWatched ==
  \A o \in OrderIds : xState[o] = "open" \/ status[o] = "OPEN" => active

(***************************************************************************)
(* An audit that passed on an exchange with trading activity left nothing  *)
(* open, and every order of the ledger has all its trades there.  What     *)
(* traded and is not in the ledger is of orders whose answer was lost, no  *)
(* more of them than get_order_audit_data leaves out; where that is one    *)
(* order at most and the balances have to be equal, there is none.         *)
(***************************************************************************)
Hidden == {o \in OrderIds : trades[o] # xFilled[o]}

BooksClosed ==
  /\ \A o \in OrderIds : xState[o] # "open" /\ status[o] # "OPEN"
  /\ \A o \in Hidden : status[o] = "NONE"
  /\ Cardinality(Hidden) <= AuditSkip
  /\ AuditSkip <= 1 /\ Tolerance = 0 => Hidden = {}

AuditMeansBooksClosed == [][AuditPasses /\ active => BooksClosed]_vars

(***************************************************************************)
(* Trading alone never makes the balance audit record drift: the engine is *)
(* wound down when it compares the balances.  What it may take for drift   *)
(* is what traded of orders whose answer was lost, as many as the order    *)
(* audit does not see.                                                     *)
(***************************************************************************)
Lost == {o \in OrderIds : status[o] = "NONE" /\ xState[o] = "closed" /\ o # placing}

Traded(S) == [o \in OrderIds |-> IF o \in S THEN xFilled[o] ELSE 0]

DriftIsLostOrders ==
  \E S \in SUBSET Lost : Cardinality(S) <= AuditSkip /\ drift = Net(Traded(S))

(***************************************************************************)
(* A warm shutdown that completed on an active exchange left nothing open. *)
(***************************************************************************)
WarmShutdownComplete ==
  pc = "exit" /\ active =>
    \A o \in OrderIds : xState[o] # "open" /\ status[o] # "OPEN"

(***************************************************************************)
(* The database implements the trade book.                                 *)
(***************************************************************************)
Book == INSTANCE TradeBook WITH
  Orders <- OrderIds, Size <- Volume,
  executed <- xFilled,
  gone <- {o \in OrderIds : xState[o] = "closed"},
  booked <- dbTrades,
  settled <- {o \in OrderIds : dbStatus[o] \in Settled}

BookSpec == Book!Spec

(***************************************************************************)
(* Every trade of an order in the database reaches the database.           *)
(***************************************************************************)
FillsReachTheBooks ==
  \A o \in OrderIds :
    (dbStatus[o] # "NONE" /\ dbTrades[o] < xFilled[o]) ~> (dbTrades[o] = xFilled[o])

(***************************************************************************)
(* It does as long as the engine is not stopped: a lost order, for which   *)
(* every audit fails, does not keep wind_down from consolidating.          *)
(***************************************************************************)
EveryFillBooked == [](pc \notin Stopped) => FillsReachTheBooks

(***************************************************************************)
(* The same after an unclean restart, provided that no order was lost with *)
(* the process before it was saved: order_audit's second chance repairs    *)
(* the orders that traded in the meantime, "hoping that things have        *)
(* settled down and we will get the correct accounting this time"          *)
(* (exchange_coordinator.pyx:503).                                         *)
(***************************************************************************)
AllKnown == \A o \in OrderIds : xState[o] # "none" => dbStatus[o] # "NONE"

RestartCatchesUp == <>[]AllKnown => FillsReachTheBooks

(***************************************************************************)
(* The engine is never stuck in its recovery loop: exception_retry_loop    *)
(* ends, unless an order was lost with the answer to its request (an order *)
(* filled under wind_down's hands, a cancellation that takes its time or a *)
(* strategy that fails does not keep the engine there); and even then a    *)
(* signal stops the engine, wherever it is.                                *)
(***************************************************************************)
NeverStuck ==
  /\ <>[]AllKnown => (mode = "recovery" ~> mode # "recovery")
  /\ warm ~> pc \in Stopped
=============================================================================
