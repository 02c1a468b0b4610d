------------------------- MODULE ExchangeCoordinator -------------------------
(***************************************************************************)
(* ExchangeCoordinator: everything the engine does to one exchange         *)
(* account, one action per request to the exchange or commit to the        *)
(* database, so that the exchange, a failure or a crash can come between   *)
(* any two of them.                                                        *)
(*                                                                         *)
(* pc is where the only thread of the engine is.  Its caller (LiveRunner)  *)
(* enters at "open_orders" (consolidate_ledger), "order_audit" (audit) or  *)
(* from "strategy" (place_order, cancel_order), and finds it again at      *)
(* "consolidated", "audited", "strategy", or "raised" with the exception   *)
(* in exc.                                                                 *)
(***************************************************************************)
EXTENDS TradingDatabase

CONSTANTS
  Tolerance,      \* volume_balance_tolerance of the wrapper
  WrapperHasLog   \* whether the wrapper has the attribute 'log'

ASSUME CoordinatorAssumption ==
  /\ Tolerance \in Nat
  /\ WrapperHasLog \in BOOLEAN

VARIABLES
  pc, exc,
  active,        \* is_active
  current,       \* current_orders returned by consolidate_ledger
  eaten,         \* eaten orders still to be settled
  partials,      \* current orders whose volume_remaining has shrunk
  details,       \* eaten_order_details, current_order_details
  change,        \* the order at hand and the position change it brings
  placing,       \* the id the exchange answered, not yet in the database
  secondChance   \* order_audit is being run again after reopen_orders

locals == <<current, eaten, partials, details, change, placing, secondChance>>
coordVars == <<pc, exc, active, locals>>

NoOrder == 0
NoChange == [order |-> NoOrder, amount |-> 0]
NoDetails == [o \in OrderIds |-> 0]

CoordinatorLabels ==
  {"open_orders", "details", "accounting", "partial", "update_position",
   "consolidated",
   "order_audit", "balance_audit", "audited",
   "strategy", "placing", "save_order", "raised"}

\* "audit" an AuditException, "api" an exchange failure that outlived its
\* retries, "other" anything else.
Exceptions == {"none", "audit", "api", "other"}

LocalsType ==
  /\ current \in SUBSET OrderIds
  /\ eaten \in SUBSET OrderIds
  /\ partials \in SUBSET OrderIds
  /\ details \in [OrderIds -> 0..Volume]
  /\ change \in [order : OrderIds \cup {NoOrder}, amount : Int]
  /\ placing \in OrderIds \cup {NoOrder}
  /\ secondChance \in BOOLEAN

CoordinatorType ==
  /\ exc \in Exceptions
  /\ active \in BOOLEAN
  /\ LocalsType

\* Local variables of a call that is over.
ForgetLocals ==
  /\ current' = {} /\ eaten' = {} /\ partials' = {}
  /\ details' = NoDetails /\ change' = NoChange
  /\ placing' = NoOrder /\ secondChance' = FALSE

CoordinatorInit ==
  /\ exc = "none" /\ active = FALSE
  /\ current = {} /\ eaten = {} /\ partials = {}
  /\ details = NoDetails /\ change = NoChange
  /\ placing = NoOrder /\ secondChance = FALSE

Raise(kind) ==
  /\ pc' = "raised" /\ exc' = kind
  /\ ForgetLocals
  /\ UNCHANGED active

Goto(label) == pc' = label /\ UNCHANGED exc

-----------------------------------------------------------------------------
(* consolidate_ledger                                                      *)

\* The orders listed as open that the session does not have as OPEN.
Unexpected(listed) == listed \ DbOpenOrders

\* Cases one and two of handle_unexpected_orders: not in the database, or
\* settled there as anything but CANCELLED.
Alarming(listed) == \E o \in Unexpected(listed) : status[o] # "CANCELLED"

\* The volume_remaining in the list is less than that of the session's order.
ShrunkIn(listed) == {o \in listed \cap DbOpenOrders : xFilled[o] > trades[o]}

\* get_open_orders, _get_current_orders, handle_unexpected_orders: compare
\* the list with the OPEN orders of the session, and cancel again the ones
\* that were CANCELLED (case three).
GetCurrentOrders ==
  /\ pc = "open_orders"
  /\ \E listed \in OpenOrderLists :
       IF Alarming(listed)
       THEN Raise("audit") /\ UNCHANGED <<xVars, dbVars>>
       ELSE /\ Reopen(Unexpected(listed)) /\ UNCHANGED rowVars
            /\ RequestCancel(Unexpected(listed))
            /\ current' = listed \cap DbOpenOrders
            /\ eaten' = DbOpenOrders \ listed
            /\ partials' \in (IF "lag" \in Env THEN SUBSET ShrunkIn(listed)
                                              ELSE {ShrunkIn(listed)})
            /\ Goto(IF DbOpenOrders \subseteq listed THEN "accounting" ELSE "details")
            /\ UNCHANGED <<active, details, change, placing, secondChance>>

\* _run_accounting: one request for the details of all the eaten orders.
GetEatenDetails ==
  /\ pc = "details"
  /\ details' \in [OrderIds -> 0..Volume]
  /\ \A o \in OrderIds : IF o \in eaten THEN details'[o] \in Reports(o)
                                        ELSE details'[o] = 0
  /\ Goto("accounting")
  /\ UNCHANGED <<xVars, dbVars, active, current, eaten, partials, change,
                 placing, secondChance>>

\* A bug: update_position outside the loop sees the last order only.
SettleEaten_PositionAfterLoop(o) ==
  /\ pc = "accounting" /\ o \in eaten
  /\ WasEaten(o, details[o]) /\ Commit
  /\ eaten' = eaten \ {o}
  /\ change' = [order |-> o, amount |-> trades'[o] - trades[o]]
  /\ Goto(IF eaten = {o} THEN "update_position" ELSE "accounting")
  /\ UNCHANGED <<xVars, active, current, partials, details, placing, secondChance>>

\* A bug: the whole position of the order instead of its change.
SettleEaten_WholePosition(o) ==
  /\ pc = "accounting" /\ o \in eaten
  /\ WasEaten(o, details[o]) /\ Commit
  /\ eaten' = eaten \ {o}
  /\ change' = [order |-> o, amount |-> trades'[o]]
  /\ Goto("update_position")
  /\ UNCHANGED <<xVars, active, current, partials, details, placing, secondChance>>

\* _run_accounting, the body of its first loop: settle the order and save
\* it.  The position follows in update_position, with a commit of its own.
SettleEaten(o) ==
  /\ pc = "accounting" /\ o \in eaten
  /\ WasEaten(o, details[o]) /\ Commit
  /\ eaten' = eaten \ {o}
  /\ change' = [order |-> o, amount |-> trades'[o] - trades[o]]
  /\ Goto("update_position")
  /\ UNCHANGED <<xVars, active, current, partials, details, placing, secondChance>>

\* _run_accounting, the body of its second loop: a request for the details
\* of this one order, which stays open and may go on trading.
GetPartialDetails(o) ==
  /\ pc = "accounting" /\ eaten = {} /\ o \in partials
  /\ \E filled \in Reports(o) : details' = [NoDetails EXCEPT ![o] = filled]
  /\ partials' = partials \ {o}
  /\ change' = [order |-> o, amount |-> 0]
  /\ Goto("partial")
  /\ UNCHANGED <<xVars, dbVars, active, current, eaten, placing, secondChance>>

\* Then the answer is saved, whatever has traded since.
SettlePartial(o) ==
  /\ pc = "partial" /\ change.order = o
  /\ WasPartiallyEaten(o, details[o]) /\ Commit
  /\ change' = [order |-> o, amount |-> trades'[o] - trades[o]]
  /\ Goto("update_position")
  /\ UNCHANGED <<xVars, active, current, eaten, partials, details, placing, secondChance>>

UpdatePosition ==
  /\ pc = "update_position"
  /\ AddToPosition(change.order, change.amount) /\ Commit
  /\ change' = NoChange
  /\ Goto("accounting")
  /\ UNCHANGED <<xVars, active, current, eaten, partials, details, placing,
                 secondChance>>

AccountingDone ==
  /\ pc = "accounting" /\ eaten = {} /\ partials = {}
  /\ details' = NoDetails
  /\ Goto(IF secondChance THEN "order_audit" ELSE "consolidated")
  /\ UNCHANGED <<xVars, dbVars, active, current, eaten, partials, change,
                 placing, secondChance>>

-----------------------------------------------------------------------------
(* audit                                                                   *)

\* Order audit: recent orders that the session has no row for, and recent
\* orders whose filled volume differs.
Unrecorded == {o \in AuditedOrders : status[o] = "NONE"}
Mismatched == {o \in AuditedOrders : status[o] # "NONE" /\ trades[o] # xFilled[o]}

OrderAuditPasses ==
  /\ pc = "order_audit" /\ Unrecorded = {} /\ Mismatched = {}
  /\ secondChance' = FALSE
  /\ Goto("balance_audit")
  /\ UNCHANGED <<xVars, dbVars, active, current, eaten, partials, details,
                 change, placing>>

\* An order is missing, or the second chance did not help either.
OrderAuditFails ==
  /\ pc = "order_audit"
  /\ Unrecorded # {} \/ (Mismatched # {} /\ secondChance)
  /\ Raise("audit")
  /\ UNCHANGED <<xVars, dbVars>>

\* order_audit's second chance: reopen_orders, then settle every order that
\* is OPEN as if the exchange listed none.  reopen_orders first logs through
\* an attribute the coordinator does not have: __getattr__ looks for it on
\* the wrapper and raises AttributeError when it is not there.
OrderAuditAgain ==
  /\ pc = "order_audit" /\ ~secondChance
  /\ Unrecorded = {} /\ Mismatched # {}
  /\ IF WrapperHasLog
     THEN /\ Reopen(Mismatched) /\ UNCHANGED rowVars
          /\ eaten' = DbOpenOrders \cup Mismatched
          /\ secondChance' = TRUE
          /\ Goto("details")
          /\ UNCHANGED <<xVars, active, current, partials, details, change, placing>>
     ELSE Raise("other") /\ UNCHANGED <<xVars, dbVars>>

\* reopen_orders refuses an order placed more than an hour ago; the orders
\* it came to before that one stay OPEN in the session.
ReopenRefused ==
  /\ "age" \in Env /\ WrapperHasLog
  /\ pc = "order_audit" /\ ~secondChance
  /\ Unrecorded = {} /\ Mismatched # {}
  /\ \E S \in SUBSET Mismatched : S # Mismatched /\ Reopen(S)
  /\ Raise("other")
  /\ UNCHANGED <<xVars, rowVars>>

\* The balance audit reads the balance of the account.  No deposit is
\* pending, so a difference beyond the tolerance cannot be explained away.
Difference == DbBalance - ExchangeBalance
CloseEnough == Difference \in -Tolerance..Tolerance

\* A difference within the tolerance becomes a drift transaction.
DriftRecorded == drift - Difference

\* ledger_audit: the balance against the trades and the transactions.
LedgerAgrees == Net(posted) + DriftRecorded = LedgerBalance(DriftRecorded)

BalanceAuditFails ==
  /\ pc = "balance_audit" /\ ~CloseEnough
  /\ Raise("audit")
  /\ UNCHANGED <<xVars, dbVars>>

\* The drift stays in the session: the next commit keeps it.
LedgerAuditFails ==
  /\ pc = "balance_audit" /\ CloseEnough /\ ~LedgerAgrees
  /\ drift' = DriftRecorded
  /\ Raise("audit")
  /\ UNCHANGED <<xVars, status, trades, posted, rowVars>>

\* EventRecorder().record commits.
AuditPasses ==
  /\ pc = "balance_audit" /\ CloseEnough /\ LedgerAgrees
  /\ drift' = DriftRecorded
  /\ UNCHANGED <<xVars, status, trades, posted, locals>>
  /\ Commit
  /\ active' = FALSE
  /\ Goto("audited")

-----------------------------------------------------------------------------
(* place_order and cancel_order, called by the strategy                    *)

\* The exchange accepts the order and its answer arrives.
PlaceOrder(o) ==
  /\ pc \in {"strategy", "placing"}
  /\ Accept(o)
  /\ active' = TRUE /\ placing' = o
  /\ Goto("save_order")
  /\ UNCHANGED <<dbVars, current, eaten, partials, details, change, secondChance>>

\* A bug: is_active is set when the answer has arrived.
LoseAnswer_ActiveLater(o) ==
  /\ "lost" \in Env
  /\ pc \in {"strategy", "placing"}
  /\ Accept(o)
  /\ Goto("placing")
  /\ UNCHANGED <<dbVars, active, locals>>

\* The exchange accepts the order, the answer is lost: exchange_retry sends
\* the request again.
LoseAnswer(o) ==
  /\ "lost" \in Env
  /\ pc \in {"strategy", "placing"}
  /\ Accept(o)
  /\ active' = TRUE
  /\ Goto("placing")
  /\ UNCHANGED <<dbVars, locals>>

SaveOrder ==
  /\ pc = "save_order"
  /\ NewOrder(placing) /\ Commit
  /\ placing' = NoOrder
  /\ Goto("strategy")
  /\ UNCHANGED <<xVars, active, current, eaten, partials, details, change,
                 secondChance>>

\* A bug: the order is taken for cancelled when its cancellation is requested.
CancelOrder_MarksCancelled(o) ==
  /\ pc = "strategy" /\ o \in DbOpenOrders
  /\ RequestCancel({o})
  /\ status' = [status EXCEPT ![o] = "CANCELLED"]
  /\ UNCHANGED <<trades, posted, drift, coordVars>> /\ Commit

\* cancel_order swallows the answer that the order is gone.
CancelOrder(o) ==
  /\ pc = "strategy" /\ o \in DbOpenOrders
  /\ RequestCancel({o})
  /\ UNCHANGED <<dbVars, coordVars>>

-----------------------------------------------------------------------------
(* Failures                                                                *)

\* A request fails and so do its retries.
RequestFails ==
  /\ ~secondChance
  /\ \/ "api" \in Env /\ pc \in {"open_orders", "details", "placing"}
     \/ "api" \in Env /\ pc = "accounting" /\ eaten = {} /\ partials # {}
     \/ "lost" \in Env /\ pc = "placing"
  /\ Raise("api")
  /\ UNCHANGED <<xVars, dbVars>>

\* handle_unexpected_orders cannot cancel an order again: the orders it came
\* to, this one included, stay OPEN in the session.
RecancelFails ==
  /\ "api" \in Env /\ pc = "open_orders"
  /\ \E listed \in OpenOrderLists : \E o \in Unexpected(listed), S \in SUBSET Unexpected(listed) :
       /\ ~Alarming(listed) /\ o \notin S
       /\ Reopen(S \cup {o}) /\ RequestCancel(S)
  /\ Raise("api")
  /\ UNCHANGED rowVars

\* A request of an audit fails for good: nothing catches it but handle_exception
\* or the main loop, because the audits run after wind_down.
AuditRequestFails ==
  /\ "api" \in Env
  /\ pc \in {"order_audit", "balance_audit"} \/ (pc = "details" /\ secondChance)
  /\ Raise("other")
  /\ UNCHANGED <<xVars, dbVars>>

\* order_audit is tried again from its start, its orders already reopened.
AuditRequestRetried ==
  /\ "api" \in Env /\ pc = "details" /\ secondChance
  /\ ForgetLocals
  /\ Goto("order_audit")
  /\ UNCHANGED <<xVars, dbVars, active>>

\* A request of the strategy fails, or the strategy itself.  place_order has
\* set is_active before it sends the order.
StrategyFails ==
  /\ "api" \in Env /\ pc = "strategy"
  /\ pc' = "raised" /\ exc' \in {"api", "other"} /\ active' \in {active, TRUE}
  /\ ForgetLocals
  /\ UNCHANGED <<xVars, dbVars>>

\* A commit of the coordinator fails: the session is rolled back.
CommitFails ==
  /\ "commit" \in Env
  /\ \/ pc \in {"update_position", "save_order"}
     \/ pc = "partial" \/ (pc = "accounting" /\ eaten # {})
     \/ pc = "balance_audit" /\ CloseEnough /\ LedgerAgrees
  /\ Rollback
  /\ Raise("other")
  /\ UNCHANGED xVars

Consolidate ==
  \/ GetCurrentOrders \/ GetEatenDetails
  \/ \E o \in OrderIds : SettleEaten(o) \/ GetPartialDetails(o) \/ SettlePartial(o)
  \/ UpdatePosition \/ AccountingDone

Audit ==
  \/ OrderAuditPasses \/ OrderAuditFails \/ OrderAuditAgain \/ ReopenRefused
  \/ BalanceAuditFails \/ LedgerAuditFails \/ AuditPasses

Trade ==
  \/ \E o \in OrderIds : PlaceOrder(o) \/ LoseAnswer(o) \/ CancelOrder(o)
  \/ SaveOrder

CoordinatorFails ==
  \/ RequestFails \/ RecancelFails \/ AuditRequestFails \/ AuditRequestRetried
  \/ StrategyFails \/ CommitFails

CoordinatorNext == Consolidate \/ Audit \/ Trade \/ CoordinatorFails
=============================================================================
