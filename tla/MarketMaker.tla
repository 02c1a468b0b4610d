----------------------------- MODULE MarketMaker -----------------------------
(***************************************************************************)
(* The tick of two market making strategies: "simple"                      *)
(* (simple_market_making.pyx) and "linear" (multiexchange_linear.pyx).     *)
(* Before a tick the coordinator has booked the trades there are; then the *)
(* strategy cancels its orders one by one and places a bid and an ask, of  *)
(* sizes that depend on the position in the database.  The orders may fill *)
(* at any moment.  An order is placed again when only the answer was lost: *)
(* then the exchange has one more, which has no row.  Its trades are never *)
(* booked, and no audit adds them to the position; that every order with a *)
(* row has its trades booked is the business of the engine's modules.      *)
(***************************************************************************)
EXTENDS Integers

CONSTANTS BaseVolume, MaxPosition,
          Multiplier,            \* variable_sizing_multiplier
          MaxLost                \* bound of the model on `lost`, both sides

ASSUME SizesAssumption ==
  /\ BaseVolume \in Nat /\ MaxPosition \in Nat /\ Multiplier \in Nat
  /\ Multiplier >= 1 /\ MaxLost \in Nat

VARIABLES
  strategy,      \* "simple" or "linear"
  position,      \* what the orders with a row have bought less what they sold
  booked,        \* the same from the trades in the database: Strategy.position
  open,          \* what is left of the order on each side
  listed,        \* the orders cancel_all_open_orders has yet to cancel
  sizes,         \* the volumes of the orders the tick has yet to place
  unknown,       \* what is left of the orders without a row, on each side
  strayed,       \* what the orders without a row have bought less what they sold
  lost,          \* what has ever been ordered without a row, on each side
  phase          \* where in the tick the strategy is

strayVars == <<unknown, strayed, lost>>
makerVars == <<strategy, position, booked, open, listed, sizes, strayVars, phase>>

Sides == {"BID", "ASK"}

MakerInit ==
  /\ strategy \in {"simple", "linear"}
  /\ position = 0 /\ booked = 0
  /\ open = [side \in Sides |-> 0] /\ sizes = [side \in Sides |-> 0]
  /\ unknown = [side \in Sides |-> 0] /\ lost = [side \in Sides |-> 0]
  /\ strayed = 0
  /\ listed = {}
  /\ phase = "consolidate"

(***************************************************************************)
(* The sizes of the orders.  Position and maximum are seen from the side:  *)
(* an ask is to a short position what a bid is to a long one.              *)
(***************************************************************************)
Towards(side) == IF side = "BID" THEN booked ELSE -booked

\* simple_position_responsive_sizing(base_volume, position)
SimpleVolume(side) ==
  IF Towards(side) <= 0 THEN BaseVolume
  ELSE IF Towards(side) > BaseVolume THEN 0
  ELSE BaseVolume - Towards(side)

\* A bug: the maximum is only looked at once it has been reached.
LinearVolume_Late(side) ==
  IF Towards(side) >= MaxPosition THEN MaxPosition - Towards(side) ELSE BaseVolume

\* calculate_base_volumes; negative beyond the maximum
LinearVolume(side) ==
  IF Towards(side) + BaseVolume > MaxPosition THEN MaxPosition - Towards(side)
  ELSE BaseVolume

\* apply_variable_sizing, when the order is far enough from the midpoint
SizedVolume(side, wide) ==
  IF strategy = "simple" THEN SimpleVolume(side)
  ELSE IF wide THEN LinearVolume(side) * Multiplier
  ELSE LinearVolume(side)

(***************************************************************************)
(* The exchange.                                                           *)
(***************************************************************************)
Gain(side) == IF side = "BID" THEN 1 ELSE -1

Fill(side) ==
  /\ open[side] > 0
  /\ open' = [open EXCEPT ![side] = @ - 1]
  /\ position' = position + Gain(side)
  /\ UNCHANGED <<strategy, booked, listed, sizes, strayVars, phase>>

StrayFills(side) ==
  /\ unknown[side] > 0
  /\ unknown' = [unknown EXCEPT ![side] = @ - 1]
  /\ strayed' = strayed + Gain(side)
  /\ UNCHANGED <<strategy, position, booked, open, listed, sizes, lost, phase>>

(***************************************************************************)
(* A tick.                                                                 *)
(***************************************************************************)
\* An open order without a row raises, before any trade is booked.
Consolidate ==
  /\ phase = "consolidate"
  /\ IF \A side \in Sides : unknown[side] = 0
     THEN booked' = position /\ phase' = "list"
     ELSE phase' = "failed" /\ UNCHANGED booked
  /\ UNCHANGED <<strategy, position, open, listed, sizes, strayVars>>

ListOrders ==
  /\ phase = "list"
  /\ listed' = {side \in Sides : open[side] > 0}
  /\ phase' = "cancel"
  /\ UNCHANGED <<strategy, position, booked, open, sizes, strayVars>>

\* The cancellation of an order that has filled meanwhile raises.
CancelOrder(side) ==
  /\ phase = "cancel" /\ side \in listed
  /\ IF open[side] > 0
     THEN open' = [open EXCEPT ![side] = 0] /\ listed' = listed \ {side} /\ phase' = phase
     ELSE phase' = "failed" /\ UNCHANGED <<open, listed>>
  /\ UNCHANGED <<strategy, position, booked, sizes, strayVars>>

\* The book is read and the volumes of both orders are calculated.
SizeOrders ==
  /\ phase = "cancel" /\ listed = {}
  /\ \E wide \in [Sides -> BOOLEAN] :
       sizes' = [side \in Sides |-> SizedVolume(side, wide[side])]
  /\ phase' = "bid"
  /\ UNCHANGED <<strategy, position, booked, open, listed, strayVars>>

\* limit_order, if there is anything to order; linear skips one without funds.
PlaceOrder(side, here, next) ==
  /\ phase = here
  /\ \/ /\ sizes[side] > 0
        /\ open' = [open EXCEPT ![side] = sizes[side]] /\ phase' = next
     \/ /\ sizes[side] > 0
        /\ open' = open /\ phase' = IF strategy = "linear" THEN next ELSE "failed"
     \/ sizes[side] <= 0 /\ open' = open /\ phase' = next
  /\ sizes' = [sizes EXCEPT ![side] = 0]
  /\ UNCHANGED <<strategy, position, booked, listed, strayVars>>

PlaceBid == PlaceOrder("BID", "bid", "ask")
PlaceAsk == PlaceOrder("ASK", "ask", "consolidate")

\* The exchange has the order and its answer is lost: it is placed again, or
\* that was the last attempt.  A process that dies before the row is committed
\* leaves the same.
LoseAnswer(side, here) ==
  /\ phase = here /\ sizes[side] > 0
  /\ lost["BID"] + lost["ASK"] + sizes[side] <= MaxLost
  /\ unknown' = [unknown EXCEPT ![side] = @ + sizes[side]]
  /\ lost' = [lost EXCEPT ![side] = @ + sizes[side]]
  /\ phase' \in {here, "failed"}
  /\ UNCHANGED <<strategy, position, booked, open, listed, sizes, strayed>>

LoseBid == LoseAnswer("BID", "bid")
LoseAsk == LoseAnswer("ASK", "ask")

\* A request to the exchange fails, and the tick with it.
RequestFails ==
  /\ phase \in {"list", "cancel", "bid", "ask"}
  /\ phase' = "failed"
  /\ UNCHANGED <<strategy, position, booked, open, listed, sizes, strayVars>>

(***************************************************************************)
(* After a failure the runner winds down until no order is open.           *)
(***************************************************************************)
RecoverCancel(side) ==
  /\ phase = "failed" /\ open[side] > 0
  /\ open' = [open EXCEPT ![side] = 0]
  /\ UNCHANGED <<strategy, position, booked, listed, sizes, strayVars, phase>>

\* One of the orders without a row.
StrayCancelled(side) ==
  /\ phase = "failed" /\ unknown[side] > 0
  /\ \E left \in 0..(unknown[side] - 1) : unknown' = [unknown EXCEPT ![side] = left]
  /\ UNCHANGED <<strategy, position, booked, open, listed, sizes, strayed, lost, phase>>

Recovered ==
  /\ phase = "failed" /\ \A side \in Sides : open[side] = 0 /\ unknown[side] = 0
  /\ phase' = "consolidate"
  /\ listed' = {} /\ sizes' = [side \in Sides |-> 0]
  /\ UNCHANGED <<strategy, position, booked, open, strayVars>>

MakerNext ==
  \/ \E side \in Sides :
       \/ Fill(side) \/ CancelOrder(side) \/ RecoverCancel(side)
       \/ StrayFills(side) \/ StrayCancelled(side)
  \/ Consolidate \/ ListOrders \/ SizeOrders \/ PlaceBid \/ PlaceAsk
  \/ LoseBid \/ LoseAsk \/ RequestFails \/ Recovered

MakerSpec == MakerInit /\ [][MakerNext]_makerVars

(***************************************************************************)
(* The position and the orders that add to it stay within the maximum, the *)
(* excess that variable sizing allows, one order (the one that fills after *)
(* the trades were booked and before its cancellation, so that the next is *)
(* sized without it), and what was ordered on that side with an answer     *)
(* that got lost: such an order costs no more than its own volume, however *)
(* often it is placed again and whatever fills meanwhile.                  *)
(***************************************************************************)
Furthest ==
  IF strategy = "simple" THEN 2 * BaseVolume
  ELSE MaxPosition + (2 * Multiplier - 1) * BaseVolume

PositionBounded ==
  /\ position + strayed + open["BID"] + unknown["BID"] <= Furthest + lost["BID"]
  /\ -(position + strayed) + open["ASK"] + unknown["ASK"] <= Furthest + lost["ASK"]
=============================================================================
