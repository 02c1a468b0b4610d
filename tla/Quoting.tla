-------------------------------- MODULE Quoting --------------------------------
(***************************************************************************)
(* Where market makers put their prices: midpoints of orderbooks, their    *)
(* weighted mean, and a fixed spread about it, slid behind the market.     *)
(*                                                                         *)
(* A midpoint at a depth is in units of 1/(2 * depth) of a price, a mean   *)
(* of midpoints in units of 1/WeightUnit of that, the price of an order in *)
(* units of 1/SpreadUnit of its midpoint's.                                *)
(***************************************************************************)
EXTENDS Orderbooks

CONSTANTS SpreadUnit, WeightUnit, DeepDepth  \* 20 BTC

-----------------------------------------------------------------------------
(***************************************************************************)
(* lib/order_sliding.py: an order is moved deeper into the book, to just   *)
(* in front of the first order that is worth hiding behind.  Prices are in *)
(* thousandths.                                                            *)
(***************************************************************************)

Lowest == 1        \* Money('0.001')
None == -1

WidenPrice(mode, price, amount) ==
  IF mode = BID THEN Max({price - amount, Lowest}) ELSE price + amount

NarrowPrice(mode, price, amount) ==
  IF mode = BID THEN price + amount ELSE price - amount

WidestAllowed(mode, initial, jump, maxSlide) ==
  IF maxSlide # None THEN WidenPrice(mode, initial, maxSlide)
  ELSE NarrowPrice(mode, WidenPrice(mode, initial, 10 * initial), jump)

\* The place of the first order that is worth hiding behind, if there is one.
FirstWall(mode, initial, orders, ignore) ==
  LET walls == {i \in DOMAIN orders :
                  Deeper(mode, orders[i].price, initial) /\ orders[i].volume > ignore}
  IN  {i \in walls : \A j \in walls : i <= j}

\* A bug: the jump may lead to a worse price than the initial one.
SlideOrder_Unchecked(mode, initial, book, ignore, jump, maxSlide) ==
  LET orders == OnSide(book, mode)
      widest == WidestAllowed(mode, initial, jump, maxSlide)
      wall == FirstWall(mode, initial, orders, ignore)
      slid == NarrowPrice(mode, orders[CHOOSE i \in wall : TRUE].price, jump)
  IN  IF wall = {} \/ Deeper(mode, slid, widest) THEN widest ELSE slid

(***************************************************************************)
(* slide_order: only the first wall behind the initial price is looked at. *)
(***************************************************************************)
SlideOrder(mode, initial, book, ignore, jump, maxSlide) ==
  LET orders == OnSide(book, mode)
      widest == WidestAllowed(mode, initial, jump, maxSlide)
      opposite == OnSide(book, Other(mode))[1].price
      wall == FirstWall(mode, initial, orders, ignore)
      slid == NarrowPrice(mode, orders[CHOOSE i \in wall : TRUE].price, jump)
  IN  IF wall = {}
      THEN IF maxSlide # None THEN widest ELSE jump
      ELSE IF Deeper(mode, initial, slid) \/ Deeper(mode, opposite, slid)
      THEN initial
      ELSE IF Deeper(mode, slid, widest) THEN widest ELSE slid

-----------------------------------------------------------------------------

ASSUME QuotingAssumption ==
  /\ {SpreadUnit, WeightUnit} \subseteq Nat \ {0} /\ DeepDepth \in Nat \ {0, 1}

Costs(book, mode, depth) == {q.total : q \in QuoteFrom(book, mode, depth)}

\* None if a side is not that deep.
BookMidpoint(book, depth) ==
  {bid + ask : bid \in Costs(book, BID, depth), ask \in Costs(book, ASK, depth)}

\* native.calculate, the same by another way.
NativeMidpoint(book, depth) ==
  {bid + ask : bid \in Costs(book, BID, depth), ask \in Costs(book, ASK, depth)}

\* The auditor's: a book that is too thin is looked at less deeply.
FundamentalValue(book) ==
  IF BookMidpoint(book, DeepDepth) # {}
    THEN [depth : {DeepDepth}, value : BookMidpoint(book, DeepDepth)]
    ELSE [depth : {1}, value : BookMidpoint(book, 1)]

StrengthInUsd(book, type, slippage) ==
  {Strength(book, type, slippage) * m : m \in BookMidpoint(book, DeepDepth)}

StrengthsInUsd(book, type, slippages) ==
  {[s \in slippages |-> Strengths(book, type, slippages)[s] * m] :
     m \in BookMidpoint(book, DeepDepth)}

FixedSpread(midpoint, spread) ==
  [bid |-> midpoint * (SpreadUnit - spread), ask |-> midpoint * (SpreadUnit + spread)]

SimpleQuotes(book, depth, spread) ==
  {FixedSpread(m, spread) : m \in BookMidpoint(book, depth)}

\* Of books by exchange; weights are in units of 1/WeightUnit and add up to one.
GlobalMidpoint(books, weights, depth) ==
  LET found == [x \in DOMAIN books |-> NativeMidpoint(books[x], depth)]
      Weighted(x) == weights[x] * CHOOSE m \in found[x] : TRUE
  IN  IF \E x \in DOMAIN books : found[x] = {} THEN {}
      ELSE {MapThenSumSet(Weighted, DOMAIN books)}

\* The book with its prices in the unit of the orders'.
InUnits(book, unit) ==
  LET Side(orders) == [i \in DOMAIN orders |-> [orders[i] EXCEPT !.price = @ * unit]]
  IN  [bids |-> Side(book.bids), asks |-> Side(book.asks)]

LinearUnit(depth) == 2 * depth * WeightUnit * SpreadUnit

\* The prices of a tick of Multiexchange_linear; jump and maxSlide are prices.
LinearQuotes(books, primary, weights, depth, spread, ignore, jump, maxSlide) ==
  LET unit == LinearUnit(depth)
      Slid(mode, price) == SlideOrder(mode, price, InUnits(books[primary], unit),
                                      ignore, jump * unit, maxSlide * unit)
  IN  {[bid |-> Slid(BID, FixedSpread(m, spread).bid),
        ask |-> Slid(ASK, FixedSpread(m, spread).ask)] :
         m \in GlobalMidpoint(books, weights, depth)}
=============================================================================
