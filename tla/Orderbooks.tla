------------------------------ MODULE Orderbooks ------------------------------
(***************************************************************************)
(* What is read from an orderbook: the wrapper's parse_orderbook and       *)
(* get_price_quote, and the metrics library.  An order is [price, volume], *)
(* a book [bids, asks] has its best orders first.  A result that may be an *)
(* exception is a set of at most one value: {} stands for the exception.   *)
(***************************************************************************)
EXTENDS Integers, SequencesExt

BID == "BID"
ASK == "ASK"

Other(mode) == IF mode = BID THEN ASK ELSE BID
OnSide(book, mode) == IF mode = BID THEN book.bids ELSE book.asks

\* price_a is further from the centre of the book than price_b.
Deeper(mode, a, b) == IF mode = BID THEN a < b ELSE a > b

VolumeOf(orders) == FoldLeft(LAMBDA sum, o : sum + o.volume, 0, orders)
ValueOf(orders) == FoldLeft(LAMBDA sum, o : sum + o.price * o.volume, 0, orders)

(***************************************************************************)
(* One side of parse_orderbook: the orders are taken in, best first, until *)
(* their volume is more than the limit.  A limit of zero is none: the code *)
(* tests its truth.                                                        *)
(***************************************************************************)
ParseSide(raw, mode, limit) ==
  LET best == SortSeq(raw, LAMBDA a, b : Deeper(mode, b.price, a.price))
      Taken(i) == limit # 0 => VolumeOf(SubSeq(best, 1, i - 1)) <= limit
  IN  SubSeq(best, 1, Cardinality({i \in DOMAIN best : Taken(i)}))

\* The code looks at the first order of each side, so both must have one.
ParseOrderbook(raw, limit) ==
  IF raw.bids = <<>> \/ raw.asks = <<>> THEN {}
  ELSE {[bids |-> ParseSide(raw.bids, BID, limit),
         asks |-> ParseSide(raw.asks, ASK, limit)]}

(***************************************************************************)
(* remove_orders_from_orderbook: own volume is known by its price only,    *)
(* and is taken off what the book has at that price.                       *)
(***************************************************************************)
RemoveOrders(book, own) ==
  LET OpenVolume(price) == VolumeOf(SelectSeq(own, LAMBDA o : o.price = price))
      Less(o) == [o EXCEPT !.volume = @ - Min({@, OpenVolume(o.price)})]
      Others(orders) == SelectSeq([i \in DOMAIN orders |-> Less(orders[i])],
                                  LAMBDA o : o.volume > 0)
  IN  [bids |-> Others(book.bids), asks |-> Others(book.asks)]

\* price_quote_from_orderbook
QuoteFrom(book, mode, volume) ==
  LET orders == OnSide(book, Other(mode))
      enough == {i \in DOMAIN orders : VolumeOf(SubSeq(orders, 1, i)) >= volume}
      before == SubSeq(orders, 1, Min(enough) - 1)
      last == orders[Min(enough)]
  IN  IF enough = {} THEN {}
      ELSE {[total |-> ValueOf(before) + (volume - VolumeOf(before)) * last.price,
             price |-> last.price]}

\* A bug: only as much of the book is read as is asked for.
PriceQuote_VolumeOnly(raw, own, mode, volume) ==
  UNION {QuoteFrom(RemoveOrders(book, own), mode, volume) :
           book \in ParseOrderbook(raw, volume)}

(***************************************************************************)
(* get_price_quote: our own orders are removed, so as much more of the     *)
(* book is read.                                                           *)
(***************************************************************************)
PriceQuote(raw, own, mode, volume) ==
  UNION {QuoteFrom(RemoveOrders(book, own), mode, volume) :
           book \in ParseOrderbook(raw, volume + VolumeOf(own))}

\* volume_available_at_price, for a side that is not empty
VolumeAtPrice(book, mode, price) ==
  VolumeOf(SelectSeq(OnSide(book, Other(mode)),
                     LAMBDA o : ~Deeper(Other(mode), o.price, price)))

(***************************************************************************)
(* volume_available_at_prices walks once along the orders and the prices.  *)
(***************************************************************************)
VolumeAtPrices(book, mode, prices) ==
  LET side == Other(mode)
      orders == OnSide(book, side)
      wanted == SetToSortSeq(prices, LAMBDA a, b : Deeper(side, b, a))
      Walk(at, step) ==
        IF at.i > Len(orders) \/ at.j > Len(wanted) THEN at
        ELSE IF Deeper(side, orders[at.i].price, wanted[at.j])
        THEN [at EXCEPT !.j = @ + 1, !.levels = Append(@, at.volume)]
        ELSE [at EXCEPT !.i = @ + 1, !.volume = @ + orders[at.i].volume]
      end == FoldLeft(Walk, [i |-> 1, j |-> 1, volume |-> 0, levels |-> <<>>],
                      orders \o wanted)
  IN  [p \in prices |->
         LET j == CHOOSE j \in DOMAIN wanted : wanted[j] = p
         IN  IF j \in DOMAIN end.levels THEN end.levels[j] ELSE end.volume]

(***************************************************************************)
(* orderbook_strength_at_slippage and orderbook_strength_at_slippages: the *)
(* volume within some distance of the best order of a side.                *)
(***************************************************************************)
SlippedPrice(book, type, slippage) ==
  LET top == OnSide(book, type)[1].price
  IN  IF type = BID THEN top - slippage ELSE top + slippage

Strength(book, type, slippage) ==
  VolumeAtPrice(book, Other(type), SlippedPrice(book, type, slippage))

Strengths(book, type, slippages) ==
  LET levels == VolumeAtPrices(book, Other(type),
                               {SlippedPrice(book, type, s) : s \in slippages})
  IN  [s \in slippages |-> levels[SlippedPrice(book, type, s)]]
=============================================================================
