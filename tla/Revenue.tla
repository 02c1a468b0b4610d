------------------------------- MODULE Revenue -------------------------------
(***************************************************************************)
(* lib/gryphonfury: position, revenue and fees from the trades of one      *)
(* actor, in one currency.  A trade is [type, volume, price, fee, time];   *)
(* price and fee are per unit of volume, so that a part of a trade keeps   *)
(* them.  Periods are [from, until).                                       *)
(***************************************************************************)
EXTENDS Arbitrage

TotalOf(trades, Amount(_)) == FoldLeft(LAMBDA sum, t : sum + Amount(t), 0, trades)
PriceOf(trades) == TotalOf(trades, LAMBDA t : t.price * t.volume)
FeesOf(trades) == TotalOf(trades, LAMBDA t : t.fee * t.volume)
Traded(trades) == TotalOf(trades, LAMBDA t : t.volume)
OfType(trades, type) == SelectSeq(trades, LAMBDA t : t.type = type)
Since(trades, from) == SelectSeq(trades, LAMBDA t : t.time >= from)
Before(trades, until) == SelectSeq(trades, LAMBDA t : t.time < until)

\* fast_position, position_delta
Direction(trade) == IF trade.type = "BID" THEN 1 ELSE -1
Position(trades) == TotalOf(trades, LAMBDA t : Direction(t) * t.volume)
FiatDelta(trades) == -TotalOf(trades, LAMBDA t : (Direction(t) * t.price + t.fee) * t.volume)

(***************************************************************************)
(* split_trades: the oldest bid and the oldest ask are matched; the        *)
(* smaller of them closes with a part of the other one.                    *)
(***************************************************************************)
Shorten(trades, volume) ==
  IF trades[1].volume = volume THEN Tail(trades)
  ELSE [trades EXCEPT ![1].volume = @ - volume]

MatchOldest(split, step) ==
  LET bid == split.bids[1]
      ask == split.asks[1]
      volume == IF bid.volume < ask.volume THEN bid.volume ELSE ask.volume
      bidPart == [bid EXCEPT !.volume = volume]
      askPart == [ask EXCEPT !.volume = volume]
  IN  IF split.bids = <<>> \/ split.asks = <<>> THEN split
      ELSE [bids |-> Shorten(split.bids, volume),
            asks |-> Shorten(split.asks, volume),
            matched |-> split.matched \o
              IF bid.volume < ask.volume THEN <<bidPart, askPart>>
                                         ELSE <<askPart, bidPart>>]

SplitTrades(trades) ==
  LET inTime == SortSeq(trades, LAMBDA s, t : s.time < t.time)
      end == FoldLeft(MatchOldest,
                      [bids |-> OfType(inTime, "BID"), asks |-> OfType(inTime, "ASK"),
                       matched |-> <<>>],
                      inTime)
  IN  [matched |-> end.matched, open |-> end.bids \o end.asks]

(***************************************************************************)
(* profit_units: the matched trades in pairs, at the time of the later.    *)
(***************************************************************************)
ProfitUnit(one, two) ==
  LET ask == IF one.type = "ASK" THEN one ELSE two
      bid == IF one.type = "ASK" THEN two ELSE one
      revenue == PriceOf(<<ask>>) - PriceOf(<<bid>>)
  IN  [time |-> Max({one.time, two.time}),
       revenue |-> revenue,
       profit |-> revenue - FeesOf(<<ask, bid>>)]

ProfitUnits(matched) ==
  [i \in 1..(Len(matched) \div 2) |-> ProfitUnit(matched[2 * i - 1], matched[2 * i])]

\* A bug: the last trade is not trimmed to the position.
OpenPositionTrades_Untrimmed(offset, trades, until) ==
  LET volume == IF offset > 0 THEN offset ELSE -offset
      side == OfType(Before(trades, until), IF offset > 0 THEN "BID" ELSE "ASK")
      From(i) == SubSeq(side, i, Len(side))
  IN  IF offset = 0 THEN <<>>
      ELSE From(Max({i \in DOMAIN side : Traded(From(i)) >= volume}))

(***************************************************************************)
(* open_position_trades: back from the end of the period as many trades of *)
(* the position's type as make up the position, the oldest of them cut to  *)
(* size.  With too few trades the code would not end.                      *)
(***************************************************************************)
OpenPositionTrades(offset, trades, until) ==
  LET volume == IF offset > 0 THEN offset ELSE -offset
      side == OfType(Before(trades, until), IF offset > 0 THEN "BID" ELSE "ASK")
      From(i) == SubSeq(side, i, Len(side))
      first == Max({i \in DOMAIN side : Traded(From(i)) >= volume})
      rest == From(first + 1)
  IN  IF offset = 0 THEN <<>>
      ELSE <<[side[first] EXCEPT !.volume = volume - Traded(rest)]>> \o rest

StartPosition(trades, from) == Position(Before(trades, from))
EndPosition(trades, from, until) ==
  StartPosition(trades, from) + Position(Since(Before(trades, until), from))

(***************************************************************************)
(* fast_revenue_in_period and fast_revenue_fees_profit_in_period, from the *)
(* trades that make up the positions at the ends of the period.            *)
(***************************************************************************)
PositionTrades(trades, from, until) ==
  [start |-> OpenPositionTrades(StartPosition(trades, from), trades, from),
   end |-> OpenPositionTrades(EndPosition(trades, from, until), trades, until)]

RevenueGiven(trades, from, until, open) ==
  LET period == Since(Before(trades, until), from)
      start == StartPosition(trades, from)
      end == EndPosition(trades, from, until)
      startPrice == PriceOf(open.start)
      endPrice == PriceOf(open.end)
      bids == PriceOf(OfType(period, "BID")) + (IF start > 0 THEN startPrice ELSE 0)
              - (IF end > 0 THEN endPrice ELSE 0)
      asks == PriceOf(OfType(period, "ASK")) + (IF start > 0 THEN 0 ELSE startPrice)
              - (IF end > 0 THEN 0 ELSE endPrice)
  IN  asks - bids

FeesGiven(trades, from, until, open) ==
  FeesOf(Since(Before(trades, until), from)) + FeesOf(open.start) - FeesOf(open.end)

FastRevenue(trades, from, until) ==
  RevenueGiven(trades, from, until, PositionTrades(trades, from, until))

FastProfitData(trades, from, until) ==
  LET open == PositionTrades(trades, from, until)
      revenue == RevenueGiven(trades, from, until, open)
      fees == FeesGiven(trades, from, until, open)
  IN  [revenue |-> revenue, fees |-> fees, profit |-> revenue - fees]

\* exchange_profit_participation, of units [exchanges, profit]: half of the profit
\* of a unit is each of its exchanges'; times two over the total.
ProfitParticipation(units) ==
  LET Earned(x, unit) == unit.profit * Cardinality({i \in 1..2 : unit.exchanges[i] = x})
  IN  [x \in UNION {ToSet(units[i].exchanges) : i \in DOMAIN units} |->
         FoldLeft(LAMBDA sum, unit : sum + Earned(x, unit), 0, units)]

(***************************************************************************)
(* revenue_fees_profit_in_period: the legacy functions.                    *)
(***************************************************************************)
LegacyMatched(trades, from, until) ==
  SplitTrades(OpenPositionTrades(StartPosition(trades, from), trades, from)
                \o Since(Before(trades, until), from)).matched

ProfitData(matched) ==
  LET revenue == -TotalOf(matched, LAMBDA t : Direction(t) * t.price * t.volume)
      fees == FeesOf(matched)
  IN  [revenue |-> revenue, fees |-> fees, profit |-> revenue - fees]

RealizedPl(matched) == FiatDelta(matched)
OpenPl(open, value) == FiatDelta(open) + value * Position(open)

-----------------------------------------------------------------------------
(***************************************************************************)
(* lib/gryphonfury/close_options.py: what revenue and fees a position      *)
(* would realize if it were closed now.  A quote for a short position is   *)
(* asked with its volume as it is, a negative number, so that it only ever *)
(* looks at the first ask.  A fee is a number of FeeUnit-ths of the price, *)
(* and fees are counted in FeeUnit-ths.                                    *)
(***************************************************************************)

Cent == 1

\* Closing the open trades for value, which is negative when it is paid.
Closing(unmatched, value, fee) ==
  [revenue |-> FiatDelta(unmatched) + FeesOf(unmatched) + value,
   fees |-> FeesOf(unmatched) * FeeUnit + fee * (IF value < 0 THEN -value ELSE value)]

\* get_pl_from_market_order; {} when the book is too thin
MarketOrderPl(unmatched, book, fee) ==
  LET held == Position(unmatched)
      mode == IF held > 0 THEN ASK ELSE BID
  IN  {Closing(unmatched, quote.total, fee) : quote \in QuoteFrom(book, mode, held)}

\* get_pl_from_limit_order: in front of the first order of the closing side.
LimitOrderPl(unmatched, book, fee) ==
  LET held == Position(unmatched)
      price == IF held > 0 THEN book.asks[1].price - Cent
                               ELSE book.bids[1].price + Cent
  IN  Closing(unmatched, price * held, fee)

\* get_pl_from_open_orders: nothing when no order is open on the closing side.
OpenOrdersPl(unmatched, ours, fee) ==
  LET held == Position(unmatched)
      closing == IF held > 0 THEN ours.asks ELSE ours.bids
  IN  IF closing = <<>> THEN [revenue |-> 0, fees |-> 0]
      ELSE Closing(unmatched, closing[1].price * held, fee)
=============================================================================
