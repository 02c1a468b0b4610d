---------------------------- MODULE DashboardPages ----------------------------
(***************************************************************************)
(* The pages of the dashboard.  On a strategy's page of a period every     *)
(* trade is of an order of its own, placed at the same time, and the       *)
(* order's fundamental value is its unit price.  The overwatch bot checks  *)
(* profits by the same numbers.                                            *)
(***************************************************************************)
EXTENDS Revenue

CONSTANTS
  PageHour, PageDay, PageWeek,
  Rounding,      \* less than this is a rounding error
  Threshold,     \* more than this is drawn as a trade of its own
  Lookback,      \* an hour
  Infinitesimal, Infinity, Width

\* get_strategy_trades_for_period
StrategyTrades(trades, start, end) == Before(Since(trades, start), end)

\* get_trades_and_fundamental_value: the value of the latest order, if any.
FundamentalValueOf(trades, start, end) ==
  LET orders == StrategyTrades(trades, start, end)
  IN  {o.price : o \in {p \in ToSet(orders) : \A q \in ToSet(orders) : q.time <= p.time}}

(***************************************************************************)
(* basic_trade_analysis: volumes by hour, or by day when the period is     *)
(* long, and the position after every trade, from that at the start on.    *)
(* The rows come in the order the database has them.                       *)
(***************************************************************************)
Truncated(time, start, end) ==
  time - (time % (IF end - start <= PageWeek THEN PageHour ELSE PageDay))

TradeAnalysis(rows, offset, start, end) ==
  LET counted == SelectSeq(rows, LAMBDA t : t.volume >= Rounding)
      drawn == SelectSeq(counted, LAMBDA t : t.volume > Threshold)
      At(time) == SelectSeq(counted, LAMBDA t : Truncated(t.time, start, end) = time)
      After(i) == [time |-> counted[i].time,
                   position |-> offset + Position(SubSeq(counted, 1, i))]
  IN  [volumes |-> [time \in {Truncated(t.time, start, end) : t \in ToSet(counted)} |->
                      Traded(At(time))],
       total |-> Traded(counted),
       bids |-> OfType(drawn, "BID"), asks |-> OfType(drawn, "ASK"),
       positions |-> <<[time |-> start, position |-> offset]>>
                     \o [i \in DOMAIN counted |-> After(i)]]

\* get_revenue_series
RevenueSeries(matched) ==
  LET units == ProfitUnits(matched)
  IN  [i \in DOMAIN units |->
         [time |-> units[i].time,
          total |-> TotalOf(SubSeq(units, 1, i), LAMBDA u : u.revenue)]]

\* get_current_trading_result
TradingResult(split, value) ==
  [data |-> ProfitData(split.matched),
   openPl |-> {OpenPl(split.open, v) : v \in value},
   openPosition |-> Position(split.open)]

\* generate_data, for the rows of the period.
GenerateData(trades, rows, start, end) ==
  LET offset == StartPosition(trades, start)
      split == SplitTrades(OpenPositionTrades(offset, trades, start) \o rows)
  IN  [analysis |-> TradeAnalysis(rows, offset, start, end),
       result |-> TradingResult(split, FundamentalValueOf(trades, start, end)),
       revenues |-> RevenueSeries(split.matched)]

(***************************************************************************)
(* check_profit and check_open_pl in one scan: a check that passes beats.  *)
(* Without an order there is no open profit, and the scan ends there.      *)
(***************************************************************************)
DailyProfit(trades, today) ==
  RealizedPl(SplitTrades(OpenPositionTrades(StartPosition(trades, today), trades, today)
                           \o Since(trades, today)).matched)

WatchedOpenPl(trades, now) ==
  LET open == OpenPositionTrades(Position(Before(trades, now)), trades, now)
  IN  {OpenPl(open, v) : v \in FundamentalValueOf(trades, 0, now)}

Beats(trades, today, now, profitThreshold, openThreshold) ==
  {c \in {"PROFIT", "OPEN_PL"} :
     \/ c = "PROFIT" /\ DailyProfit(trades, today) > profitThreshold
     \/ c = "OPEN_PL" /\ \E pl \in WatchedOpenPl(trades, now) : pl > openThreshold}

-----------------------------------------------------------------------------
(***************************************************************************)
(* The dashboard's page of orderbooks and its page of the exchanges'       *)
(* trades.  A recorded book is known by its time, an order in the trading  *)
(* database is [price, placed, executed], a trade [exchange, id, time].    *)
(***************************************************************************)

NotExecuted == 0

(***************************************************************************)
(* get_latest_orderbook_for_exchange and                                   *)
(* get_orderbook_for_exchange_at_time: none, or one.  The second is the    *)
(* first book after the time that is asked for.                            *)
(***************************************************************************)
LatestBook(recorded, now, limited) ==
  LET times == {t \in recorded : limited => now - Lookback < t /\ t <= now}
  IN  {t \in times : \A u \in times : u <= t}

BookAtTime(recorded, at) ==
  LET times == {t \in recorded : t > at}
  IN  {t \in times : \A u \in times : t <= u}

BookShown(recorded, now, at, limited) ==
  IF at = {} THEN LatestBook(recorded, now, limited)
             ELSE UNION {BookAtTime(recorded, t) : t \in at}

(***************************************************************************)
(* get_open_orders_by_exchange: those that are open, or those that were    *)
(* executed after some time; an order that is still open then is not one.  *)
(***************************************************************************)
OpenOrdersAt(orders, at) ==
  IF at = {} THEN {o \in orders : o.executed = NotExecuted}
  ELSE {o \in orders : \A t \in at : /\ o.placed < t
                                     /\ o.executed # NotExecuted /\ o.executed > t}

(***************************************************************************)
(* get_levels_from_orderbook_in_usd: the volume up to each price, and no   *)
(* volume just inside the best orders.  It needs both of them.             *)
(***************************************************************************)
LevelsOf(book) ==
  LET Cumulated(orders) == {[price |-> orders[i].price,
                             volume |-> VolumeOf(SubSeq(orders, 1, i))] : i \in DOMAIN orders}
      topBid == book.bids[1].price
      topAsk == book.asks[1].price
  IN  [points |-> Cumulated(book.bids) \cup Cumulated(book.asks)
                  \cup {[price |-> topBid + Infinitesimal, volume |-> 0],
                        [price |-> topAsk - Infinitesimal, volume |-> 0]},
       topBid |-> topBid, topAsk |-> topAsk]

\* get_levels_from_orderbooks, of the exchanges that have a book.
TopsOf(books, selected) ==
  LET levels == [x \in DOMAIN books |-> LevelsOf(books[x])]
      chosen == DOMAIN books \cap selected
  IN  [lowBid |-> Min({Infinity} \cup {levels[x].topBid : x \in chosen}),
       highAsk |-> Max({0} \cup {levels[x].topAsk : x \in chosen})]

(***************************************************************************)
(* determine_graph_default_range, in hundredths.  Its parameters are       *)
(* (high_ask, low_bid), it is called with (low_bid, high_ask).             *)
(***************************************************************************)
RangeAround(highAsk, lowBid, prices) ==
  LET high == 100 * (highAsk + Width)
      low == 100 * (lowBid - Width)
  IN  [low |-> IF prices # {} /\ 100 * Min(prices) < low THEN 99 * Min(prices) ELSE low,
       high |-> IF prices # {} /\ 100 * Max(prices) > high THEN 101 * Max(prices) ELSE high]

GraphRange(books, selected, prices) ==
  LET tops == TopsOf(books, selected) IN RangeAround(tops.lowBid, tops.highAsk, prices)

(***************************************************************************)
(* The trades of the exchanges: one is ours when one of our trades of the  *)
(* period has its id, at whatever exchange.                                *)
(***************************************************************************)
InPeriod(trades, start, end) == {t \in trades : start < t.time /\ t.time <= end}

MarkedAsOurs(exchanges, ours, start, end) ==
  {t \in InPeriod(exchanges, start, end) :
     \E o \in InPeriod(ours, start, end) : o.id = t.id}
=============================================================================
