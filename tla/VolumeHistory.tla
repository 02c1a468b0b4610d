---------------------------- MODULE VolumeHistory ----------------------------
(***************************************************************************)
(* The volume traded at an exchange in a period, from the three sources    *)
(* the data service has: the tickers that the volume pollers store, the    *)
(* recorded trades, and Bitcoinwisdom; and the audit of the recorded       *)
(* trades by the tickers.                                                  *)
(*                                                                         *)
(* The archive is a record: now; trades, the trades that were made and     *)
(* missing, those of them that we have not recorded, [market, time] of     *)
(* volume one; tickers, [market, time, volume].                            *)
(***************************************************************************)
EXTENDS Integers, FiniteSets, FiniteSetsExt

CONSTANTS
  Day, Hour,       \* lengths of time, in ticks
  Delay5,          \* the five minutes of get_single_exchange_volume_on_day_...
  Recent,          \* the ten minutes of an audit
  EarliestTicker, EarliestTrade,
  Listed,          \* the markets that Bitcoinwisdom is asked about
  Unlisted

ASSUME VolumeAssumption ==
  /\ {Day, Hour, Delay5, Recent} \subseteq Nat \ {0} /\ Day % Hour = 0
  /\ {EarliestTicker, EarliestTrade} \subseteq Nat
  /\ Listed \cap Unlisted = {} /\ IsFiniteSet(Listed) /\ IsFiniteSet(Unlisted)

Markets == Listed \cup Unlisted

Within(trades, market, start, end) ==
  {t \in trades : t.market = market /\ start <= t.time /\ t.time < end}

-----------------------------------------------------------------------------
(* Tickers.  An exchange's ticker has the volume of the day before it.     *)

RollingVolume(trades, market, time) ==
  Cardinality(Within(trades, market, time - Day + 1, time + 1))

\* What parse_volume_json takes out of an answer.
KrakenVolume(answer) == answer.v[2]
ItbitVolume(answer) == answer.volume24h
OkcoinVolume(answer) == answer.ticker.vol
BitfinexVolume(answer) == answer.volume
BitstampVolume(answer) == answer.volume
CoinbaseVolume(answer) == answer.volume
CoinbaseCADVolume(answer) == answer.volume
QuadrigaVolume(answer) == answer.volume

\* The answer to the poller of p, when the pair it is for has traded rolling in
\* the last day and today since midnight, and LTC at OKCoin ltc.
TickerOf(p, rolling, today, ltc) ==
  CASE p = "Kraken" -> [v |-> <<today, rolling>>]
    [] p = "Itbit" -> [volume24h |-> rolling]
    [] p = "Okcoin" -> [ticker |-> [vol |-> ltc]]
    [] OTHER -> [volume |-> rolling]

VolumePollers == {"Kraken", "Itbit", "Okcoin", "Bitfinex", "Bitstamp", "Coinbase",
                  "CoinbaseCAD", "Quadriga"}
PolledVolume(p, answer) ==
  CASE p = "Kraken" -> KrakenVolume(answer)
    [] p = "Itbit" -> ItbitVolume(answer)
    [] p = "Okcoin" -> OkcoinVolume(answer)
    [] p = "Bitfinex" -> BitfinexVolume(answer)
    [] p = "Bitstamp" -> BitstampVolume(answer)
    [] p = "Coinbase" -> CoinbaseVolume(answer)
    [] p = "CoinbaseCAD" -> CoinbaseCADVolume(answer)
    [] p = "Quadriga" -> QuadrigaVolume(answer)

\* The rows of a poll; a volume is text, that of nothing traded too.
TickerRow(market, time, volume) == {[market |-> market, time |-> time, volume |-> volume]}

\* The tickers of the polls at times.
TickersOf(trades, market, times) ==
  UNION {TickerRow(market, t, RollingVolume(trades, market, t)) : t \in times}

-----------------------------------------------------------------------------
(* The volume of a period.  There is none where the code returns None and  *)
(* where Money(None) raises an exception.                                  *)

None == -1

Recorded(archive) == archive.trades \ archive.missing

IsPastSingleDay(archive, start, end) ==
  start % Day < Hour /\ end - start = Day /\ end < archive.now

\* The first row of a query without an order is any.

\* A bug: the ticker of the day's own beginning.
DayVolumes_Early(archive, market, start) ==
  LET rows == {k \in archive.tickers :
                 k.market = market /\ start < k.time /\ k.time < start + Delay5}
  IN  IF rows = {} THEN {None} ELSE {k.volume : k \in rows}
DayVolumes(archive, market, start) ==
  LET end == start + Day
      rows == {k \in archive.tickers :
                 k.market = market /\ end < k.time /\ k.time < end + Delay5}
  IN  IF rows = {} THEN {None} ELSE {k.volume : k \in rows}

TradeVolume(archive, market, start, end) ==
  LET rows == Within(Recorded(archive), market, start, end)
  IN  IF rows = {} THEN None ELSE Cardinality(rows)

\* Bitcoinwisdom has the volumes of the steps that begin in the period.
WisdomStep(start, end) ==
  IF end - start >= Day THEN Day ELSE IF end - start >= Hour THEN Hour ELSE 1

WisdomVolume(archive, market, start, end) ==
  LET step == WisdomStep(start, end)
      begins == {t \in start..(end - 1) : t % step = 0}
  IN  Cardinality(UNION
        {Within(archive.trades, market, t, t + step) : t \in begins})

VolumeInPeriod(archive, market, start, end) ==
  IF IsPastSingleDay(archive, start, end) /\ start > EarliestTicker
    THEN DayVolumes(archive, market, start)
    ELSE IF start > EarliestTrade
           THEN {TradeVolume(archive, market, start, end)}
           ELSE {IF market \in Listed THEN WisdomVolume(archive, market, start, end)
                                      ELSE None}

\* The volume of all markets and the markets it is made of.
Totals(volumeOf) ==
  LET included == {m \in DOMAIN volumeOf : volumeOf[m] \notin {None, 0}}
  IN  [volume |-> MapThenSumSet(LAMBDA m : volumeOf[m], included), included |-> included]

TotalOnDay(archive, start) ==
  LET found == [m \in Markets |-> DayVolumes(archive, m, start)]
  IN  {Totals(f) : f \in {g \in [Markets -> UNION {found[m] : m \in Markets}] :
                            \A m \in Markets : g[m] \in found[m]}}

TotalFromTrades(archive, start, end) ==
  Totals([m \in Markets |-> TradeVolume(archive, m, start, end)])

TotalFromWisdom(archive, start, end) ==
  Totals([m \in Listed |-> WisdomVolume(archive, m, start, end)])

TotalInPeriod(archive, start, end) ==
  IF IsPastSingleDay(archive, start, end) /\ start > EarliestTicker
    THEN TotalOnDay(archive, start)
    ELSE IF start > EarliestTrade
           THEN {TotalFromTrades(archive, start, end)}
           ELSE {TotalFromWisdom(archive, start, end)}

\* The volumes of the hours of a day, each under the hour that many hours after
\* the start of the period.
HourlyOf(rows, start) ==
  LET hours == {(t.time % Day) \div Hour : t \in rows}
  IN  {[time |-> start + h * Hour,
        volume |-> Cardinality({t \in rows : (t.time % Day) \div Hour = h})] : h \in hours}

HourlySingle(archive, market, start, end) ==
  HourlyOf(Within(Recorded(archive), market, start, end), start)

HourlyTotal(archive, start, end) ==
  HourlyOf(UNION {Within(Recorded(archive), m, start, end) : m \in Markets}, start)

-----------------------------------------------------------------------------
(* TradesAuditor.audit: recorded trades of a day against the newest of the *)
(* recent tickers.                                                         *)

RecentTickers(archive, market) ==
  {k \in archive.tickers :
     k.market = market /\ archive.now - Recent <= k.time /\ k.time <= archive.now}

\* "skipped" without a ticker; a volume of zero ends the auditor's loop.
TradesAudit(archive, market) ==
  LET rows == RecentTickers(archive, market)
      ticker == CHOOSE k \in rows : \A other \in rows : other.time <= k.time
      ours == Cardinality(Within(Recorded(archive), market, archive.now - Day, archive.now + 1))
  IN  CASE rows = {} -> "skipped"
        [] rows # {} /\ ticker.volume = 0 -> "raises"
        [] OTHER -> IF 100 * ours < 99 * ticker.volume \/ 100 * ours > 101 * ticker.volume
                      THEN "alarm" ELSE "passes"
=============================================================================
