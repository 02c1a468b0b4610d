----------------------------- MODULE MetricTypes -----------------------------
(***************************************************************************)
(* lib/models/atlaszero/metric_types.py: the numbers under which the       *)
(* series of the metrics database are stored.  The table was written in    *)
(* blocks, by a loop over exchanges, intervals and levels each, and added  *)
(* to over time.  A series is its type, exchanges, interval and level, the *)
(* level in hundredths of a coin or dollar, or -1.                         *)
(***************************************************************************)
EXTENDS Integers, SequencesExt

Place(x, list) == CHOOSE i \in DOMAIN list : list[i] = x

\* The series of a block, numbered from first.
Block(first, type, exchanges, intervals, levels) ==
  LET Before(s) == (Place(s[2], exchanges) - 1) * Len(intervals) + Place(s[3], intervals) - 1
  IN  [s \in {type} \X ToSet(exchanges) \X ToSet(intervals) \X ToSet(levels) |->
         first + Before(s) * Len(levels) + Place(s[4], levels) - 1]

Each(exchanges) == [i \in DOMAIN exchanges |-> <<exchanges[i]>>]
Exchanges ==
  Each(<<"bitstamp", "bitfinex", "coinbase", "itbit", "kraken", "gemini", "okcoin">>)
Fine == <<"10m", "5m", "1m">>
Hourly == <<"1hr">>
NoLevel == <<-1>>

Depths == <<0, 100, 500, 1000, 2000>>
Slippages == [i \in 1..51 |-> 10 * (i - 1)] \o <<1000, 2000>>
HourlySlippages == <<0, 100, 200, 400, 600, 800, 1000>>

\* Series from before the blocks: the numbers from 3 to 134 are not used any
\* more, nor are those from 177 to 242.
EarlyExchanges ==
  Each(<<"bitstamp", "bitfinex", "kraken", "itbit", "okcoin", "coinbase", "quadriga",
         "cavirtex", "coinsetter", "coinbase_cad", "gemini">>)
MidpointExchanges ==
  Each(<<"bitstamp", "bitfinex", "coinbase", "kraken", "itbit", "quadriga", "okcoin",
         "coinbase_cad", "gemini">>)
EarlySeries ==
  <<"test", <<>>, "", -1>> :> 0
  @@ Block(1, "revenue", Each(<<"gryphon">>), Hourly, NoLevel)
  @@ Block(2, "volatility", Each(<<"gryphon">>), <<"1hr-10m_bucket">>, NoLevel)
  @@ Block(135, "volume", EarlyExchanges, Hourly, NoLevel)
  @@ Block(146, "vwap", EarlyExchanges, Hourly, NoLevel)
  @@ Block(157, "midpoint", Each(<<"bitstamp">>), <<"6s-tmp">>, <<100>>)
  @@ Block(158, "midpoint", MidpointExchanges, <<"6s">>, <<100>>)
  @@ Block(167, "midpoint", Each(<<"bitstamp">>), <<"6s">>, <<2000>>)
  @@ Block(168, "news_signal", Each(<<"reddit">>), <<"1d">>, NoLevel)
  @@ Block(169, "last_trade_price", Each(<<"bitstamp">>),
                          <<"1s", "60s", "10m", "60ms">>, NoLevel)
  @@ Block(173, "volume", Each(<<"kraken">>), <<"1d-eth_eur", "1d-eth_btc">>,
                          NoLevel)
  @@ Block(175, "volume", Each(<<"bitfinex">>), <<"1d-eth_usd", "1d-eth_btc">>,
                          NoLevel)

\* Quotes of a volume.
Bid == Block(243, "bid", Exchanges, Fine, Depths)
Ask == Block(348, "ask", Exchanges, Fine, Depths)
Spread == Block(453, "spread", Exchanges, Fine, Depths)
Midpoint == Block(558, "midpoint", Exchanges, Fine, Depths)
HourlyBid == Block(4663, "bid", Exchanges, Hourly, Depths)
HourlyAsk == Block(4698, "ask", Exchanges, Hourly, Depths)
HourlySpread == Block(4733, "spread", Exchanges, Hourly, Depths)
HourlyMidpoint == Block(4768, "midpoint", Exchanges, Hourly, Depths)

\* Strength of a side of the book, in coins and in dollars.
BidStrength == Block(663, "bid_strength", Exchanges, Fine, Slippages)
AskStrength == Block(1776, "ask_strength", Exchanges, Fine, Slippages)
BidStrengthUsd == Block(2889, "bid_strength_usd", Exchanges, Fine, Slippages)
HourlyBidStrength ==
  Block(4803, "bid_strength", Exchanges, Hourly, HourlySlippages)
HourlyAskStrength ==
  Block(4852, "ask_strength", Exchanges, Hourly, HourlySlippages)
HourlyBidStrengthUsd ==
  Block(4901, "bid_strength_usd", Exchanges, Hourly, HourlySlippages)
HourlyAskStrengthUsd ==
  Block(4950, "ask_strength_usd", Exchanges, Hourly, HourlySlippages)

\* The last of these blocks was cut short, and its rest was added after the
\* hourly series had been given the numbers that follow.  The levels that the
\* cut interval of kraken already had are missing from kraken's other two.
AskStrengthUsdSeries == Block(0, "ask_strength_usd", Exchanges, Fine, Slippages)
AskStrengthUsdCut == 661

AskStrengthUsd ==
  LET written == {s \in DOMAIN AskStrengthUsdSeries :
                    AskStrengthUsdSeries[s] < AskStrengthUsdCut}
  IN  [s \in written |-> 4002 + AskStrengthUsdSeries[s]]

Forgotten(s) == s[2] = <<"kraken">> /\ s[3] \in {"5m", "1m"} /\ s[4] < 250
AskStrengthUsdRest ==
  LET rest == {s \in DOMAIN AskStrengthUsdSeries :
                 AskStrengthUsdSeries[s] >= AskStrengthUsdCut /\ ~Forgotten(s)}
      Earlier(s) == {t \in rest : AskStrengthUsdSeries[t] < AskStrengthUsdSeries[s]}
  IN  [s \in rest |-> 4999 + Cardinality(Earlier(s))]

\* Arbitrage between two exchanges: every exchange with all the others.
ArbExchanges ==
  <<"bitfinex", "bitstamp", "coinbase", "itbit", "kraken", "gemini", "okcoin">>
ArbPairs ==
  LET others(i) == SelectSeq(ArbExchanges, LAMBDA e : e # ArbExchanges[i])
  IN  [k \in 1..42 |-> <<ArbExchanges[((k - 1) \div 6) + 1],
                         others(((k - 1) \div 6) + 1)[((k - 1) % 6) + 1]>>]
ArbRevenue ==
  Block(5401, "signed_arb_revenue_usd", ArbPairs, <<"1m", "5m", "10m">>, NoLevel)

\* A bug: the comment after the table says the number that was used last.
ArbVolume_StartsAtLast ==
  Block(5526, "signed_arb_volume_usd", ArbPairs, <<"1m", "5m", "10m">>, NoLevel)
ArbVolume ==
  Block(5527, "signed_arb_volume_usd", ArbPairs, <<"1m", "5m", "10m">>, NoLevel)

metric_types_map ==
  EarlySeries @@ Bid @@ Ask @@ Spread @@ Midpoint
  @@ BidStrength @@ AskStrength @@ BidStrengthUsd @@ AskStrengthUsd
  @@ HourlyBid @@ HourlyAsk @@ HourlySpread @@ HourlyMidpoint
  @@ AskStrengthUsdRest
  @@ HourlyBidStrength @@ HourlyAskStrength @@ HourlyBidStrengthUsd @@ HourlyAskStrengthUsd
  @@ ArbRevenue @@ ArbVolume

SeriesNumbers == {metric_types_map[s] : s \in DOMAIN metric_types_map}

\* get_metric_type_int of a name or a number: nothing when it raises.  It
\* asserts first, on every call, that no two series share a number.
Unique == Cardinality(SeriesNumbers) = Cardinality(DOMAIN metric_types_map)

MetricTypeInt(key) ==
  CASE ~Unique -> {}
    [] Unique /\ "number" \in DOMAIN key -> {key.number} \cap SeriesNumbers
    [] Unique /\ "name" \in DOMAIN key ->
         {metric_types_map[s] : s \in {key.name} \cap DOMAIN metric_types_map}
=============================================================================
