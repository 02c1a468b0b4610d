----------------------------- MODULE TradeAnswers -----------------------------
(***************************************************************************)
(* The trade ids that parse_trades of the trade pollers gives the trades   *)
(* of an answer, and which of them are published.  A trade is [number,     *)
(* time, below]: its number in the order the exchange made its trades, the *)
(* moment in tenths of a millisecond, and whether the double nearest to    *)
(* the moment is less than it.  Quadriga's trades, and Kraken's, have no   *)
(* id of their own.                                                        *)
(***************************************************************************)
EXTENDS Integers, SequencesExt

BitfinexTradeId(trade) == trade.number
OkcoinTradeId(trade) == trade.number
ItbitTradeId(trade) == trade.number
CoinbaseTradeId(trade) == trade.number
CoinbaseCadTradeId(trade) == trade.number
BitstampTradeId(trade) == trade.number
GeminiTradeId(trade) == trade.number

\* int() cuts the product of a double off.

\* A bug: of the second.
KrakenTradeId_Second(trade) == trade.time \div 10000
KrakenTradeId(trade) == IF trade.below THEN trade.time - 1 ELSE trade.time
QuadrigaTradeId(trade) == trade.time \div 10

TradeId(exchange, trade) ==
  CASE exchange = "bitfinex" -> BitfinexTradeId(trade)
    [] exchange = "okcoin" -> OkcoinTradeId(trade)
    [] exchange = "itbit" -> ItbitTradeId(trade)
    [] exchange = "coinbase" -> CoinbaseTradeId(trade)
    [] exchange = "coinbase_cad" -> CoinbaseCadTradeId(trade)
    [] exchange = "bitstamp" -> BitstampTradeId(trade)
    [] exchange = "gemini" -> GeminiTradeId(trade)
    [] exchange = "kraken" -> KrakenTradeId(trade)
    [] exchange = "quadriga" -> QuadrigaTradeId(trade)

TradeExchanges ==
  {"bitfinex", "okcoin", "itbit", "coinbase", "coinbase_cad", "bitstamp", "gemini",
   "kraken", "quadriga"}

Identified(exchange, trades) == [i \in DOMAIN trades |-> TradeId(exchange, trades[i])]

\* The trades of an answer that parse_response publishes when the newest id was
\* newest: in the order of their ids, and the answer's where ids are equal.
Published(exchange, answer, newest) ==
  LET ids == Identified(exchange, answer)
  IN  {answer[i] : i \in {j \in DOMAIN answer :
         ids[j] > newest /\ \A k \in 1..(j - 1) : ids[k] # ids[j]}}

NewestId(exchange, trades) == Max({0} \cup ToSet(Identified(exchange, trades)))
=============================================================================
