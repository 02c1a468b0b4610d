-------------------------- MODULE WrapperProperties --------------------------
(***************************************************************************)
(* What the engine relies on when it calls an exchange wrapper.  The calls *)
(* and what they return are one part, the requests of two processes with   *)
(* one key another, the orders that are sent a third; a behaviour is one   *)
(* part at work.                                                           *)
(***************************************************************************)
EXTENDS ExchangeWrappers, ApiRequests

VARIABLE part

WrappersInit ==
  /\ part \in {"calls", "requests", "orders"}
  /\ Init /\ RequestsInit
  /\ part # "calls" => venue = "BITSTAMP"
  /\ part = "calls" => keyOf = "Bitstamp"

WrappersNext ==
  /\ UNCHANGED part
  /\ \/ part = "calls" /\ Next /\ UNCHANGED requestVars
     \/ part = "requests" /\ RequestsNext /\ UNCHANGED vars

WrappersSpec == WrappersInit /\ [][WrappersNext]_<<part, vars, requestVars>>

-----------------------------------------------------------------------------
(***************************************************************************)
(* The orders that get_order_audit_data returns have their whole volume,   *)
(* although only one page of trades was fetched: the two orders that are   *)
(* removed are the ones that may reach over its edge                       *)
(* (gemini_btc_usd.py:388).  True where the trades are sorted by order id, *)
(* and on Kraken, which lists closed orders.                               *)
(*                                                                         *)
(* And the audit leaves out at most two of the orders on the page; on      *)
(* Kraken, of the orders that were closed when it began, at most as many   *)
(* as were closed while the list was read by its offsets                   *)
(* (kraken_btc_eur.py:590).                                                *)
(***************************************************************************)
VolumesExact ==
  venue \in {"BITSTAMP", "GEMINI", "KRAKEN"} =>
    \A o \in DOMAIN answer.of : answer.of[o] = Traded(o)

MissesFew ==
  LET left == {o \in OrderIds : Traded(o) > 0} \ DOMAIN answer.of
  IN  CASE venue = "KRAKEN" ->
             Cardinality(left \cap {closed[i] : i \in 1..answer.since})
               <= Len(closed) - answer.since
        [] venue \in {"GEMINI", "ITBIT", "QUADRIGA"} ->
             Cardinality(left \cap OrdersOf(Newest)) <= 2
        [] OTHER -> TRUE

AuditDataExact == answer.op = "audit" => VolumesExact /\ MissesFew

(***************************************************************************)
(* What a wrapper returns was so at some moment of the call.               *)
(*                                                                         *)
(* Details: the total and the trades of an order, if its trades fit on a   *)
(* page; for an order that has closed, all of them, so that was_eaten      *)
(* neither loses a trade nor takes an eaten order for a cancelled one.  On *)
(* Coinbase this is true of the trades once all fills are settled.         *)
(*                                                                         *)
(* Open orders: all of them, each with what its trades have left.          *)
(*                                                                         *)
(* A balance: that of the trades when nothing is open, as the audit after  *)
(* wind_down expects.  While orders are open, four of the wrappers show    *)
(* less, the available amount: an audit would take it for drift.           *)
(*                                                                         *)
(* A cancellation: an order that was filled before is reported with the    *)
(* exception that the coordinator expects (exchange_coordinator.pyx:372);  *)
(* Gemini's wrapper reports every error as a lack of funds.                *)
(***************************************************************************)
DetailsSo ==
  \A o \in DOMAIN answer.of :
    LET moments == answer.since[o].traded..Traded(o)
    IN  OnPage(o) \/ venue \in {"COINBASE", "KRAKEN"} =>
          /\ answer.of[o].total \in moments
          /\ \/ venue = "COINBASE" /\ ~answer.since[o].settled
             \/ answer.of[o].trades \in moments

ListedSo ==
  /\ DOMAIN answer.of = Open
  /\ \A o \in Open : answer.of[o] + Traded(o) = Volume

BalanceSo ==
  \/ answer.amount = -Len(trades)
  \/ Open # {} /\ venue \notin {"KRAKEN", "QUADRIGA"} /\ answer.amount < -Len(trades)

CancelSo ==
  venue = "GEMINI" \/ answer.result \in {"success", "CancelOrderNotFoundError"}

AnswersOfTheMoment ==
  /\ answer.op = "details" => DetailsSo
  /\ answer.op = "listed" => ListedSo
  /\ answer.op = "balance" => BalanceSo
  /\ answer.op = "cancel" => CancelSo

-----------------------------------------------------------------------------
(***************************************************************************)
(* An order that reaches the exchange is the one that was recorded before: *)
(* its price, which is never worse than the one the strategy asked for,    *)
(* and its volume.  ItBit gets less than was recorded by what its eight    *)
(* decimals leave out; Coinbase and Quadriga get the nearest eight         *)
(* decimals, which may be more (the comments on truncation at the other    *)
(* wrappers say why it should not).                                        *)
(***************************************************************************)
AskedPrices == 0..79
AskedVolumes == 0..7

VolumeKept(w, sent, recorded) ==
  CASE w = "ItBit" -> 0 <= recorded - sent /\ recorded - sent < 4
    [] w \in {"Coinbase", "Quadriga"} -> recorded - sent \in -2..2
    [] OTHER -> sent = recorded

SentAsRecorded ==
  part = "orders" =>
    \A mode \in {"BID", "ASK"}, price \in AskedPrices, volume \in AskedVolumes :
      LET recorded == RecordedPrice(keyOf, mode, price)
          kept == RecordedVolume(keyOf, volume)
      IN  \A order \in Sent(keyOf, mode, recorded, kept) :
            /\ order.price = recorded
            /\ IF mode = "BID" THEN recorded <= price ELSE recorded >= price
            /\ kept <= volume /\ VolumeKept(keyOf, order.volume, kept)

(***************************************************************************)
(* However long requests take, one that a process waits for is refused for *)
(* its nonce only because the other process has overtaken it: a process    *)
(* does not get in its own way, by the session's ten workers, by a retry   *)
(* while the first attempt is still under way, or within a millisecond.    *)
(* Requests that are made at once are the exception: the balances of all   *)
(* pairs of Gemini, which have one key, and the details of several orders  *)
(* at Quadriga; there the sleep after each sees to it that a request is    *)
(* overtaken only when it takes longer than that.                          *)
(***************************************************************************)
OvertakenOnly ==
  \/ refusal = <<>>
  \/ refusal.by # refusal.client
  \/ keyOf = "Gemini" /\ refusal.client = "owner"
  \/ keyOf = "Quadriga" /\ refusal.client = "engine" /\ refusal.after >= Sleep
=============================================================================
