-------------------------- MODULE ExchangeWrappers --------------------------
(***************************************************************************)
(* The wrappers of Bitstamp, Coinbase, Gemini, ItBit, Kraken and Quadriga: *)
(* what each one makes of its exchange's answers when the engine asks for  *)
(* the details of orders, for the data of the order audit, or cancels.     *)
(* The account behind it goes on trading between any two requests.         *)
(*                                                                         *)
(* Orders are numbered as they are placed and trade one unit at a time.    *)
(* Prices, fees and rounding are left out.                                 *)
(***************************************************************************)
EXTENDS Integers, Sequences, FiniteSets, FiniteSetsExt, SequencesExt

CONSTANTS
  Venues,     \* the wrappers of an instance
  MaxOrders,  \* bound: orders placed
  Volume,     \* units of an order
  MaxOpen,    \* orders open at once: "there could be an ask and a bid"
  Page,       \* trades in one answer
  Chunk,      \* closed orders in one answer of Kraken
  MaxAsked    \* bound: orders whose details are asked for at once

AllVenues == {"BITSTAMP", "COINBASE", "GEMINI", "ITBIT", "KRAKEN", "QUADRIGA"}

ASSUME WrapperAssumption ==
  /\ Venues \subseteq AllVenues
  /\ {MaxOrders, MaxOpen, MaxAsked} \subseteq Nat
  /\ {Volume, Page, Chunk} \subseteq Nat \ {0}

OrderIds == 1..MaxOrders

VARIABLES
  venue,    \* the wrapper
  state,    \* of each order on the exchange
  trades,   \* the account's trades, oldest first: the order of each
  closed,   \* the closed orders, oldest first
  settled,  \* trades that are settled (Coinbase) or in the ledger (Kraken)
  call,     \* a call of the wrapper that is under way
  answer    \* what the last call has returned or raised

vars == <<venue, state, trades, closed, settled, call, answer>>

Idle == [op |-> "idle"]
None == [op |-> "none"]

Init ==
  /\ venue \in Venues
  /\ state = [o \in OrderIds |-> "none"]
  /\ trades = <<>> /\ closed = <<>> /\ settled = 0
  /\ call = Idle /\ answer = None

Open == {o \in OrderIds : state[o] = "open"}
Placed == {o \in OrderIds : state[o] # "none"}

\* The trades at the positions P that belong to order o.
Count(P, o) == Cardinality({i \in P : trades[i] = o})
Traded(o) == Count(DOMAIN trades, o)
Settles == venue \in {"COINBASE", "KRAKEN"}

-----------------------------------------------------------------------------
(* The exchange.                                                           *)

PlaceOrder ==
  LET o == Cardinality(Placed) + 1
  IN  /\ o \in OrderIds /\ Cardinality(Open) < MaxOpen
      /\ state' = [state EXCEPT ![o] = "open"]
      /\ answer' = None
      /\ UNCHANGED <<venue, trades, closed, settled, call>>

Close(o) ==
  /\ state' = [state EXCEPT ![o] = "closed"]
  /\ closed' = Append(closed, o)

Trade(o) ==
  /\ state[o] = "open"
  /\ trades' = Append(trades, o)
  /\ IF Traded(o) + 1 = Volume THEN Close(o) ELSE UNCHANGED <<state, closed>>
  /\ settled' = IF Settles THEN settled ELSE Len(trades')
  /\ answer' = None
  /\ UNCHANGED <<venue, call>>

Settle ==
  /\ settled < Len(trades)
  /\ settled' = settled + 1
  /\ answer' = None
  /\ UNCHANGED <<venue, state, trades, closed, call>>

-----------------------------------------------------------------------------
(* Errors.  Each resp maps what its exchange says to an exception.         *)

\* What an exchange says of a cancellation of an order that is not open: of
\* one without trades Coinbase knows nothing any more.
CancelError(o) ==
  IF venue = "COINBASE" /\ Traded(o) = 0 THEN "notfound" ELSE "unknown_order"

\* An exception that is not one of the named ones.
ApiError == "ExchangeAPIErrorException"

BitstampRaises(e) ==
  CASE e = "funds" -> "InsufficientFundsError"
    [] e = "unknown_order" -> "CancelOrderNotFoundError"
    [] e = "minimum" -> "MinimumOrderSizeError"
    [] e = "nonce" -> "NonceError"
    [] OTHER -> ApiError

CoinbaseRaises(e) ==
  CASE e = "notfound" -> "NoEffectOrderCancelledError"
    [] e = "unknown_order" -> "CancelOrderNotFoundError"
    [] e = "minimum" -> "MinimumOrderSizeError"
    [] e = "funds" -> "InsufficientFundsError"
    [] e \in {"expired", "internal"} -> "ExchangeAPIFailureException"
    [] OTHER -> ApiError

\* "if 'InsufficientFunds' or ..." is true of every message.
GeminiRaises(e) == "InsufficientFundsError"

ItbitRaises(e) ==
  CASE e = "funds" -> "InsufficientFundsError"
    [] e = "nonce" -> "NonceError"
    [] e = "unknown_order" -> "CancelOrderNotFoundError"
    [] OTHER -> ApiError

KrakenRaises(e) == ItbitRaises(e)
QuadrigaRaises(e) == ItbitRaises(e)

Raises(e) ==
  CASE venue = "BITSTAMP" -> BitstampRaises(e)
    [] venue = "COINBASE" -> CoinbaseRaises(e)
    [] venue = "GEMINI" -> GeminiRaises(e)
    [] venue = "ITBIT" -> ItbitRaises(e)
    [] venue = "KRAKEN" -> KrakenRaises(e)
    [] venue = "QUADRIGA" -> QuadrigaRaises(e)

\* retry_if_exchange_exception
Retried(x) == x \in {"ExchangeAPIFailureException", "NonceError"}

\* cancel_order_resp: Coinbase catches one exception and raises another.
CancelRaises(e) ==
  IF venue = "COINBASE" /\ Raises(e) = "NoEffectOrderCancelledError"
  THEN "CancelOrderNotFoundError" ELSE Raises(e)

CancelOrder(o) ==
  /\ call = Idle
  /\ \/ /\ state[o] = "open" /\ Close(o)
        /\ answer' = [op |-> "cancel", result |-> "success"]
     \/ /\ state[o] = "closed"
        /\ answer' = [op |-> "cancel", result |-> CancelRaises(CancelError(o))]
        /\ UNCHANGED <<state, closed>>
  /\ UNCHANGED <<venue, trades, settled, call>>

\* Gemini closes all open orders with one request; the other wrappers list
\* and cancel them one by one.
CancelAllOpenOrders ==
  /\ venue = "GEMINI" /\ call = Idle /\ Open # {}
  /\ state' = [o \in OrderIds |-> IF o \in Open THEN "closed" ELSE state[o]]
  /\ closed' = closed \o SetToSeq(Open)
  /\ answer' = [op |-> "cancel", result |-> "success"]
  /\ UNCHANGED <<venue, trades, settled, call>>

-----------------------------------------------------------------------------
(* Open orders and balance.                                                *)

\* An order as the exchange shows it.
Row(o) == [status |-> state[o], size |-> Volume, filled |-> Traded(o),
           remaining |-> Volume - Traded(o)]

\* volume_remaining of what is listed: the exchange's own figure, or the
\* volume less what was executed.
BitstampOpen == [o \in Open |-> Row(o).remaining]
CoinbaseOpen == [o \in Open |-> Row(o).size - Row(o).filled]
GeminiOpen == [o \in Open |-> Row(o).remaining]
ItbitOpen ==
  LET all_orders == {o \in Placed : Row(o).status = "open"}
  IN  [o \in all_orders |-> Row(o).size - Row(o).filled]
KrakenOpen == [o \in Open |-> Row(o).size - Row(o).filled]
QuadrigaOpen == [o \in Open |-> Row(o).remaining]

GetOpenOrders ==
  /\ call = Idle
  /\ answer' = [op |-> "listed",
                of |-> CASE venue = "BITSTAMP" -> BitstampOpen
                         [] venue = "COINBASE" -> CoinbaseOpen
                         [] venue = "GEMINI" -> GeminiOpen
                         [] venue = "ITBIT" -> ItbitOpen
                         [] venue = "KRAKEN" -> KrakenOpen
                         [] venue = "QUADRIGA" -> QuadrigaOpen]
  /\ UNCHANGED <<venue, state, trades, closed, settled, call>>

\* What open orders, here all asks, keep from being available.
Held == MapThenSumSet(LAMBDA o : Volume - Traded(o), Open)

BitstampBalance == -Len(trades) - Held
CoinbaseBalance == -Len(trades) - Held
GeminiBalance == -Len(trades) - Held
ItbitBalance == -Len(trades) - Held
KrakenBalance == -Len(trades)
QuadrigaBalance == -Len(trades)

\* The change of the volume balance: of what is available, or of all of it.
GetBalance ==
  /\ call = Idle
  /\ answer' = [op |-> "balance",
                amount |-> CASE venue = "BITSTAMP" -> BitstampBalance
                             [] venue = "COINBASE" -> CoinbaseBalance
                             [] venue = "GEMINI" -> GeminiBalance
                             [] venue = "ITBIT" -> ItbitBalance
                             [] venue = "KRAKEN" -> KrakenBalance
                             [] venue = "QUADRIGA" -> QuadrigaBalance]
  /\ UNCHANGED <<venue, state, trades, closed, settled, call>>

-----------------------------------------------------------------------------
(* The details of orders.                                                  *)

\* The newest page of trades, as positions.
Newest == {i \in DOMAIN trades : i > Len(trades) - Page}
OnPage(o) == \A i \in DOMAIN trades : trades[i] = o => i \in Newest

\* trades_for_orders: the trades of one page that belong to these orders, and
\* the sum of their volumes.
FromPage(S) == [o \in S |-> [total |-> Count(Newest, o), trades |-> Count(Newest, o)]]
BitstampDetails(S) == FromPage(S)
GeminiDetails(S) == FromPage(S)
ItbitDetails(S) == FromPage(S)

\* Coinbase's fills of an order, page by page while a page has 100 trades;
\* the ones that are not settled yet are left out, of the hundred as well.
CoinbaseFills(o) ==
  LET mine == {i \in DOMAIN trades : trades[i] = o}
      \* the k-th page: positions with (k-1)*Page to k*Page-1 newer ones
      page(k) == {i \in mine : (Cardinality({j \in mine : j > i}) \div Page) + 1 = k}
      paid(k) == {i \in page(k) : i <= settled}
      pages == {k \in 1..Volume : \A j \in 1..(k - 1) : Cardinality(paid(j)) >= Page}
  IN  UNION {paid(k) : k \in pages}

\* Kraken's ledger has all of these trades.
InLedger(P) == \A i \in P : i <= settled

Return(a) == answer' = a /\ call' = Idle

Details(d, since) == [op |-> "details", of |-> d, since |-> since]

\* What an order has when its details are asked for: trades, and whether the
\* exchange has settled all of them.
Now(o) ==
  [traded |-> Traded(o), settled |-> InLedger({i \in DOMAIN trades : trades[i] = o})]
Raise(x) == [op |-> "raised", result |-> x]

\* get_multi_order_details: one request of trades for all orders, or one
\* request for each order first.
GetMultiOrderDetails(S) ==
  LET since == [o \in S |-> Now(o)]
  IN  /\ call = Idle /\ Cardinality(S) \in 1..MaxAsked
      /\ IF venue \in {"BITSTAMP", "GEMINI", "ITBIT"}
         THEN Return(Details(CASE venue = "BITSTAMP" -> BitstampDetails(S)
                               [] venue = "GEMINI" -> GeminiDetails(S)
                               [] venue = "ITBIT" -> ItbitDetails(S), since))
         ELSE /\ call' = [op |-> "details", ids |-> S, since |-> since,
                          orders |-> <<>>, fills |-> <<>>]
              /\ answer' = None
      /\ UNCHANGED <<venue, state, trades, closed, settled>>

Add(f, o, v) == [x \in DOMAIN f \cup {o} |-> IF x = o THEN v ELSE f[x]]

Asking(v) == venue = v /\ call.op = "details"

\* The order itself, from Coinbase's GET /orders/<id>.  An order that closed
\* without trades is not found.
CoinbaseOrder(o) ==
  /\ Asking("COINBASE") /\ o \in call.ids \ DOMAIN call.orders
  /\ call' = [call EXCEPT !.orders =
                Add(@, o, [found |-> state[o] = "open" \/ Traded(o) > 0,
                           filled |-> Traded(o)])]
  /\ answer' = None
  /\ UNCHANGED <<venue, state, trades, closed, settled>>

\* Its fills, which the wrapper asks for while the other request is under
\* way in a thread of the session.
CoinbaseTrades(o) ==
  /\ Asking("COINBASE") /\ o \in call.ids \ DOMAIN call.fills
  /\ call' = [call EXCEPT !.fills = Add(@, o, Cardinality(CoinbaseFills(o)))]
  /\ answer' = None
  /\ UNCHANGED <<venue, state, trades, closed, settled>>

\* filled_size of the order and the list of the fills; for an order that was
\* not found nothing, whatever the fills say.
CoinbaseDetails ==
  /\ Asking("COINBASE") /\ DOMAIN call.orders = call.ids /\ DOMAIN call.fills = call.ids
  /\ Return(Details([o \in call.ids |->
        [total |-> call.orders[o].filled,
         trades |-> IF call.orders[o].found THEN call.fills[o] ELSE 0]],
        call.since))
  /\ UNCHANGED <<venue, state, trades, closed, settled>>

\* QueryOrders: the trades of each order.  Orders that closed without trades
\* may be missing.
KrakenOrders ==
  /\ Asking("KRAKEN") /\ call.orders = <<>>
  /\ \E missing \in SUBSET {o \in call.ids : state[o] = "closed" /\ Traded(o) = 0} :
       call' = [call EXCEPT !.orders = [o \in call.ids \ missing |->
                                         {i \in DOMAIN trades : trades[i] = o}],
                            !.ids = IF missing = call.ids THEN {} ELSE @]
  /\ answer' = None
  /\ UNCHANGED <<venue, state, trades, closed, settled>>

\* A bug: a trade that the ledger does not have yet counts as nothing.
KrakenLedger_Lenient(o) ==
  /\ Asking("KRAKEN") /\ o \in DOMAIN call.orders \ DOMAIN call.fills
  /\ call' = [call EXCEPT !.fills =
                Add(@, o, Cardinality({i \in call.orders[o] : i <= settled}))]
  /\ answer' = None
  /\ UNCHANGED <<venue, state, trades, closed, settled>>

\* get_trades_info_from_ledger: the amounts of one order's trades.  A trade
\* that is not in the ledger yet has no time, which is a KeyError.
KrakenLedger(o) ==
  /\ Asking("KRAKEN") /\ o \in DOMAIN call.orders \ DOMAIN call.fills
  /\ IF InLedger(call.orders[o])
     THEN /\ call' = [call EXCEPT !.fills = Add(@, o, Cardinality(call.orders[o]))]
          /\ answer' = None
     ELSE Return(Raise("KeyError"))
  /\ UNCHANGED <<venue, state, trades, closed, settled>>

\* A missing order takes its type from the order before it, and has no
\* trades; when it is the first of the list there is nothing to take.
KrakenDetails ==
  LET missing == call.ids \ DOMAIN call.orders
  IN  /\ Asking("KRAKEN") /\ call.orders # <<>> /\ DOMAIN call.fills = DOMAIN call.orders
      /\ \/ Return(Details([o \in call.ids |->
                     LET n == IF o \in missing THEN 0 ELSE call.fills[o]
                     IN  [total |-> n, trades |-> n]], call.since))
         \/ missing # {} /\ Return(Raise("UnboundLocalError"))
      /\ UNCHANGED <<venue, state, trades, closed, settled>>

KrakenNothing ==
  /\ Asking("KRAKEN") /\ call.ids = {}
  /\ Return(Raise("UnboundLocalError"))
  /\ UNCHANGED <<venue, state, trades, closed, settled>>

\* lookup_order has been sent for all orders; then the newest trades are
\* asked for once more for each of them.
QuadrigaTrades(o) ==
  /\ Asking("QUADRIGA") /\ o \in call.ids \ DOMAIN call.fills
  /\ call' = [call EXCEPT !.fills = Add(@, o, FromPage({o})[o])]
  /\ answer' = None
  /\ UNCHANGED <<venue, state, trades, closed, settled>>

QuadrigaDetails ==
  /\ Asking("QUADRIGA") /\ DOMAIN call.fills = call.ids
  /\ Return(Details(call.fills, call.since))
  /\ UNCHANGED <<venue, state, trades, closed, settled>>

-----------------------------------------------------------------------------
(* The data of the order audit: the volumes of orders that have trades.    *)

\* popitem, twice: the last two of an OrderedDict whose orders come in the
\* opposite order of key.
WithoutOldest(S, key) ==
  {o \in S : Cardinality({q \in S : key[q] < key[o]}) >= 2}

Volumes(P, S) == [o \in S |-> Count(P, o)]
OrdersOf(P) == {trades[i] : i \in P}

\* The position of the newest trade of each order: where the order stands in
\* a list of trades that is sorted by time.
LastTrade(P) == [o \in OrdersOf(P) |-> Max({i \in P : trades[i] = o})]

\* A bug: as on the other exchanges, by time.
GeminiAudit_ByTime(P) == Volumes(P, WithoutOldest(OrdersOf(P), LastTrade(P)))

\* Sorted by order id.
GeminiAudit(P) == Volumes(P, WithoutOldest(OrdersOf(P), [o \in OrdersOf(P) |-> o]))

\* The same, but the type '2' is compared with the number 2.
BitstampAudit(P) == <<>>

\* Sorted by time, of the trades that are settled.
CoinbaseAudit(P) ==
  LET Q == {i \in P : i <= settled}
  IN  Volumes(Q, WithoutOldest(OrdersOf(Q), LastTrade(Q)))

QuadrigaAudit(P) == Volumes(P, WithoutOldest(OrdersOf(P), LastTrade(P)))

\* As the exchange lists them, the newest first.
ItbitAudit(P) == Volumes(P, WithoutOldest(OrdersOf(P), LastTrade(P)))

Audited(v, since) == [op |-> "audit", of |-> v, since |-> since]

GetOrderAuditData ==
  /\ call = Idle
  /\ IF venue = "KRAKEN"
     THEN /\ call' = [op |-> "closed", count |-> Len(closed), offset |-> 0, got |-> {}]
          /\ answer' = None
     ELSE Return(Audited(CASE venue = "BITSTAMP" -> BitstampAudit(Newest)
                           [] venue = "COINBASE" -> CoinbaseAudit(Newest)
                           [] venue = "GEMINI" -> GeminiAudit(Newest)
                           [] venue = "ITBIT" -> ItbitAudit(Newest)
                           [] venue = "QUADRIGA" -> QuadrigaAudit(Newest), 0))
  /\ UNCHANGED <<venue, state, trades, closed, settled>>

\* closed_orders: the newest ones first, from an offset.  The count is the
\* one of the first answer, the list is the one of each request.
KrakenClosedOrders ==
  LET n == Len(closed)
      chunk == {closed[i] : i \in {j \in 1..n : n - j >= call.offset
                                                /\ n - j < call.offset + Chunk}}
      got == call.got \cup chunk
      offset == call.offset + Cardinality(chunk)
  IN  /\ call.op = "closed"
      /\ IF offset < call.count
         THEN /\ call' = [call EXCEPT !.offset = offset, !.got = got]
              /\ answer' = None
         ELSE Return(Audited([o \in {q \in got : Traded(q) > 0} |-> Traded(o)],
                             call.count))
      /\ UNCHANGED <<venue, state, trades, closed, settled>>

-----------------------------------------------------------------------------
World == PlaceOrder \/ Settle \/ \E o \in OrderIds : Trade(o)

Calls ==
  \/ GetOrderAuditData \/ KrakenClosedOrders
  \/ CancelAllOpenOrders \/ GetOpenOrders \/ GetBalance
  \/ \E S \in SUBSET Placed : GetMultiOrderDetails(S)
  \/ \E o \in OrderIds :
       CancelOrder(o) \/ CoinbaseOrder(o) \/ CoinbaseTrades(o)
       \/ KrakenLedger(o) \/ QuadrigaTrades(o)
  \/ CoinbaseDetails \/ KrakenOrders \/ KrakenDetails \/ KrakenNothing
  \/ QuadrigaDetails

Next == World \/ Calls

Spec == Init /\ [][Next]_vars
=============================================================================
