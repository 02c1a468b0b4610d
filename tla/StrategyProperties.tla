-------------------------- MODULE StrategyProperties --------------------------
(***************************************************************************)
(* The strategies' libraries.  Most of them are functions of their         *)
(* arguments: a state with a subject other than "strategy" is one set of   *)
(* arguments, and has no steps.  The subject "strategy" is the market      *)
(* maker, which runs.                                                      *)
(***************************************************************************)
EXTENDS MarketMaker, Quoting, Reports, Revenue

CONSTANTS Prices,          \* of one side of a book; the other has one order
          MaxVolume,       \* of an order of somebody else, and of a trade
          MaxTrades

VARIABLE subject

(***************************************************************************)
(* Books: volumes by price, listed in the order opposite to the one that   *)
(* parse_orderbook makes.                                                  *)
(***************************************************************************)
Levels == [Prices -> 0..MaxVolume]

Raw(levels, mode) ==
  LET traded == {p \in Prices : levels[p] > 0}
      worstFirst == SetToSortSeq(traded, LAMBDA a, b : Deeper(mode, a, b))
  IN  [i \in DOMAIN worstFirst |-> [price |-> worstFirst[i],
                                    volume |-> levels[worstFirst[i]]]]

Facing(mode) == IF mode = BID THEN Max(Prices) + 2 ELSE Min(Prices) - 2
OneOrder(price) == <<[price |-> price, volume |-> 1]>>

\* A book whose mode side has the levels.
RawBook(levels, mode) ==
  IF mode = BID THEN [bids |-> Raw(levels, BID), asks |-> OneOrder(Facing(BID))]
                ELSE [bids |-> OneOrder(Facing(ASK)), asks |-> Raw(levels, ASK)]

Quotes ==
  [about : {"quote"}, mode : {BID, ASK}, others : Levels,
   own : [Prices -> 0..1], facing : BOOLEAN, shown : BOOLEAN, volume : 1..4]

Fees == {0, 1}
Crosses ==
  [about : {"cross"}, asks : Levels, bids : Levels, sellAsks : 0..3,
   buyFee : Fees, sellFee : Fees]

Slides ==
  [about : {"slide"}, mode : {BID, ASK}, levels : Levels,
   initial : 1..(Max(Prices) + 2), ignore : 0..1, jump : 1..2, maxSlide : {1, 4}]

\* Prices and fees tell the trades apart.
Histories ==
  {[about |-> "history",
    trades |-> [i \in DOMAIN s |-> [type |-> s[i][1], volume |-> s[i][2],
                                    price |-> 7 ^ i, fee |-> 2 ^ i, time |-> i]]] :
     s \in SeqOf({BID, ASK} \X (1..MaxVolume + 1), MaxTrades)}

\* Books of two venues, each with two orders a side, and weights in halves.
TwoSided == {[bids |-> <<[price |-> b, volume |-> v], [price |-> 2, volume |-> w]>>,
              asks |-> <<[price |-> a, volume |-> w], [price |-> 12, volume |-> v]>>] :
               b \in {3, 5}, a \in {6, 9}, v \in 1..2, w \in 1..2}

MakersBooks ==
  [about : {"quotes"}, first : TwoSided, weight : 0..WeightUnit,
   second : {b \in TwoSided : b.bids[1].volume = 1}, depth : {1, 3, 4},
   spread : {0, 1, 4}]

\* What the records of the trading database say of a period.
Venues == {"one", "two"}
RecordTimes == 0..9
FeeRows == [exchange : Venues, fee : 1..2, time : {1, 4, 5}]
WireRowsOf == [exchange : Venues, currency : {"USD", "CAD"}, fee : {NoFee, 3}, time : {1, 4}]
PlacedAt == {[exchange |-> x, time |-> t] : x \in Venues, t \in {0, 3, 4, 6, 9}}

Periods ==
  [about : {"fees"}, trades : SeqOf(FeeRows, 2), wires : {<<>>}]
    \cup [about : {"fees"}, trades : {<<>>}, wires : SeqOf(WireRowsOf, 2)]
    \cup [about : {"uptime"}, placed : SUBSET PlacedAt]

StrategyInit ==
  /\ MakerInit
  /\ \/ subject = [about |-> "strategy"]
     \/ /\ strategy = "simple"
        /\ subject \in Quotes \cup Crosses \cup Slides \cup Histories \cup MakersBooks \cup Periods

StrategyNext == subject.about = "strategy" /\ MakerNext

(***************************************************************************)
(* A quote is what the volume costs from the others' orders, although only *)
(* the first part of the book was read and our own orders were in it: the  *)
(* cheapest way to buy (the dearest to sell) that there is, it is refused  *)
(* only when there is none, and its price reaches the volume.  When our    *)
(* orders are not in the book yet, the quote errs to our disadvantage.     *)
(* The levels that are computed in one walk are those of the single calls. *)
(***************************************************************************)
QuoteIsWhatItCosts ==
  subject.about = "quote" =>
    LET side == subject.mode
        mode == Other(side)
        levels == [p \in Prices |->
                     subject.others[p] + (IF subject.shown THEN subject.own[p] ELSE 0)]
        own == Raw(subject.own, side)
               \o (IF subject.facing THEN OneOrder(Facing(side)) ELSE <<>>)
        book == RawBook(levels, side)
        quote == PriceQuote(book, own, mode, subject.volume)
        whole == ParseOrderbook(book, 0)
        Worth(take) == ValueOf(SetToSeq({[price |-> p, volume |-> take[p]] : p \in Prices}))
        ways == {take \in Levels :
                   /\ \A p \in Prices : take[p] <= subject.others[p]
                   /\ VolumeOf(SetToSeq({[price |-> p, volume |-> take[p]] : p \in Prices}))
                        = subject.volume}
        costs == {Worth(take) : take \in ways}
        Best == IF mode = BID THEN Min(costs) ELSE Max(costs)
    IN  /\ subject.shown /\ ways # {} => {q.total : q \in quote} = {Best}
        /\ ways = {} => quote = {}
        /\ \A q \in quote :
             /\ ~Deeper(side, Best, q.total)
             /\ \A w \in whole : VolumeAtPrice(w, mode, q.price) >= subject.volume
        /\ \A w \in whole : \A slippages \in {{0}, {1, 3}, {0, 1, 2}} :
             Strengths(w, side, slippages)
               = [s \in slippages |-> Strength(w, side, s)]

(***************************************************************************)
(* A cross can be taken and pays: its volume is offered and wanted, its    *)
(* revenue and fees are those of buying and selling it, the first exceeds  *)
(* the second.  What can be executed is within the coins of one exchange   *)
(* and the money of the other, and only held back by one of them.  Two     *)
(* books that are not crossed themselves cross in one direction at most.   *)
(* What detect_directional_cross overlooks is on the last levels, and it   *)
(* raises only when the sell book has more asks than bids.                 *)
(***************************************************************************)
CrossIsTakeable ==
  subject.about = "cross" =>
    LET buy == [bids |-> <<>>, asks |-> ParseSide(Raw(subject.asks, ASK), ASK, 0)]
        sell == [bids |-> ParseSide(Raw(subject.bids, BID), BID, 0),
                 asks |-> [i \in 1..subject.sellAsks |->
                             [price |-> Max(Prices) + i, volume |-> 1]]]
        crosses == DirectionalCross(buy, sell, subject.buyFee, subject.sellFee)
        Bought(v) == CHOOSE q \in QuoteFrom(buy, BID, v) : TRUE
        Sold(v) == CHOOSE q \in QuoteFrom(sell, ASK, v) : TRUE
        Paid(v) == IF v = 0 THEN 0 ELSE Bought(v).total * (FeeUnit + subject.buyFee)
    IN  /\ Raises(buy, sell) => Len(sell.asks) > Len(sell.bids)
        /\ \A c \in crosses :
             /\ c.volume <= VolumeOf(buy.asks) /\ c.volume <= VolumeOf(sell.bids)
             /\ Bought(c.volume).price < Sold(c.volume).price
             /\ c.revenue = Sold(c.volume).total - Bought(c.volume).total
             /\ c.fees = Sold(c.volume).total * subject.sellFee
                         + Bought(c.volume).total * subject.buyFee
             /\ c.revenue * FeeUnit > c.fees
             /\ \A coins \in 0..2, money \in {0, 35, 70, 90} :
                  LET do == ExecutableVolume(c, buy.asks, subject.buyFee, money, coins)
                      left == money - Paid(do.whole)
                      cap == Min({c.volume, coins})
                      next == Paid(do.whole + 1) - Paid(do.whole)
                  IN  /\ do.whole * do.of + do.part <= cap * do.of
                      /\ left >= 0
                      /\ \/ do.part = 0 /\ do.whole = cap
                         \/ do.part * next = left * do.of
        /\ Len(sell.asks) = Len(sell.bids) =>
             LET overlap == {v \in 1..Min({VolumeOf(buy.asks), VolumeOf(sell.bids)}) :
                               Bought(v).price < Sold(v).price}
             IN  \A v \in overlap :
                   \/ v <= MatchLevels(buy, sell, 0, 0).volume
                   \/ v > VolumeOf(Front(buy.asks)) \/ v > VolumeOf(Front(sell.bids))

(***************************************************************************)
(* What is computed from an orderbook, its levels give: the price of a     *)
(* volume, and what two books have for an arbitrage.                       *)
(***************************************************************************)
LevelsGiveIt == QuoteIsWhatItCosts /\ CrossIsTakeable

(***************************************************************************)
(* A slid order is never nearer the centre than it was, so that a bid and  *)
(* an ask that did not cross still do not; it is within max_slide; and it  *)
(* is in front of every order worth hiding behind, by at most jump unless  *)
(* max_slide or the other side of the book holds it back.                  *)
(***************************************************************************)
InFront(mode, initial, walls, facing, jump, maxSlide, new) ==
  LET widest == WidenPrice(mode, initial, maxSlide)
  IN  /\ ~Deeper(mode, initial, new)
      /\ ~Deeper(mode, new, widest)
      /\ \A w \in walls : Deeper(mode, w, initial) => Deeper(mode, w, new)
      /\ \/ new = widest
         \/ \E w \in walls : /\ Deeper(mode, w, new)
                             /\ ~Deeper(mode, NarrowPrice(mode, w, jump), new)
         \/ Deeper(mode, facing, initial)

SlidesInFront ==
  subject.about = "slide" =>
    LET mode == subject.mode
        walls == {p \in Prices : subject.levels[p] > subject.ignore}
    IN  \A book \in ParseOrderbook(RawBook(subject.levels, mode), 0) :
          InFront(mode, subject.initial, walls, Facing(mode), subject.jump, subject.maxSlide,
                  SlideOrder(mode, subject.initial, book, subject.ignore,
                             subject.jump, subject.maxSlide))

(***************************************************************************)
(* A midpoint lies between the orders its depth reaches on both sides, and *)
(* there is none only when a side has less; the mean of the exchanges'     *)
(* lies between theirs.  A market maker's bid is below its ask unless the  *)
(* spread is zero and nothing lies before the midpoint, and neither is     *)
(* nearer the midpoint than the spread.  In dollars too, strengths that    *)
(* are computed in one walk are those of the single calls.                 *)
(***************************************************************************)
MidpointWithin(book, depth) ==
  /\ BookMidpoint(book, depth) = {}
       <=> VolumeOf(book.bids) < depth \/ VolumeOf(book.asks) < depth
  /\ \A m \in BookMidpoint(book, depth) :
       \A sold \in QuoteFrom(book, ASK, depth), bought \in QuoteFrom(book, BID, depth) :
         2 * depth * sold.price <= m /\ m <= 2 * depth * bought.price
  /\ \A v \in FundamentalValue(book) :
       v.depth = 1 => VolumeOf(book.bids) < DeepDepth \/ VolumeOf(book.asks) < DeepDepth
  /\ FundamentalValue(book) # {}
  /\ \A type \in {BID, ASK} : \A slippages \in {{0}, {1, 3}} :
       StrengthsInUsd(book, type, slippages)
         = {f \in {[s \in slippages |-> Strength(book, type, s) * m] :
                     m \in BookMidpoint(book, DeepDepth)} :
              \A s \in slippages : f[s] \in StrengthInUsd(book, type, s)}

QuotesKeepDistance ==
  subject.about = "quotes" =>
    LET books == [x \in Venues |-> IF x = "one" THEN subject.first ELSE subject.second]
        weights == [x \in Venues |-> IF x = "one" THEN subject.weight
                                                  ELSE WeightUnit - subject.weight]
        depth == subject.depth
        mids == UNION {NativeMidpoint(books[x], depth) : x \in Venues}
        global == GlobalMidpoint(books, weights, depth)
        Away(q, m) == /\ q.bid <= m * (SpreadUnit - subject.spread)
                      /\ q.ask >= m * (SpreadUnit + subject.spread)
    IN  /\ \A x \in Venues : MidpointWithin(books[x], depth)
        /\ \A m \in global :
             Min(mids) * WeightUnit <= m /\ m <= Max(mids) * WeightUnit
        /\ \A q \in SimpleQuotes(books["one"], depth, subject.spread) :
             q.bid < q.ask \/ subject.spread = 0
        /\ \A primary \in Venues, jump \in {1, 2} :
             \A q \in LinearQuotes(books, primary, weights, depth, subject.spread, 0, jump, 3) :
               /\ \A m \in global : Away(q, m)
               /\ q.bid < q.ask \/ subject.spread = 0

(***************************************************************************)
(* The prices of a strategy's orders leave the middle of the book to       *)
(* others: before they are slid, and after.                                *)
(***************************************************************************)
QuotesStayApart == SlidesInFront /\ QuotesKeepDistance

(***************************************************************************)
(* Fees of adjoining periods add up, and those by exchange and currency to *)
(* the same, as far as every exchange was wired money in one currency.     *)
(* Uptimes are shares of the buckets of ten minutes when the period        *)
(* consists of such, and all exchanges together are up no longer than any  *)
(* one of them.                                                            *)
(***************************************************************************)
SumOver(f) == MapThenSumSet(LAMBDA k : f[k], DOMAIN f)

FeesAddUp ==
  subject.about = "fees" =>
    \A start \in {0, 1, 4} : \A middle \in {4, 5} : \A end \in {5, 6} :
      /\ middle \in start..end =>
           AllFees(subject.trades, start, end)
             = AllFees(subject.trades, start, middle) + AllFees(subject.trades, middle, end)
      /\ SumOver(FeesByExchange(subject.trades, start, end))
           = AllFees(subject.trades, start, end)
      /\ LET rows == ToSet(WireRows(subject.wires, start, end))
             reported == WireFeesByExchange(subject.wires, start, end)
             Currencies(x) == {r.currency : r \in {s \in rows : s.exchange = x}}
         IN  (\A x \in DOMAIN reported : Cardinality(Currencies(x)) = 1) =>
               \E only \in [DOMAIN reported -> UNION Range(reported)] :
                 /\ \A x \in DOMAIN reported : reported[x] = {only[x]}
                 /\ SumOver(WireFeesByCurrency(subject.wires, start, end))
                      = SumOver([x \in DOMAIN reported |-> only[x].fee])

UptimeIsShare ==
  subject.about = "uptime" =>
    \A start \in RecordTimes : \A end \in (start + 1)..(Max(RecordTimes) + 1) :
      LET whole == start % Bucket = 0 /\ (end - start) % Bucket = 0
          Up(x) == ExchangeUptime(subject.placed, x, start, end)
          Placed(x, from, until) ==
            \E o \in subject.placed : o.exchange = x /\ from <= o.time /\ o.time < until
          BucketsUp(xs) ==
            {k \in 0..((end - start) \div Bucket - 1) :
               \A x \in xs : Placed(x, start + k * Bucket, start + (k + 1) * Bucket)}
      IN  /\ whole =>
               /\ \A x \in Venues : Up(x).up = Cardinality(BucketsUp({x})) * Bucket
               /\ GlobalUptime(subject.placed, Venues, start, end)
                    = {[up |-> Cardinality(BucketsUp(Venues)), of |-> (end - start) \div Bucket]}
          /\ \A share \in GlobalUptime(subject.placed, Venues, start, end) :
               \A x \in Venues : share.up * Bucket <= Up(x).up

(***************************************************************************)
(* What closing the position would bring is what the revenue functions     *)
(* report once the trades that close it have been made: at market from the *)
(* orders of the book, or with one order of our own.  Nothing is said of   *)
(* the market revenue of a short position larger than the first ask.       *)
(***************************************************************************)
CloseBook == [bids |-> <<[price |-> 9, volume |-> 2], [price |-> 5, volume |-> 4]>>,
              asks |-> <<[price |-> 11, volume |-> 2], [price |-> 16, volume |-> 20]>>]

CloseTrades(trades, held, book) ==
  LET type == IF held > 0 THEN "ASK" ELSE "BID"
      orders == IF held > 0 THEN book.bids ELSE book.asks
      needed == IF held > 0 THEN held ELSE -held
      Take(i) == Min({orders[i].volume, needed - VolumeOf(SubSeq(orders, 1, i - 1))})
      used == {i \in DOMAIN orders : VolumeOf(SubSeq(orders, 1, i - 1)) < needed}
  IN  [i \in 1..Cardinality(used) |->
         [type |-> type, volume |-> Take(i), price |-> orders[i].price,
          fee |-> 0, time |-> Len(trades) + i]]

Absolute(n) == IF n < 0 THEN -n ELSE n

\* The revenue of trades after what had been realized before them.
Realizes(trades, more) ==
  ProfitData(SplitTrades(trades \o more).matched).revenue
    - ProfitData(SplitTrades(trades).matched).revenue

ClosingIsRealized(trades) ==
  LET rest == SplitTrades(trades).open
      held == Position(rest)
      market == Realizes(trades, CloseTrades(trades, held, CloseBook))
      Single(price) == [bids |-> <<[price |-> price, volume |-> 20]>>,
                        asks |-> <<[price |-> price, volume |-> 20]>>]
      limit == Realizes(trades, CloseTrades(trades, held, Single(10)))
      fee == 3
      unmatched == FeesOf(rest) * FeeUnit
  IN  held # 0 =>
        /\ -CloseBook.asks[1].volume <= held /\ held <= VolumeOf(CloseBook.bids) =>
             \E pl \in MarketOrderPl(rest, CloseBook, fee) :
               /\ pl.revenue = market
               /\ pl.fees - unmatched
                    = fee * Absolute(market - FiatDelta(rest) - FeesOf(rest))
        /\ LimitOrderPl(rest, CloseBook, fee).revenue = limit
        /\ OpenOrdersPl(rest, Single(10), fee) = LimitOrderPl(rest, CloseBook, fee)

\* Units of trades made at two exchanges in turn.
SharesAddUp(trades, matched) ==
  LET units == [i \in 1..(Len(matched) \div 2) |->
        [profit |-> ProfitUnits(matched)[i].profit,
         exchanges |-> [k \in 1..2 |-> IF matched[2 * i - 2 + k].time % 2 = 0
                                       THEN "one" ELSE "two"]]]
  IN  SumOver(ProfitParticipation(units)) = 2 * ProfitData(matched).profit

(***************************************************************************)
(* The fast revenue and fees of a period, which look at its trades and at  *)
(* those that make up the positions at its ends, are the ones of the       *)
(* legacy functions "used for verifying the more efficient versions", and  *)
(* of the profit units whose later trade lies in the period: no trade is   *)
(* counted twice or in two periods.  Realized and open profit together are *)
(* what the trades have brought in and what the position is worth, and     *)
(* what closing the position is said to bring is what it brings.           *)
(***************************************************************************)
RevenueIsRealized ==
  subject.about = "history" =>
    LET trades == subject.trades
        whole == SplitTrades(trades)
        end == Len(trades) + 1
        Units(from, until) == Before(Since(ProfitUnits(whole.matched), from), until)
    IN  /\ \A from \in 1..end : \A until \in from..end :
             LET legacy == ProfitData(LegacyMatched(trades, from, until))
                 units == Units(from, until)
             IN  /\ FastRevenue(trades, from, until) = legacy.revenue
                 /\ FastRevenue(trades, from, until) = TotalOf(units, LAMBDA u : u.revenue)
                 /\ FastProfitData(trades, from, until) = legacy
                 /\ legacy.profit = TotalOf(units, LAMBDA u : u.profit)
        /\ \A i \in DOMAIN ProfitUnits(whole.matched) :
             whole.matched[2 * i - 1].volume = whole.matched[2 * i].volume
        /\ OpenPositionTrades(Position(trades), trades, end) = whole.open
        /\ SharesAddUp(trades, whole.matched)
        /\ RealizedPl(whole.matched) + OpenPl(whole.open, 10) = OpenPl(trades, 10)
        /\ ClosingIsRealized(trades)
=============================================================================
