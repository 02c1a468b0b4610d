---------------------------- MODULE PageProperties ----------------------------
(***************************************************************************)
(* The dashboard's pages of a strategy and of the markets.                 *)
(***************************************************************************)
EXTENDS StrategyProperties, DashboardPages

PageNow == 6
PageOrders == {[price |-> 3, placed |-> 1, executed |-> 4], [price |-> 5, placed |-> 2, executed |-> 6],
               [price |-> 4, placed |-> 5, executed |-> NotExecuted],
               [price |-> 7, placed |-> 1, executed |-> NotExecuted]}
Made == [exchange : Venues, id : {1, 2}, time : {2}] \cup [exchange : {"one"}, id : {3}, time : {4}]

PageSubjects ==
  [about : {"page"}, recorded : SUBSET {1, 3, 4, 5, 6}, orders : SUBSET PageOrders,
   at : {{}} \cup {{t} : t \in 0..5}, limited : BOOLEAN]
    \cup [about : {"graph"}, first : TwoSided, second : TwoSided]
    \cup [about : {"marks"}, ours : SUBSET Made, delay : 0..1]

(***************************************************************************)
(* A strategy's page fits together and with the revenue functions, in      *)
(* whatever order the rows come: the series of revenue and of positions    *)
(* end at the totals beside them, but for the trades that are taken for    *)
(* rounding errors; volumes add up; and the profit, with what the open     *)
(* position has gained, is what the period brought in.  The overwatch bot  *)
(* warns of the day's profit and the open position by the page's numbers.  *)
(***************************************************************************)
PageFits(trades, rows, start, end) ==
  LET period == StrategyTrades(trades, start, end)
      small == SelectSeq(period, LAMBDA t : t.volume < Rounding)
      before == OpenPositionTrades(StartPosition(trades, start), trades, start)
      page == GenerateData(trades, rows, start, end)
      data == page.result.data
  IN  /\ data = FastProfitData(trades, start, end)
      /\ data.revenue = IF page.revenues = <<>> THEN 0 ELSE Last(page.revenues).total
      /\ \A i \in DOMAIN page.revenues : start <= page.revenues[i].time
      /\ page.result.openPosition = Last(page.analysis.positions).position + Position(small)
      /\ SumOver(page.analysis.volumes) = page.analysis.total
      /\ page.analysis.total = Traded(period) - Traded(small)
      /\ \A v \in FundamentalValueOf(trades, start, end) :
           page.result.openPl = {OpenPl(before, v) + FiatDelta(period)
                                   + v * Position(period) - data.profit}
      /\ start <= Len(trades) /\ Len(trades) < end => \A limit \in {-20, 0} :
           LET beats == Beats(trades, start, end, limit, limit)
           IN  /\ "PROFIT" \in beats <=> data.profit > limit
               /\ "OPEN_PL" \in beats <=> \E pl \in page.result.openPl : pl > limit

StrategyPageFits ==
  subject.about = "history" =>
    \A now \in {Len(subject.trades) + 1} :
    \A end \in {now} \cup (IF now <= MaxTrades THEN {now - 1} ELSE {}) : \A start \in 1..end :
      LET period == StrategyTrades(subject.trades, start, end)
      IN  \A rows \in {period} \cup (IF now <= MaxTrades THEN {Reverse(period)} ELSE {}) :
            PageFits(subject.trades, rows, start, end)

(***************************************************************************)
(* The graph of a book has at every order's price what can be bought or    *)
(* sold at that price, and nothing between the best orders.  The range     *)
(* shows all of our orders, and the best orders of the chosen exchanges    *)
(* unless they lie further apart than the width: the lowest bid and the    *)
(* highest ask have changed places in the call.                            *)
(***************************************************************************)
Tenfold(book) ==
  LET Side(orders) == [i \in DOMAIN orders |-> [orders[i] EXCEPT !.price = 10 * @]]
  IN  [bids |-> Side(book.bids), asks |-> Side(book.asks)]

GraphsFit ==
  subject.about = "graph" =>
    LET books == [x \in Venues |-> Tenfold(IF x = "one" THEN subject.first ELSE subject.second)]
        one == LevelsOf(books["one"])
        two == LevelsOf(books["two"])
        Shown(x) == IF x = "one" THEN one ELSE two
    IN  /\ \A x \in Venues :
             /\ \A o \in ToSet(books[x].bids \o books[x].asks) :
                  \E p \in Shown(x).points : p.price = o.price
             /\ \A p \in Shown(x).points :
                  p.volume = VolumeAtPrice(books[x], ASK, p.price)
                             + VolumeAtPrice(books[x], BID, p.price)
             /\ \E p, q \in Shown(x).points :
                  /\ Shown(x).topBid < p.price /\ q.price < Shown(x).topAsk
                  /\ p.volume = 0 /\ q.volume = 0
        /\ \A selected \in SUBSET Venues \ {{}} : \A prices \in {{}, {10}, {200}, {10, 200}} :
             LET range == GraphRange(books, selected, prices)
                 Within100(price) == range.low <= 100 * price /\ 100 * price <= range.high
                 best == UNION {{Shown(x).topBid, Shown(x).topAsk} : x \in selected}
             IN  /\ \A p \in prices : Within100(p)
                 /\ prices = {} /\ Max(best) - Min(best) <= Width =>
                      \A p \in best : Within100(p)

(***************************************************************************)
(* Our orders are drawn over a book that had them, but for orders that     *)
(* were placed after the latest book, or were executed between the moment  *)
(* asked for and the first book after it; nothing was recorded between.    *)
(* And whatever is marked as ours on the page of trades is ours, or has    *)
(* the id of a trade of ours elsewhere.                                    *)
(***************************************************************************)
OverlaysFit ==
  /\ subject.about = "page" =>
       \A book \in BookShown(subject.recorded, PageNow, subject.at, subject.limited) :
         /\ \A o \in OpenOrdersAt(subject.orders, subject.at) :
              \/ o.placed < book /\ (o.executed = NotExecuted \/ o.executed > book)
              \/ subject.at = {} /\ o.placed >= book
              \/ \E t \in subject.at : t < o.executed /\ o.executed <= book
         /\ \A t \in subject.recorded :
              ~(\A a \in subject.at \cup (IF subject.at = {} THEN {PageNow} ELSE {}) :
                  \/ a < t /\ t < book
                  \/ book < t /\ t <= a)
  /\ subject.about = "marks" =>
       LET rows == {[t EXCEPT !.time = @ + subject.delay] : t \in subject.ours}
       IN  \A start \in 0..4 : \A end \in start..5 :
             LET marked == MarkedAsOurs(Made, rows, start, end)
             IN  /\ \A t \in marked \ subject.ours : \E o \in subject.ours : o.id = t.id
                 /\ \A t \in subject.ours :
                      /\ start < t.time /\ t.time <= end - subject.delay
                      => t \in marked

PagesFit == StrategyPageFits /\ GraphsFit /\ OverlaysFit

(***************************************************************************)
(* The reports of a period - revenue, fees, uptime, the pages of the       *)
(* dashboard - say what happened in it, and those of adjoining periods fit *)
(* together.                                                               *)
(***************************************************************************)
ReportsFit == RevenueIsRealized /\ FeesAddUp /\ UptimeIsShare /\ PagesFit
=============================================================================
