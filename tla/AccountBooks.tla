----------------------------- MODULE AccountBooks -----------------------------
(***************************************************************************)
(* The trading database as an accountant's books: what the orders' trades  *)
(* and the transactions of all accounts add up to, the ledger that is      *)
(* exported from them, and the net assets the overwatch bot watches.  The  *)
(* owner's operations on them are here: moving coins and money, buying     *)
(* back fees, borrowing.  One order trades 10 coins for 700 dollars at a   *)
(* time; the amounts are chosen so that no two sums of them are the same.  *)
(***************************************************************************)
EXTENDS Integers, SequencesExt

CONSTANTS Accounts,        \* of the exchanges; one of them is Coinbase
          Coinbase,
          FirstAccount,    \* whose row the database gives first
          MaxBookTime, MaxBookOrders, MaxBookTrades, MaxEntries

ASSUME BooksAssumption ==
  /\ IsFiniteSet(Accounts) /\ Coinbase \in Accounts /\ FirstAccount \in Accounts
  /\ MaxBookTrades \in Nat \ {0}

VARIABLES
  bookOrders,    \* [account, type, trades], a trade is [time, bought]
  transactions,  \* [account, type, status, amount, fee, created, completed, bought, drift]
  balances,      \* the balance column of each account
  debts,         \* the liability rows: [started, repaid]
  today,
  watchSince,    \* when the overwatch process was started
  asked,         \* fee buyback at its prompt: the outstanding rows it has read,
                 \* and whether some of them have been replaced since
  paidAgain      \* history: fees that were outstanding again after a buyback

bookVars ==
  <<bookOrders, transactions, balances, debts, today, watchSince, asked, paidAgain>>

Never == 0

(***************************************************************************)
(* Money in two currencies.                                                *)
(***************************************************************************)
Coins(n) == [BTC |-> n, USD |-> 0]
Dollars(n) == [BTC |-> 0, USD |-> n]
NoMoney == Coins(0)
Plus(a, b) == [c \in {"BTC", "USD"} |-> a[c] + b[c]]
Minus(a, b) == [c \in {"BTC", "USD"} |-> a[c] - b[c]]
\* The sum of the values of a function.
Parts(amounts, c) == [x \in DOMAIN amounts |-> amounts[x][c]]
SumParts(amounts, c) ==
  LET parts == Parts(amounts, c) IN MapThenSumSet(LAMBDA x : parts[x], DOMAIN amounts)
SumOf(amounts) == [c \in {"BTC", "USD"} |-> SumParts(amounts, c)]

Volume == Coins(10)
Price == Dollars(700)
\* Coinbase takes its fees in dollars and charges none for a withdrawal.
TradeFee(account) == IF account = Coinbase THEN Dollars(3) ELSE Coins(1)
WithdrawalFee(account) == IF account = Coinbase THEN NoMoney ELSE Coins(2)
Moved == Coins(40)
Wired == Dollars(5000)
WireFees == [out |-> Dollars(11), in |-> Dollars(13)]
BuybackCost == Dollars(90)
Debt == Coins(100000)
Drift == Coins(1000000)

\* calc_position of a trade, and of a transaction.
TradePosition(order) ==
  LET gained == IF order.type = "BID" THEN Minus(Volume, Price) ELSE Minus(Price, Volume)
  IN  Minus(gained, TradeFee(order.account))

TransactionPosition(t) ==
  Minus(IF t.type = "DEPOSIT" THEN t.amount ELSE Minus(NoMoney, t.amount), t.fee)

(***************************************************************************)
(* ledger_balance: the queries of the trades and of the transactions of an *)
(* account, after start and until end.  A transaction counts when it was   *)
(* completed; with the pending ones, when it was created.                  *)
(***************************************************************************)

\* A bug: the start of the period belongs to it, as in get_burn_transactions.
Within_FromStart(time, start, end) == time >= start /\ time <= end
Within(time, start, end) == time > start /\ time <= end

TradeRows == {row \in (DOMAIN bookOrders) \X (1..MaxBookTrades) :
                row[2] \in DOMAIN bookOrders[row[1]].trades}

TradesOf(account, start, end) ==
  {row \in TradeRows : /\ bookOrders[row[1]].account = account
                       /\ Within(bookOrders[row[1]].trades[row[2]].time, start, end)}

When(t) == IF t.completed # Never THEN t.completed ELSE t.created

MovesOf(account, start, end, pending) ==
  {i \in DOMAIN transactions :
     LET t == transactions[i]
     IN  /\ t.account = account
         /\ t.status \in {"COMPLETED"} \cup (IF pending THEN {"IN_TRANSIT"} ELSE {})
         /\ Within(IF pending THEN t.created ELSE When(t), start, end)}

LedgerBalanceOf(account, start, end, pending) ==
  Plus(SumOf([row \in TradesOf(account, start, end) |-> TradePosition(bookOrders[row[1]])]),
       SumOf([i \in MovesOf(account, start, end, pending) |->
                TransactionPosition(transactions[i])]))

(***************************************************************************)
(* Exchange.ledger: trades and completed transactions, the newest first.   *)
(* Those of one moment keep the order of the two queries.                  *)
(***************************************************************************)
EntryTime(e) == IF e.kind = "trade" THEN e.row.time ELSE When(e.row)
Touches(e, currency) ==
  IF e.kind = "trade" THEN TRUE ELSE e.row.amount[currency] # 0 \/ e.row.fee[currency] # 0

TradeRow(row) ==
  LET order == bookOrders[row[1]]
  IN  [account |-> order.account, type |-> order.type, time |-> order.trades[row[2]].time]

Ledger(account, start, end, currency) ==
  LET trades == TradesOf(account, start, end)
      moves == MovesOf(account, start, end, FALSE)
      rows == FlattenSeq([i \in DOMAIN bookOrders |->
                            [k \in DOMAIN bookOrders[i].trades |-> <<i, k>>]])
      traded == SelectSeq(rows, LAMBDA row : row \in trades)
      moved == SelectSeq([i \in DOMAIN transactions |-> i], LAMBDA i : i \in moves)
      entries == [i \in DOMAIN traded |-> [kind |-> "trade", row |-> TradeRow(traded[i])]]
                 \o [i \in DOMAIN moved |-> [kind |-> "transaction", row |-> transactions[moved[i]]]]
      wanted == SelectSeq(entries, LAMBDA e : currency # "" => Touches(e, currency))
  IN  SortSeq(wanted, LAMBDA d, e : EntryTime(d) > EntryTime(e))

(***************************************************************************)
(* get_ledger_table_for_time: lines of a credit or debit each, the newest  *)
(* first, with the balance after them.  The lines of one entry are in the  *)
(* order they were made in, so that their balances run against it.  A      *)
(* drift transaction makes no line.                                        *)
(***************************************************************************)
Lines(e) ==
  LET Line(change) == [time |-> EntryTime(e), change |-> change]
      FeeLine(fee) == IF fee = NoMoney THEN <<>> ELSE <<Line(Minus(NoMoney, fee))>>
  IN  IF e.kind = "trade"
      THEN (IF e.row.type = "BID" THEN <<Line(Volume), Line(Minus(NoMoney, Price))>>
                                  ELSE <<Line(Price), Line(Minus(NoMoney, Volume))>>)
           \o FeeLine(TradeFee(e.row.account))
      ELSE IF e.row.drift THEN <<>>
      ELSE <<Line(IF e.row.type = "DEPOSIT" THEN e.row.amount
                                            ELSE Minus(NoMoney, e.row.amount))>>
           \o FeeLine(e.row.fee)

TableLines(account, start, end, currency) ==
  LET ledger == Ledger(account, start, end, currency)
  IN  FlattenSeq([i \in DOMAIN ledger |-> Lines(ledger[i])])

\* The balance before the period.
StartingBalance(account, start) == LedgerBalanceOf(account, 0, start, FALSE)

LedgerTable(lines, starting) ==
  LET Sum(i) == SumOf([k \in i..Len(lines) |-> lines[k].change])
  IN  [i \in DOMAIN lines |->
         [time |-> lines[i].time, change |-> lines[i].change,
          balance |-> Plus(starting, Sum(i))]]

\* The table of the dashboard leaves the other currencies' lines out.
OnlyCurrency(lines, currency) ==
  SelectSeq(lines, LAMBDA l : currency # "" => l.change[currency] # 0)

DashboardTable(lines, starting, currency) ==
  LedgerTable(OnlyCurrency(lines, currency), starting)

(***************************************************************************)
(* calculate_btc_net_assets_error.                                         *)
(***************************************************************************)
OutstandingTrades == {row \in TradeRows :
                        /\ TradeFee(bookOrders[row[1]].account).BTC # 0
                        /\ ~bookOrders[row[1]].trades[row[2]].bought}
OutstandingTransactions == {i \in DOMAIN transactions :
                              /\ transactions[i].fee.BTC # 0
                              /\ ~transactions[i].bought
                              /\ transactions[i].status # "CANCELED"}
OutstandingFees ==
  SumOf([row \in OutstandingTrades |-> TradeFee(bookOrders[row[1]].account)]).BTC
    + SumOf([i \in OutstandingTransactions |-> transactions[i].fee]).BTC

\* The default of get_active_liabilities' date is made when the module is
\* loaded.
ActiveDebts(date) ==
  {i \in DOMAIN debts : /\ debts[i].started <= date
                        /\ debts[i].repaid = Never \/ debts[i].repaid > date}

\* Nothing but Exchange.__init__ writes multi_position_cache.
CachedMultiPosition == 0

\* all_exchange_datas: make_exchange_datas_from_keys returns the first row.
ListedAccounts == {FirstAccount}

\* The balances are of the listed accounts, the transactions of all accounts.
NetAssets ==
  LET inTransit == {i \in DOMAIN transactions : transactions[i].status = "IN_TRANSIT"}
  IN  SumOf([a \in ListedAccounts |-> balances[a]]).BTC
      + SumOf([i \in inTransit |-> Minus(transactions[i].amount, transactions[i].fee)]).BTC
      - CachedMultiPosition - Cardinality(ActiveDebts(watchSince)) * Debt.BTC

NetAssetsError == -(NetAssets + OutstandingFees)

(***************************************************************************)
(* The assets page of the dashboard: the balance of all accounts at the    *)
(* start of the period, with what is in transit, and from day to day what  *)
(* has changed; less the loans of that day.                                *)
(***************************************************************************)
TotalBalance(start, end) ==
  SumOf([a \in Accounts |-> LedgerBalanceOf(a, start, end, TRUE)])

AssetsSeries(start, end) ==
  LET series[day \in start..end] ==
        IF day = start THEN TotalBalance(0, start)
                       ELSE Plus(series[day - 1], TotalBalance(day - 1, day))
  IN  series

LiabilitiesSeries(start, end) ==
  [day \in start..end |-> Coins(Cardinality(ActiveDebts(day)) * Debt.BTC)]

NetAssetsSeries(start, end) ==
  [day \in start..end |-> Minus(AssetsSeries(start, end)[day],
                                LiabilitiesSeries(start, end)[day])]

-----------------------------------------------------------------------------
(* The operations.                                                         *)

BooksInit ==
  /\ bookOrders = <<>> /\ transactions = <<>> /\ debts = <<>>
  /\ balances = [a \in Accounts |-> NoMoney]
  /\ today = 1 /\ watchSince = 1
  /\ asked = {} /\ paidAgain = 0

\* The owner has stopped the Coinbase bot, and does nothing else with this
\* account, while the buyback is at its prompt.
Free(account) == account = Coinbase => asked = {}

\* At most MaxEntries trades and transactions.
Room(n) == Len(transactions) + Len(FlattenSeq([i \in DOMAIN bookOrders |->
                                                bookOrders[i].trades])) + n <= MaxEntries

Credit(account, amount) == balances' = [balances EXCEPT ![account] = Plus(@, amount)]

\* A transaction in transit, and one that was completed at once.
Transit(account, type, amount, fee) ==
  [account |-> account, type |-> type, status |-> "IN_TRANSIT", amount |-> amount,
   fee |-> fee, created |-> today, completed |-> Never, bought |-> FALSE, drift |-> FALSE]
Complete(t) == [t EXCEPT !.status = "COMPLETED", !.completed = today]

\* An order's first trade.
NewOrder(account, type) ==
  LET order == [account |-> account, type |-> type,
                trades |-> <<[time |-> today, bought |-> FALSE]>>]
  IN  /\ Free(account) /\ Room(1) /\ Len(bookOrders) < MaxBookOrders
      /\ bookOrders' = Append(bookOrders, order)
      /\ Credit(account, TradePosition(order))
      /\ UNCHANGED <<transactions, debts, today, watchSince, asked, paidAgain>>

(***************************************************************************)
(* The order's details are entered, with one trade more than the last      *)
(* time or, by the manual accounting script, the same ones again: the      *)
(* Trade rows are replaced by new ones, and the change of the order's      *)
(* position is added to the balance.                                       *)
(***************************************************************************)
SetTrades(i, times) ==
  /\ bookOrders' = [bookOrders EXCEPT ![i].trades =
                      [k \in DOMAIN times |-> [time |-> times[k], bought |-> FALSE]]]
  /\ LET order == bookOrders[i]
         more == Len(times) - Len(order.trades)
         forgotten == Cardinality({row \in TradeRows : row[1] = i /\ order.trades[row[2]].bought})
     IN  /\ IF more = 0 THEN balances' = balances
                        ELSE Credit(order.account, TradePosition(order))
         /\ paidAgain' = paidAgain + forgotten * TradeFee(order.account).BTC
         /\ asked' = {[rows EXCEPT !.replaced = @ \/ \E k \in DOMAIN order.trades :
                                                         <<i, k>> \in rows.trades] : rows \in asked}

Eaten(i) ==
  /\ LET times == [k \in DOMAIN bookOrders[i].trades |-> bookOrders[i].trades[k].time]
     IN  \/ Room(1) /\ Len(times) < MaxBookTrades /\ SetTrades(i, Append(times, today))
         \/ SetTrades(i, times)
  /\ Free(bookOrders[i].account)
  /\ UNCHANGED <<transactions, debts, today, watchSince>>

AddTransactions(rows) ==
  /\ Room(Len(rows))
  /\ transactions' = transactions \o rows
  /\ UNCHANGED <<bookOrders, debts, today, watchSince, asked, paidAgain>>

\* record_withdrawal: coins leave, and are expected at the other exchange.
RecordWithdrawal(source, target) ==
  LET fee == WithdrawalFee(source)
  IN  /\ source # target /\ Free(source)
      /\ AddTransactions(<<Transit(target, "DEPOSIT", Moved, NoMoney),
                           Complete(Transit(source, "WITHDRAWL", Moved, fee))>>)
      /\ Credit(source, Minus(NoMoney, Plus(Moved, fee)))

\* record_fiat_withdrawal: the fee is taken out of the amount.
RecordFiatWithdrawal(source, target) ==
  LET sent == Minus(Wired, WireFees.out)
  IN  /\ source # target /\ Free(source)
      /\ AddTransactions(<<Complete(Transit(source, "WITHDRAWL", sent, WireFees.out)),
                           Transit(target, "DEPOSIT", sent, WireFees.in)>>)
      /\ Credit(source, Minus(NoMoney, Wired))

\* Transaction.complete of a deposit.
Land(i) ==
  LET t == transactions[i]
  IN  /\ t.status = "IN_TRANSIT" /\ t.type = "DEPOSIT" /\ Free(t.account)
      /\ transactions' = [transactions EXCEPT ![i] = Complete(t)]
      /\ Credit(t.account, TransactionPosition(t))
      /\ UNCHANGED <<bookOrders, debts, today, watchSince, asked, paidAgain>>

\* An audit enters what it cannot explain: too much, or too little on Coinbase.
EnterDrift(account) ==
  LET type == IF account = Coinbase THEN "WITHDRAWL" ELSE "DEPOSIT"
      t == [Complete(Transit(account, type, Drift, NoMoney)) EXCEPT !.drift = TRUE]
  IN  /\ Free(account)
      /\ AddTransactions(<<t>>)
      /\ Credit(account, TransactionPosition(t))

(***************************************************************************)
(* fee_buyback.  The rows are read, the owner buys that much and says what *)
(* it cost.  The commit fails when one of the rows has been replaced in    *)
(* the meantime.  With nothing outstanding the sum of no fees is no Money: *)
(* the controller fails when it makes the deposit, and what its finally    *)
(* clause commits is a withdrawal that stays in transit.                   *)
(***************************************************************************)
AskBuyback ==
  /\ asked = {}
  /\ asked' = {[trades |-> OutstandingTrades, transactions |-> OutstandingTransactions,
                amount |-> OutstandingFees, replaced |-> FALSE]}
  /\ UNCHANGED <<bookOrders, transactions, balances, debts, today, watchSince, paidAgain>>

\* A bug: what is outstanding when the buyback is entered is marked.
Marked_Now(rows) == [trades |-> OutstandingTrades, transactions |-> OutstandingTransactions]
Marked(rows) == [trades |-> rows.trades, transactions |-> rows.transactions]

EnterBuyback(rows) ==
  LET withdrawal == Transit(Coinbase, "WITHDRAWL", BuybackCost, NoMoney)
      deposit == Complete(Transit(Coinbase, "DEPOSIT", Coins(rows.amount), NoMoney))
      mark == Marked(rows)
      bought == [i \in DOMAIN transactions |->
                   [transactions[i] EXCEPT !.bought = @ \/ i \in mark.transactions]]
      Buy ==
        /\ transactions' = bought \o <<Complete(withdrawal), deposit>>
        /\ Credit(Coinbase, Minus(deposit.amount, BuybackCost))
        /\ bookOrders' = [i \in DOMAIN bookOrders |->
             LET trades == bookOrders[i].trades
             IN  [bookOrders[i] EXCEPT !.trades =
                    [k \in DOMAIN trades |->
                       [trades[k] EXCEPT !.bought = @ \/ <<i, k>> \in mark.trades]]]]
  IN  /\ Room(2)
      /\ asked' = {}
      /\ \/ rows.replaced /\ UNCHANGED <<transactions, balances, bookOrders>>
         \/ /\ ~rows.replaced /\ rows.amount = 0
            /\ transactions' = Append(transactions, withdrawal)
            /\ UNCHANGED <<bookOrders, balances>>
         \/ ~rows.replaced /\ rows.amount # 0 /\ Buy
      /\ UNCHANGED <<debts, today, watchSince, paidAgain>>

\* A loan of coins comes in, and goes back.
Borrow(account) ==
  /\ Free(account) /\ Room(1)
  /\ debts' = Append(debts, [started |-> today, repaid |-> Never])
  /\ transactions' = Append(transactions,
                             Complete(Transit(account, "DEPOSIT", Debt, NoMoney)))
  /\ Credit(account, Debt)
  /\ UNCHANGED <<bookOrders, today, watchSince, asked, paidAgain>>

Repay(account, i) ==
  /\ Free(account) /\ Room(1) /\ debts[i].repaid = Never
  /\ debts' = [debts EXCEPT ![i].repaid = today]
  /\ transactions' = Append(transactions,
                             Complete(Transit(account, "WITHDRAWL", Debt, NoMoney)))
  /\ Credit(account, Minus(NoMoney, Debt))
  /\ UNCHANGED <<bookOrders, today, watchSince, asked, paidAgain>>

StartWatch ==
  /\ watchSince # today /\ watchSince' = today
  /\ UNCHANGED <<bookOrders, transactions, balances, debts, today, asked, paidAgain>>

Tick ==
  /\ today < MaxBookTime /\ today' = today + 1
  /\ UNCHANGED <<bookOrders, transactions, balances, debts, watchSince, asked, paidAgain>>

BooksNext ==
  \/ \E a \in Accounts, type \in {"BID", "ASK"} : NewOrder(a, type)
  \/ \E i \in DOMAIN bookOrders : Eaten(i)
  \/ \E a, b \in Accounts : RecordWithdrawal(a, b) \/ RecordFiatWithdrawal(a, b)
  \/ \E i \in DOMAIN transactions : Land(i)
  \/ \E a \in Accounts : EnterDrift(a)
  \/ AskBuyback \/ \E rows \in asked : EnterBuyback(rows)
  \/ \E a \in Accounts : Borrow(a) \/ \E i \in DOMAIN debts : Repay(a, i)
  \/ StartWatch \/ Tick
=============================================================================
