--------------------------- MODULE LibraryProperties ---------------------------
(***************************************************************************)
(* What works on the records of the trading and metrics databases, beside  *)
(* the strategies' libraries: one of them is the subject of a behaviour.   *)
(***************************************************************************)
EXTENDS PageProperties, AccountBooks, MetricTypes, Settings, BankAudit

\* Configuration files, in an order of their sections, and command lines.
SectionOrders ==
  {<<"platform", "midpoint_weights", "strategy", "bitstamp_btc_usd">>,
   <<"bitstamp_btc_usd", "strategy", "midpoint_weights", "platform">>,
   <<"midpoint_weights", "platform">>}

InFile(option, values) == {NoSettings} \cup {Setting(option, v) : v \in values}

SettingSubjects ==
  {[about |-> "settings", order |-> order,
    items |-> [platform |-> platform, strategy |-> strat, bitstamp_btc_usd |-> own,
               midpoint_weights |-> Setting("bitstamp", "1")],
    flags |-> flags, tickSleep |-> sleep, args |-> args] :
     order \in SectionOrders,
     platform \in InFile("emerald", {"yes", "no"}) \cup InFile("execute", {"yes"}),
     strat \in InFile("spread", {"0.05", "0"}) \cup InFile("tick_sleep", {"0", "7"}),
     own \in InFile("emerald", {"yes", "no"}) \cup InFile("market_order_fee", {"0"}),
     flags \in SUBSET {"emerald", "execute"}, sleep \in {"none", "0", "3"},
     args \in InFile("spread", {"bare", "0", "0.02"})}

(***************************************************************************)
(* What happened at two bank accounts since the last pass.  `old` is the   *)
(* statement up to then, `new` what came since: wires from exchanges       *)
(* (`of`, a deposit in transit), wires to exchanges, which somebody enters *)
(* by hand, and money in and out that is nobody's transfer.  Wires are     *)
(* entered when the bank has them, before, or not yet.                     *)
(***************************************************************************)
InTransit == {[amount |-> 3, fee |-> 0], [amount |-> 4, fee |-> 1], [amount |-> 6, fee |-> 0],
          [amount |-> 1, fee |-> 0]}
Nobodys == {}

Landing(deposit) == [type |-> "DEPOSIT", amount |-> deposit.amount - deposit.fee, of |-> {deposit}]
Nobody(type, amount) == [type |-> type, amount |-> amount, of |-> Nobodys]

NewLines ==
  {Landing(d) : d \in InTransit}
    \cup {Nobody("WITHDRAWAL", 1), Nobody("DEPOSIT", 1), Nobody("DEPOSIT", 3),
          Nobody("WITHDRAWAL", 5)}

\* Nothing lands twice, or without being in transit; one mishap at a time.
LandedOf(lines) == UNION {lines[i].of : i \in DOMAIN lines}
Possible(story) ==
  LET lines == story.new
  IN  /\ LandedOf(lines) \subseteq story.pending
      /\ \A i, j \in DOMAIN lines : i # j => lines[i].of \cap lines[j].of = {}
      /\ story.clobbered => story.byHand = 0

BankSubjects ==
  {[about |-> "bank", old |-> old, new |-> new, pending |-> pending, byHand |-> byHand,
    clobbered |-> clobbered] :
     old \in {<<>>, <<Nobody("DEPOSIT", 3)>>,
              <<Nobody("DEPOSIT", 1), Nobody("WITHDRAWAL", 1)>>},
     new \in UNION {[1..n -> NewLines] : n \in 0..2},
     pending \in {S \in SUBSET InTransit : Cardinality(S) \in 1..2},
     byHand \in {0, 3, 5}, clobbered \in BOOLEAN}

Init ==
  /\ BooksInit
  /\ \/ StrategyInit
     \/ /\ MakerInit /\ strategy = "simple"
        /\ \/ subject \in {[about |-> "books"], [about |-> "series"]}
           \/ subject \in SettingSubjects \cup PageSubjects
           \/ subject \in BankSubjects /\ Possible(subject)

Next ==
  \/ StrategyNext /\ UNCHANGED <<subject, bookVars>>
  \/ subject.about = "books" /\ BooksNext /\ UNCHANGED <<subject, makerVars>>

Spec == Init /\ [][Next]_<<subject, makerVars, bookVars>>

TradedCoins ==
  SumOf([row \in TradeRows |->
           IF bookOrders[row[1]].type = "BID" THEN Volume ELSE Minus(NoMoney, Volume)]).BTC

DriftOf(rows) ==
  SumOf([i \in {i \in rows : transactions[i].drift} |-> TransactionPosition(transactions[i])])

Owed == {i \in DOMAIN debts : debts[i].repaid = Never}

\* Loans of which the overwatch process does not know, less those it does not
\* know to be repaid.
Unseen == (Cardinality(Owed) - Cardinality(ActiveDebts(watchSince))) * Debt.BTC

\* The coins on the accounts that the watched net assets leave out, and the
\* position they discount.
NotWatched ==
  SumOf([a \in Accounts \ ListedAccounts |-> balances[a]]).BTC + CachedMultiPosition

\* What the bank shows of such a story, and the accounts before the pass.
Statement(story) == story.old \o story.new

FirstDeposit == [amount |-> 3, fee |-> 0]

BanksOf(story) ==
  <<[balance |-> 3, statement |-> <<Landing(FirstDeposit)>>],
    [balance |-> Changed(Statement(story)), statement |-> Statement(story)]>>

AccountsOf(story) ==
  LET Account(balance, pending, ledger) ==
        [balance |-> balance, ledger |-> ledger, pending |-> pending, died |-> FALSE]
      entered == Changed(story.old) - story.byHand
  IN  <<Account(0, {FirstDeposit}, IF story.clobbered THEN 1 ELSE 0),
        Account(entered, story.pending, entered)>>

\* Sums from which the bot cannot know what has landed, at an account before
\* the pass.
Ambiguous(story, account) ==
  LET statement == Statement(story)
      diff == Changed(statement) - account.balance
  IN  \/ \E n \in 0..Len(statement) :
           /\ Changed(Newest(statement, n)) = diff
           /\ n < Len(story.new) \/ (story.byHand # 0 /\ n > Len(story.new))
      \/ \E S, T \in SUBSET story.pending : S # T /\ Credited(S) = Credited(T)
      \/ \E i \in DOMAIN story.new :
           story.new[i].of = Nobodys /\ Combinations(account, story.new[i].amount) # {}

\* The amounts of new lines that are nobody's transfer.
NobodysAmounts(story) ==
  {story.new[i].amount : i \in {k \in DOMAIN story.new : story.new[k].of = Nobodys}}

\* What a pass of the bank bot makes of such a story; see StatementsExact.
BankPassExact(story) ==
  LET accounts == AccountsOf(story)
      banks == BanksOf(story)
      arrived == LandedOf(story.new)
      nobodys == NobodysAmounts(story)
      burn == \E amount \in nobodys : amount < BurnThreshold
      ambiguous == Ambiguous(story, accounts[2])
      plain == ~ambiguous /\ story.byHand = 0
  IN  \A pass \in AuditBankAccounts(accounts, banks) :
        LET completed == story.pending \ pass.accounts[2].pending
        IN  /\ story.clobbered => pass.beats = {} /\ pass.accounts = accounts
            /\ ~story.clobbered => 1 \in pass.beats
            /\ plain /\ ~story.clobbered /\ ~burn =>
                 /\ pass.accounts[1] # accounts[1]
                 /\ completed = arrived
                 /\ 2 \in pass.beats <=> nobodys = {}
            /\ ~ambiguous => completed \subseteq arrived
            /\ plain => \A next \in AuditBankAccounts(pass.accounts, banks) :
                          next.accounts = pass.accounts /\ next.beats = pass.beats

(***************************************************************************)
(* What we own is explained by what was entered.  The net assets the       *)
(* overwatch bot watches, with the coins on the accounts it does not list  *)
(* and the position it discounts, are in error by what the orders have     *)
(* traded, by what audits have entered as drift, by fees that were bought  *)
(* back a second time after an order's trades had been entered anew, and   *)
(* by loans since the bot was started; and by nothing else: transfers and  *)
(* wires under way, fees bought or outstanding, and loans it knows cancel. *)
(* The balance of an account is what its trades and completed transactions *)
(* add up to, although it is changed by what is entered and the trades are *)
(* replaced.  The page of the dashboard, which adds the ledgers of all     *)
(* accounts up from any day on, counts what is in transit and asks for the *)
(* loans of the day, ends with the same assets and explains the rest.      *)
(***************************************************************************)
NetAssetsExplained ==
  subject.about = "books" =>
    /\ -NetAssetsError + NotWatched
         = TradedCoins + DriftOf(DOMAIN transactions).BTC + paidAgain + Unseen
    /\ \A a \in Accounts : balances[a] = LedgerBalanceOf(a, 0, today, FALSE)
    /\ \A start \in 1..today :
         NetAssetsSeries(start, today)[today].BTC = NetAssets + NotWatched - Unseen

InCurrency(money, currency) ==
  [c \in DOMAIN money |-> IF currency \in {"", c} THEN money[c] ELSE 0]

Shown(table, currency) ==
  [i \in DOMAIN table |-> InCurrency(table[i].balance, currency)]

LedgerTableExact ==
  \A a \in Accounts : \A start \in 1..today :
    LET starting == StartingBalance(a, start)
    IN  \A end \in start..today : \A currency \in {"", "BTC"} :
      LET lines == TableLines(a, start, end, currency)
          table == LedgerTable(lines, starting)
          Until(t) == {i \in DOMAIN table : table[i].time <= t}
          Balance(t) == Minus(LedgerBalanceOf(a, 0, t, FALSE),
                              DriftOf(MovesOf(a, start, t, FALSE)))
      IN  /\ \A t \in start..end :
               Until(t) # {} => InCurrency(table[Min(Until(t))].balance, currency)
                                  = InCurrency(Balance(t), currency)
          /\ currency # "" => Shown(DashboardTable(lines, starting, currency), currency)
                                = Shown(OnlyCurrency(table, currency), currency)

(***************************************************************************)
(* What a ledger shows, and what is made of a bank's statement.            *)
(* The exported table of any period, of all lines or those of a currency,  *)
(* shows at the first line of every moment the balance that ledger_balance *)
(* has for it, less the drift it leaves out: the balance runs against the  *)
(* order of the lines and starts before the period.  The dashboard, which  *)
(* leaves lines out first, shows the same balances.                        *)
(* A pass of the bank bot completes the deposits that have landed, these   *)
(* only, and a second one changes nothing, unless sums are ambiguous: an   *)
(* end of the statement other than the new lines, or other deposits, add   *)
(* up to the same.  A wire entered by hand before the bank has it makes    *)
(* older lines look new, so that a deposit is completed that is still      *)
(* under way.  A large amount that is nobody's transfer waits for          *)
(* somebody; for small ones see BurnRecorded.  An account whose balance    *)
(* was clobbered stops the pass for those after it.                        *)
(***************************************************************************)
StatementsExact ==
  /\ subject.about = "books" => LedgerTableExact
  /\ subject.about = "bank" => BankPassExact(subject)

(***************************************************************************)
(* "Record any new transactions found in our bank account": "expected      *)
(* pending deposits", "unexpected deposits (reverse burn)" and "unexpected *)
(* withdrawals (burn)" (bank.py:159-164).  Where no sums are ambiguous and *)
(* what is nobody's transfer is small, the account has the bank's balance  *)
(* after the pass.                                                         *)
(***************************************************************************)
BurnRecorded ==
  /\ subject.about = "bank" /\ subject.byHand = 0 /\ ~subject.clobbered
  /\ ~Ambiguous(subject, AccountsOf(subject)[2])
  /\ \A amount \in NobodysAmounts(subject) : amount < BurnThreshold
  => \A pass \in AuditBankAccounts(AccountsOf(subject), BanksOf(subject)) :
       pass.accounts[2].balance = Changed(Statement(subject))

(***************************************************************************)
(* Every series of the table has a number of its own; a name and its       *)
(* number lead to the same series; no number from 243 on was left out, and *)
(* the rest of the block that was cut short begins where it was cut.  A    *)
(* number that is used twice would make every metric unstorable.           *)
(***************************************************************************)
LastNumber == Max(SeriesNumbers)

SeriesNumbersDistinct ==
  subject.about = "series" =>
    /\ \A s \in DOMAIN metric_types_map :
         /\ MetricTypeInt([name |-> s]) = {metric_types_map[s]}
         /\ MetricTypeInt([number |-> metric_types_map[s]]) = {metric_types_map[s]}
    /\ Cardinality(SeriesNumbers) = Cardinality(DOMAIN metric_types_map)
    /\ 243..LastNumber \subseteq SeriesNumbers
    /\ \A s \in DOMAIN AskStrengthUsdSeries :
         ~Forgotten(s) => MetricTypeInt([name |-> s]) # {}

-----------------------------------------------------------------------------
(* A story of settings is a file, its sections in the order they are read, *)
(* and a command line.                                                     *)

Sections(story) ==
  [i \in DOMAIN story.order |->
     [name |-> story.order[i], items |-> story.items[story.order[i]],
      parent |-> IF story.order[i] = "midpoint_weights" THEN "strategy" ELSE ""]]
FromCommandLine(story) == CommandLineConfig(story.flags, story.tickSleep, story.args)
Configuration(story) == Combined(FileConfig(Sections(story)), FromCommandLine(story))

Places(story, section) == {i \in DOMAIN story.order : story.order[i] = section}
Given(story, section, option) ==
  Places(story, section) # {} /\ option \in DOMAIN story.items[section]
FromFile(story, section, option) == ParseConfigurableValue(story.items[section][option])

Said(story, section, option) ==
  LET options == FromCommandLine(story)[section]
  IN  IF option \in DOMAIN options THEN options[option] ELSE "none"

Expected(story, section, option, default) ==
  LET said == Said(story, section, option)
  IN  IF Truthy(said) THEN said
      ELSE IF Given(story, section, option) THEN FromFile(story, section, option)
      ELSE IF said # "none" THEN said ELSE default

\* The strategy's option is in the file, and a zero or a no on the command line.
Contested(story, option) ==
  /\ Given(story, "strategy", option)
  /\ Said(story, "strategy", option) # "none" /\ ~Truthy(Said(story, "strategy", option))

ExpectedOfStrategy(story, option, default) ==
  {Expected(story, "strategy", option, default)}
    \cup {Said(story, "strategy", o) : o \in {x \in {option} : Contested(story, x)}}

ExpectedOwn(story, option, default) ==
  IF Given(story, "bitstamp_btc_usd", option)
    THEN FromFile(story, "bitstamp_btc_usd", option) ELSE default

(***************************************************************************)
(* Every setting reaches its object from where it was made: the command    *)
(* line's value; the file's, the exchange's own before the platform's;     *)
(* else the default.  Where the file has an option and the command line    *)
(* says zero or no, it is one of the two.  A flag that is not given leaves *)
(* the file's value.  A subsection is there if its section is not read     *)
(* after it.                                                               *)
(***************************************************************************)
SettingsReach(story) ==
  LET configuration == Configuration(story)
      wrapper == Wrapper("bitstamp_btc_usd", configuration)
  IN  /\ \A o \in DOMAIN HarnessDefaults :
           Harness(configuration)[o] = Expected(story, "platform", o, HarnessDefaults[o])
      /\ \A own \in {SimpleMarketMakingDefaults, LinearDefaults} :
           \A o \in DOMAIN own \cup {"tick_sleep"} :
             Strategy(own, configuration)[o]
               \in ExpectedOfStrategy(story, o, Updated(own, StrategyDefaults)[o])
      /\ Truthy(wrapper.use_cached_orderbook)
           <=> Truthy(ExpectedOwn(story, "emerald", Expected(story, "platform", "emerald", "False")))
      /\ wrapper.market_order_fee
           = ExpectedOwn(story, "market_order_fee", WrapperDefaults.market_order_fee)
      /\ Places(story, "midpoint_weights") = {} => MidpointWeights(configuration) = NoSettings
      /\ \A i \in Places(story, "midpoint_weights") :
           (\A j \in Places(story, "strategy") : j < i)
             => MidpointWeights(configuration) # NoSettings

SettingsComeThrough == subject.about = "settings" => SettingsReach(subject)
=============================================================================
