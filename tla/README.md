# A verification of Gryphon

Gryphon is a framework for trading on crypto-currency exchanges, written in
Python 2 and Cython. This directory holds TLA+ modules that model its trading
engine, its data service, its strategies and its books, TLC configurations that
check them on small instances, and TLAPS proofs of the properties that matter
most.

Run `tlc -config X.cfg M` for a run and `tlapm M.tla` for the proofs of a
module. `PROJECT.json` lists the runs, the lines every definition is translated
from, the hazards, and for each property a plausible bug that breaks it.

Contents: 1 the system; 2 the modules of the engine; 3 its runs; 4 its proofs;
5 the trade pipeline; 6 funds and shared accounts; 7 the wrappers; 8 the data
service; 9 strategies, books, reports and settings; 10 what is not modelled;
11 how the plan went.

## 1. The system

| component | state it keeps | operations | what makes it correct |
| --- | --- | --- | --- |
| exchange coordinator (`execution/harness/exchange_coordinator.pyx`) | `is_active`; the open orders of one exchange as rows of the session | `consolidate_ledger`, `audit`, `place_order`, `cancel_order` | the rows follow the exchange: no trade twice, none lost, no order forgotten |
| harness (`harness.pyx`) and live runner (`live_runner.py`) | tick count, signal flags | `tick`, `wind_down`, `full_audit`, recovery and shutdown loops | an exception, a signal or a restart leads back to an audited account or to a stop |
| auditing (`execution/lib/auditing.py`) | – | order, balance and ledger audit; drift transactions | an audit that passes means that the books agree with the exchange |
| order, trade, exchange, transaction models (`lib/models`) | the rows of the trading database | `was_eaten`, `was_partially_eaten`, position and balance, deposits in transit | position = trades; balance = trades + transactions |
| exchange API wrappers (`lib/exchange`) | credentials, the nonce of the last request | requests with retries, order details, audit data | what an answer says was true at some moment of the call |
| funds (`controllers/withdraw.py`, `reset_balance.py`, `deposit_landed`) | transactions IN_TRANSIT | record a withdrawal, complete or reset, match a deposit that landed | money sent is credited once; the balance column is the sum of the ledger |
| accounting (`lib/accounting`, `lib/models/exchange.pyx`, fee buyback) | ledger, loans, outstanding fees | manual entries, buybacks, net assets, ledger tables | what the reports sum up is what was entered |
| trade pipeline (`data_service`) | last published id in memory and in Redis, broker queue, trade table | poll, publish, consume with retry | every trade is stored once |
| websocket orderbooks | base book, backlog, sequence numbers, price levels | apply a change, restart | the published book is the exchange's book |
| orderbook pollers, cached books | last book in Redis, its time | poll, read | a strategy never uses an old book, nor an older one after a newer one |
| data service auditors | counters, a stop flag in Redis | compare a websocket book with an HTTP book | a wrong book stops the poller, a right one does not |
| volumes, tickers, exchange rates, backfill | tickers, trades, cached rates | poll, sum up, fill in | each trade once; a rate used is not old |
| algorithms (`lib/arbitrage.py`, `order_sliding.py`, `market_making.py`, `lib/metrics`) | – | functions of orderbooks | volumes and prices are ones the book gives |
| built-in strategies | position, order sizes | `tick` | the position stays within its bound although orders fill during a tick |
| revenue, fees, uptime (`lib/gryphonfury`) | – | functions of the trades | profits and fees of adjoining periods add up; each trade counts once |
| metric series, settings | a table; a file and the command line | look up; merge | no two series share a number; an option reaches whoever reads it |
| dashboards, bots | – | queries over the above | see sections 9 and 10 |

How they interact. `live_run` is one thread. It calls the harness; the harness
calls the coordinator of each exchange; the coordinator sends requests to the
exchange through the wrapper and works on the objects of one SQLAlchemy
session, which becomes durable at each commit. The exchange runs on its own:
orders fill and cancellations take effect between any two requests. Signals set
flags that the loop reads. Other processes (other strategies, an operator's
tools, bots) share the database, each with its own session and its own copies
of the rows. The data service is a set of processes joined by RabbitMQ, Redis
and a database of its own; strategies read its books from Redis.

What is hard: the exchange moves while the engine looks at it; a request can
fail, or succeed without an answer; an answer is put together from several
requests; an order and its position are committed separately; sessions write
whole columns they read long before; the process can die anywhere; `is_active`
lives in memory; audits assume an account at rest; messages are lost, late or
overtaken; a number that was fresh when it was cached is old when it is used;
the recovery loop must end, or at least be stoppable. `PROJECT.json`,
"hazards", lists these at their lines, with the properties that are about them.

## 2. Modules of the trading engine

```
ExchangeAccount  <-  TradingDatabase  <-  ExchangeCoordinator  <-  LiveRunner
                                                                      |
TradeBook  <- (refinement) -  EngineProperties  <---------------------+
                                |          |
                          MCLiveRunner   EngineProofs  ->  SumTheorems
```

* **ExchangeAccount** is the exchange as the wrappers show it (external code,
  modelled from how the engine uses it). `xState`, `xFilled`, `xCancel` are the
  orders' state, traded volume, and accepted but not yet effective
  cancellations. An order trades one unit at a time, whenever it likes. With
  `"lag"` in `Env` the open-order list and the details may be old; without it
  they are exact at the moment of the request. `AuditSkip` is the number of
  oldest orders that `get_order_audit_data` leaves out.
* **TradingDatabase** keeps everything twice: the session's objects (`status`,
  `trades`, `posted`, `drift`) and the rows (`db...`). `Commit` copies the
  first to the second, `Rollback` the second to the first. `posted[o]` is the
  part of the account's position that was added for order `o`; position and
  balance are sums over it, so a position that misses one order and counts
  another twice cannot look right by accident.
* **ExchangeCoordinator** has one action per request or commit. `pc` is the
  place of the engine's thread. `GetCurrentOrders` is `get_open_orders` with
  `_get_current_orders` and `handle_unexpected_orders`; `SettleEaten` and
  `UpdatePosition` are the two commits of an eaten order; of an order still open,
  `GetPartialDetails` is the request and `SettlePartial` the commit, between which
  it may trade on; the audit actions are
  the order audit with its second chance (`reopen_orders`), the balance audit
  with drift, and the ledger audit. Failures are actions of their own:
  `RequestFails`, `RecancelFails`, `LoseAnswer`, `StrategyFails`,
  `AuditRequestFails`, `AuditRequestRetried`, `CommitFails`, `ReopenRefused`.
* **LiveRunner** is the loop: `StopRequested`, `FirstTick`, `TickOrAudit`,
  `EndOfTick`; `WindDown`, `CancelNext`, `AllCancelled`; who catches an
  exception (`FastAuditFailed`, `WindDownRetried`, `ExceptionCaught`,
  `RecoveryFailed`, `TryToRecover`); how a process ends (`ShutDown`,
  `ForcedDown`, `LastCommitFails`, `Crash`) and the next one begins (`Boot`).
  `mode` is the call of the loop that is running and decides who catches what.
  The strategy may place and cancel any orders, or fail.
* **TradeBook** is the abstract specification: what the engine promises about
  its order rows, without engine, requests, processes or failures.
* **EngineProperties** states the properties and the refinement mapping.

Throughout the project, an operator beside a definition whose comment begins
with "A bug" is a plausible bug that `PROJECT.json` puts in its
place to see a property fail; no specification uses it.

### Abstractions

Prices, fees and currencies play no part in the control and are left out; an
order has a size, and position and balance are in the volume currency. All
orders have the same size. There is one exchange connection: the coordinators
of a harness share nothing but the session, except that an exception of one
sends the whole engine to recovery. `execute=False`, non-tradable exchanges and
`min_order_size` are not modelled. `exchange_retry` repeats a request at most
seven times; in the model a request either succeeds, perhaps after some
attempts, or fails for good, and a lost answer may be repeated as long as there
are order ids left. `WindDownRetried` may repeat without bound. Time is
abstract: back-off is left out, and an order's age (`reopen_orders` refuses
after an hour) is a choice when `"age" \in Env`. A strategy that completes
(`strategy_complete`) is allowed together with `"signal"`.

## 3. Runs of the engine

All runs are exhaustive. `Env` says what may go wrong in a run; the smallest
instances that show each interesting case were chosen, since the engine treats
orders alike: two orders are enough for one to be settled while another is
open, lost or partially filled; a volume of two for an order that is partly
filled when it is looked at and filled later; three orders of one unit where
lost orders pile up; an audit window that hides the older of two orders.
`AuditTick = 2` gives plain ticks as well as audit ticks.

| run | instance | shows |
| --- | --- | --- |
| `faults` | 2 orders of 2, the older one out of the audit data; failed requests, lost answers, failed commits, signals, 1 crash | `TypeOK`; `SettledOrdersExact`: a settled order has all its trades; `WarmShutdownComplete`; `AuditMeansBooksClosed`; refinement of `TradeBook` (`BookSpec`) |
| `stale_answers` | 2 orders of 2; stale lists and details, failing requests, old orders, 1 crash; tolerance 1, not a target exchange, and a wrapper on which the second chance works | `NoPhantomTrades`: no trade the exchange has not made; `OneOrderPerCrash`: a crash puts the position out of step with one order at most |
| `uptime` | 3 orders of 1, the two oldest out of the audit data, as at Bitstamp, tolerance 1; failing requests, lost answers; no crash | `OpenOrdersStayWatched`: `is_active` covers every open order; `DriftIsLostOrders`: what an audit books as drift is the trades of lost orders that it was not shown |
| `liveness` | 2 orders of 2, lost answers and signals, not a target exchange; fairness | `PositionFollowsTrades`; `EveryFillBooked`; `NeverStuck`: the recovery loop ends, and a signal stops the engine from everywhere |
| `unclean_restart` | 1 order of 2, one crash, fairness | `RestartCatchesUp` is violated |

A limit of the audits: with a bid and an ask that both went missing from the
database and cancel out, neither the order audit, when both are older than its
window, nor the balance audit can see them; nor a difference below the tolerance.
`AuditMeansBooksClosed` therefore bounds what may be hidden by the window, and says
that nothing is where the window hides one order and the balances must be equal
(`faults`); `uptime` has a window of two and shows what becomes of the difference.

**Fairness.** `WF_vars(EngineStep)`: the process has one thread, each step of
which ends (requests have timeouts). `WF_vars(Boot)`: a stopped engine is
started again, by its supervisor. Weak fairness of `CancelTakesEffect`: an
exchange gets round to a cancellation it accepted. Nothing makes an order trade
or an operator send a signal.

**What the violation says.** `reopen_orders` (`exchange_coordinator.pyx:521`)
calls `self.log`, which does not exist; the order audit's second chance dies of
an `AttributeError` that the fast audit does not catch, and after an unclean
stop with an order that traded the engine never ticks again. With
`WrapperHasLog = TRUE` in the same configuration it recovers.

Smaller divergences that are not runs: `is_active` is forgotten by a restart, so
that an exchange that is not a target may be skipped although an order of the
previous process traded there. `_place_order_on_exchange` is retried although
the first attempt may have succeeded; the second order is one the database does
not know until an audit or a list of open orders shows it.
`docs/source/advanced_features.rst:42-44` says that audits happen at the end of
every audit_tick'th tick; the code audits instead of that tick. The same page
says a balance audit raises when the drift is below the tolerance; it raises
when it is above. The comment at `exchange_coordinator.pyx:509` says that there
are no open orders during an audit; the fast audit after an unclean stop runs
while the previous process's orders are open.

## 4. Proofs about the engine

`EngineProofs` begins with `TypeCorrect == Spec => []TypeOK`: one lemma per group
of actions. The invariant carries more than types: open orders have volume left, orders
unknown to the exchange have no trades, only open orders are being cancelled.

Next come the ledger properties. Most of the forty actions do not
touch what they talk about, so `StepKinds` first sorts every step of `Next`
into a few kinds: the exchange trades or closes an order, a row is settled or
updated, committed or rolled back, or the step is quiet. Every invariant is
then proved over the kinds only.

* `NoPhantoms`: `Spec => []NoPhantomTrades`, for all constants and every kind
  of trouble. Not inductive alone: the details in memory were answered earlier,
  so the invariant adds that they are at most `xFilled`.
* `SettledExact`: `Spec => []SettledOrdersExact`, for fresh answers and the
  code as it is (`AsItIs`: no `"lag"`, no attribute `log`). The inductive
  invariant `LedgerInv` adds: an order that is being settled (`eaten`) is closed
  on the exchange; its details, once requested, are exact; settled orders are
  exact in the session as well as in the rows; an order with a row exists. It
  holds through failed requests, failed commits, crashes and signals. With
  stale answers it is false; with a second chance that works, an order can be
  settled while it is still open, by the fast audit after an unclean stop.
* `Implements`: `Spec => BookSpec` under the same assumption: initial states
  map to initial states, every step to a step of `TradeBook` or a stutter.
* `PositionExact`: `Spec => []PositionFollowsTrades` when neither commits nor
  the process fail, for every other trouble.

The second half of the module goes on from there, to what may be left behind.

* `WoundDown`: `Spec => []WarmShutdownComplete`, and `AuditedClosed`:
  `Spec => AuditMeansBooksClosed`, under `AsItIs`. Both go along `WindDownInv`,
  which says what each label of `pc` knows about the exchange: from the moment the
  list of open orders is compared with the ledger, what is open is among
  `current`, and what is OPEN is among `current` or still to be settled;
  `wind_down` goes on only with nothing current; an audit without it is the first
  thing of a process, whose exchange is not active yet. Only labels that claim
  something (`WatchedLabels`) need a case of their own, all the others hold by
  `ElsewhereHolds`. In `AuditedClosed`, the hidden orders are among those the data
  leave out (`HiddenFromAudit`, `FewUnaudited`); where that is one order at an
  exchange of no tolerance, its volume cannot be wrong without the sum of the
  position being wrong (`NetTells`).
* `StayWatched`: `Spec => []OpenOrdersStayWatched`, and `TradingWithoutDrift`:
  `Spec => []DriftIsLostOrders`, for an engine that is neither stopped nor killed
  and whose commits succeed (`Undisturbed`), whatever the audit data leave out.
  `WatchInv` adds to `WindDownInv` that an order placed on an active exchange is on its
  way to the database, and that every audit finds nothing open. Requests may
  fail and answers get lost. A balance is then off by the hidden orders alone
  (`DriftOfHidden`), and a lost order stays as it is (`LostStaysLost`).
* `CrashesCostOneOrder`: `Spec => []OneOrderPerCrash` unless commits fail, however
  stale the answers. `CrashInv` counts the orders out of step in the session and
  in the rows, apart from the one whose change is between the two commits.

The balance audit compares sums over the orders. `MapThenSumSet` is a fold, of which
no induction principle can be had here; `SumTheorems` has what all the proofs of this
project need of sums, of maxima and of minima of finite sets. `Sums` says what the
equations of a sum are, `SumsExist` that there is one, `OneSum` that there is only
one, `TotalWithout` that it does not matter which element is taken first, `SizesAddUp`
that a set has as many elements as its parts; each is shown by the smallest set for
which it fails (`LeastNumber`, from `WellFoundedInduction`).

Only model-checked: all liveness (out of the prover's reach).

## 5. The trade pipeline

```
TradePipeline  <-  PipelineProperties  <-  PipelineProofs
```

**TradePipeline** models how trades get from an exchange into the trade table of
the data service. Three parties run side by side.

* The poller's process is `TradesPoller` with its `TwistedProducer`. `Poll(n)` is
  `parse_response` up to `redis.set`, the first thing it waits for: Twisted runs
  it without interruption. `recent` and `saved` are `most_recent_trade_id` in
  memory and in Redis. `conn`, `ready`, `number` and `deliveries` are the
  producer's attributes; `ConnectionCloses`, `Reconnect`, `ProducerOpened` and
  `ConnectFails` are the callbacks of its connection. `Publish` without a channel
  changes nothing, as in the code, which logs and returns.
* The broker (external) has the messages on the `wire`, the durable `queue` and
  the confirmations it still has to send. It refuses a message only with
  `"nack"`.
* The consumer's process is `QueueConsumer` with `trades_consumer_function`.
  `Store` and `StoreFails` are one attempt of `on_message`, whose commit fails,
  or succeeds without an answer; `Retry` is its call of itself, `Dies` the exit
  after the last attempt. `Acknowledge` removes the message. `link` is false
  from the broker's closing of the connection until the process has noticed.

A trade is its number and its id; prices and volumes play no part. The
`Window` newest trades are an answer, and with `"stale"` an answer may be an old
one. `missed` is a history variable: the trades that were already out of the
answers when the poller looked. Messages are acknowledged in order since
`on_message` blocks. When the poller dies, what it wrote to the socket still
arrives, unless the connection may be lost too (`"close"`). Bounds: `MaxTrades`,
`MaxTroubles` (faults in one behaviour) and `MaxAttempts`, 600 in the code.
Stopping on purpose (`stop`, `close_channel`) is left out; it ends as a crash does.

| run | instance | shows |
| --- | --- | --- |
| `pipeline` | 3 trades, answers of 2, two faults, fairness, in either of two surroundings: crashes of both processes, lost connections of the consumer, failing commits, a failing Redis; or these and also lost connections of the producer, refused messages and old answers | `QueuedUntilStored`, in the first surroundings also `SeenIsPublishedSafely`, `ConfirmationsExpected`, `StoredInOrder`, `EveryTradeStored` |
| `trades_dropped` | 2 trades, one lost connection of the producer | `SeenIsPublished` is violated |

Three trades with a window of two are the smallest instance in which a trade is
missed while another is on its way and a third is new; two faults allow a crash
during the recovery from another. The system may stop where the broker cannot be
reached, and deadlock is not checked: a producer that could not connect never
tries again. `Envs` is the set of surroundings, each the faults that may happen,
and `env` one of them, chosen at the start. The properties name what they need
of it: `SteadyBroker`, `SafeBroker` and `Prompt` of `PipelineProperties`.

**Fairness.** `LoopingCall` polls for ever, the callbacks of Redis, of the
connections and of the broker come, the consumer goes on with its messages, and
a supervisor restarts a process that died. Nothing makes the exchange trade, and
nothing obliges the broker to confirm.

**What the violation says.** `on_connection_closed` (`twisted_producer.py:103`)
takes the channel away and leaves `ready` true. For the five seconds until the
reconnection `publish_message` drops what it gets, while `parse_response` moves
`most_recent_trade_id` on and saves it: those trades are never asked for again.
Trades on the wire are lost as well: confirmations are counted, not waited for.

Smaller divergences that are not runs: the "Trades Missed" entry
(`trades_poller.py:61`) compares ids after the loop has advanced
`most_recent_trade_id` and cannot see the gap it is about; a reconnection that
fails is not tried again although `twisted_producer.py:15` says that the class
reopens a closed connection; message numbers go on counting after a
reconnection while delivery tags start again at 1, so that confirmations no
longer find their numbers. With old answers and a crash of the poller, rows may
be added out of order.

**Proofs.** `PipelineProofs` goes along `TypeOK /\ Delivery`: the consumer works
on the front of the queue (`inbox` is a prefix of it while the connection
lasts), and a message about to be acknowledged is stored. Together they are
inductive, for every trouble. `DeliveryKinds` first sorts the steps: the queue
grows at its end, loses an acknowledged message, a message is delivered or
stored, or nothing of this changes.

* `PipelineTypes`: `Spec => []TypeOK`.
* `Durable`: `Spec => QueuedUntilStored`, for all constants and every trouble.
* `NothingForgotten`: `Spec => []SeenIsPublishedSafely`, which is about a broker
  that neither closes the producer's connection nor refuses messages
  (`SafeBroker`). It adds that then a poller that runs is connected whenever it is ready
  (`Connected`), and that what is underway never shrinks (`UnderwayGrows`, from
  `Delivery`). Crashes, redeliveries and failing commits are included.
* `ConfirmationsFound`: `Spec => []ConfirmationsExpected`, which is about a broker
  that does not close the connection: numbers and delivery tags count alike from the start of
  each process.
* `RowsInOrder`: `Spec => StoredInOrder`, which is about a safe broker and answers
  that are not old (`Prompt`). The invariant orders the whole line of
  the messages: what is stored, the inbox, the rest of the queue and the wire
  increase, apart from a redelivered front that is stored already, and
  everything is below what the poller publishes next.

Only model-checked: the liveness property `EveryTradeStored`.

## 6. Funds and shared accounts

```
FundsTransfer  <-  FundsProperties  <-  MCFunds
                                    <-  FundsProofs
```

**FundsTransfer** puts several processes on the rows of the accounts: engines,
each trading on an account of its own, and an operator's tool
(`controllers/withdraw.py`, `reset_balance.py`, `transaction_complete`). `rows`
is what is committed; `sess[p]` is a session: a snapshot of the rows (`db`),
what it wrote, what another session has changed since (`stale`, `overtaken`).
`Begin` opens a session, `Commit` writes every column that was touched, and
writes it whole: position and balance are JSON columns (`exchange.pyx:57`), so a
value read long ago takes another session's update away. `mislaid` is the
history variable that counts what was taken away so: of each balance the coins, and
of each transaction how often it was added.

A transfer's coins are `"home"`, `"moving"`, `"landed"` or `"returned"`; when
they move and when they land is the exchanges' choice. The tool records a
withdrawal (`RecordWithdrawal`: a withdrawal and a deposit transaction, either
before or after the coins have left), completes, cancels or resets. The engine
books its fills, and in an audit compares the balance with the exchange's and
asks `deposit_landed` whether a set of deposits in transit explains the
difference (`exchange.pyx:274`).

| run | instance | shows |
| --- | --- | --- |
| `funds` | accounts X (with an engine) and Y; 20 coins from X to Y, 60 dollars from Y to X, with fees; one fill, three uses of the tool, one failing commit; fairness | `LedgerAgrees`, `DepositsFollowCoins`, `RecoveryHearsTheTool` |

Two transfers in opposite directions and currencies let a deposit land while a
withdrawal of the same account is sent or recorded; three uses of the tool allow
two transfers and a repair. `LedgerAgrees` exempts no account: balance and ledger
differ by `mislaid`, to the coin, whether a stale column took a trade back or a
status was written twice. The amounts of the run can be told apart
(`Distinguishable`). That is not given: `create_uniquifier`
(`crypto_balancing.py:23`) makes such amounts, but nothing calls it on the way through
`withdraw.py`. Where two sets of transfers come to the same sum, `deposit_landed`
may complete the one that has not landed, and `DepositsFollowCoins` does not hold.

**Fairness.** Weak fairness of each engine's steps, as in section 3, and of the
tool's end: it commits or quits. Nothing makes an operator enter anything;
`RecoveryHearsTheTool` assumes that the accounts are in order from some time on.

**Proof.** `LedgerAgreesAlways`: `Spec => []LedgerAgrees` for all accounts,
transfers, amounts and failures. `LedgerInv` says of each session how its copy stands
to the one it was read from: balance and ledger of an account have changed by the
same, and so have a transaction's count and its status, unless the account was
reset. What a commit overwrites is then the difference between the rows and the
copy it was made from. Amounts are sums over folds, so this proof never looks
into them: it only moves equal terms.

`DepositsAlwaysFollowCoins`: `Distinguishable => (Spec => DepositsFollowCoins)` for
any finite number of transfers, any amounts, fees and tolerance. The condition is
the theorem's hypothesis and not an assumption about the constants, since the code
does not see to it. The proof needs to look into the sums, in three parts.

* *Sums.* Their equations, and that the order of the summands does not matter, are
  in `SumTheorems` (section 4); that a sum of zeros is zero is `NoneOdd`.
* *The difference an audit sees* (`DifferenceIs`, `DriftIs`): the exchange's
  balance less the row's, with the deposits in hand taken off, is what trades
  have not been booked plus one sum over the transfers, in which a credit has
  how often the deposit is `Missing` and a debit how often the withdrawal is
  `Untimely`.
* *The invariant* `CoinsInv`: in the rows and in every session's copy a
  transaction has been counted -1, 0 or 1 times, as its status says, a deposit
  counted or completed has landed and a cancelled transfer has come back
  (`EntryFits`), so both coefficients are -1, 0 or 1 (`MismatchSigns`). What a
  session has changed, and what it has not, stands to the rows in an order that
  survives any other session's commit (`Entered`, `Kept`): statuses only go
  forward, and of two sessions that change the same transaction one is an
  engine's that completes it. This is needed since a commit writes the statuses
  it touched and the whole balance, and may so put a count next to a status that
  comes from another session.

An audit that finds a set within the tolerance of the difference has, by
`Distinguishable`, found coefficients that are all zero (`Explained`): the
deposits it completes have landed, no landed one is left in transit, and the
drift it records is the part of the trades that the balance did not have.

Only model-checked: `RecoveryHearsTheTool`, a liveness property. Left out of this
module: several currencies in one account (see `AccountBooks`, section 9), the
position column, Gemini's rounding of withdrawals.

## 7. The wrappers of the exchanges

```
ExchangeWrappers, ApiRequests  <-  WrapperProperties  <-  WrapperProofs
```

* **ExchangeWrappers** is one wrapper of six (`venue`: Bitstamp, Coinbase,
  Gemini, ItBit, Kraken, Quadriga) at work on an account that goes on trading,
  closing orders and settling fills between any two of its requests. One action
  is one request; `asked`, `got` and `since` hold what the call has in hand, and
  `answer` what it returned together with the moment each part was fetched. The
  calls are order details with trades, open orders, balance, cancellation and
  audit data, each with the venue's own requests, pages, sorting and parsing.
* **ApiRequests** follows an authenticated request from `req` to `resp`: the
  key it uses, its nonce, the workers of the session, retries, and the way
  through the network, for an engine and a second process with the same key.
  And it has what is sent for an order: the rounding of its price and volume
  when it is recorded and when it is formatted.

| run | instance | shows |
| --- | --- | --- |
| `wrappers` | one of three parts at work. Calls: each venue, 3 orders of 2, 2 open at once, pages of 3 trades, details asked for one or two orders a request. Requests: two processes, clock up to 3, a sleep of 1, 3 requests under way for any time, 2 attempts. Orders: prices in quarters of a cent 0..79, volumes in quarters of a satoshi 0..7 | `AuditDataExact`, `AnswersOfTheMoment`, `SentAsRecorded`, `OvertakenOnly` |

A page of three with orders of two is the smallest page that an order reaches
over; three orders leave one beyond the two that the audit drops. The run ends
where its bounds are reached, so deadlock is not checked. Requests have no timeout
and may be under way for any time, also after something in between has given up on
them and they were retried. So the sleep of 0.2 s in Quadriga's `req`
(`quadriga_btc_cad.py:57`, "Unfortunately necessary due to nonce errors") does not
rule a nonce error out where the details of several orders are asked for at once,
and `OvertakenOnly` says what it does; at the venues where a call is one request
there is none with any delay, Kraken's sleep (0.1 s) or not.

Proved in `WrapperProofs`, for all values of the constants:

* `SentAsRecordedAlways`: `SentAsRecorded`, from the lemma `SentIsRecorded`, which
  is about all integers and not only the prices and volumes of the run. What it
  rests on is that a recorded price is a multiple of the venue's unit, so that
  rounding or formatting it once more changes nothing (`RecordedOnce`), while
  formatting a volume moves it by at most half a unit (`NearestIsNear`).
* `OnlyOthersOvertake`: `OvertakenOnly`, for requests that take any time, any number
  of attempts and any clock. The invariant `RequestInv` has two parts. A client that
  makes one request at a time has the newest nonce that the exchange knows of it,
  and those of all it no longer waits for, older than what it waits for, and than
  what it can send next (`Past`, `OneByOne`). One that sleeps after each has any two
  that are under way, and the newest accepted, apart by the sleep (`Spaced`), so that
  one which is overtaken has been on its way for as long. TLC refutes the property
  without the sleep (its mutant).

* `AuditDataExactAlways`: `AuditDataExact` for any number of orders and trades, if at
  most two orders are open at once (`MaxOpen <= 2`), which is what the code says when
  it removes two (`gemini_btc_usd.py:388`). The invariant behind it is `EdgeInv`: the
  orders that trade on both sides of an edge between two trades were all open
  there, so there are no more of them than can be open. A third one with trades over
  the edge of the page would be one too many (`OverTheEdge`). That no more than two
  are left out needs only that the removal has a key that tells orders apart
  (`RemovesTwo`), which the place of the newest trade is as well (`LastTradeKeys`).
  For Kraken `ListInv` says that the list read so far is complete from its offset on
  although it grows meanwhile: the offset counts from the newest.
* `AnswersAlways`: `AnswersOfTheMoment`, if the fills of an order fit on one of
  Coinbase's pages of 100 (`Volume <= Page` where Coinbase is among the venues;
  otherwise unsettled fills, which do not count, may end the reading early).
  `DetailsInv` says of each order what the answers in hand are worth, and
  `KnownStays` that trading in between does not take that away; a balance with
  orders open is lower because each open order holds something (`HeldSign`, by
  the least set of orders for which it fails).

The invariants `CallsInv` and `RequestInv` were checked by TLC on the instance of the
run before they were proved. Nothing of this module stays with TLC alone.

What the properties had to leave room for, each a peculiarity of the code:

* audit data: time-sorted trades (Coinbase, Quadriga, ItBit) leave long-lived
  orders with less than their volume; Coinbase's loop over fills ends early when
  unsettled ones are skipped; Bitstamp's is always empty (`type == 2` compares
  with an integer);
* details: made of the newest page only; at Kraken a missing order raises, or
  takes the type of the one before, and a ledger that lags raises `KeyError`;
* balance: Bitstamp, Coinbase, Gemini and ItBit return the *available* amount;
* errors: Gemini's `resp` makes every error an `InsufficientFundsError`, so that a
  refused nonce is not tried again; ItBit's nonce is the constant 1; Kraken's
  two pairs and Bitstamp's pairs have keys of their own, while Gemini's pairs
  share one and refuse each other when all balances are asked for at once;
* Coinbase repeats a request after "internal server error" although the order
  may have been placed; its CAD wrapper's `load_env` has no such attribute;
* `'%.8f'` rounds to the nearest and so may send more than the volume that was
  truncated before, contrary to the comments at other wrappers.

OKCoin and Bitfinex are left out: they still call an interface the base class no
longer has (`_load_env`, `_order_mode_to_const`) and cannot be constructed.
Signatures, tickers and the requests for withdrawals are input and output.

## 8. The data service

```
CoinbaseFeed, OrderbookAuditor, CachedBook, LevelFeed,
VolumeHistory, TradeBackfill, ExchangeRates, TradeAnswers
                 <-  DataServiceProperties  <-  DataServiceProofs
```

The parts share no state but the auditor's stop flag, so a behaviour of the run
`feeds` is one part at work (`part`, `history`); the other parts stand still.
The reach of the state space is then the sum of the parts, not their product.

| module | models | bounds in `feeds` | property |
| --- | --- | --- | --- |
| `CoinbaseFeed` | the sequenced websocket feed: changes, gaps, base orderbook over HTTP, backlog, restarts while an older base is still under way | 2 orders, 5 changes, 1 gap, 2 chains of base requests | `BookFollowsStream` |
| `LevelFeed` | the Bitstamp and Bitfinex feeds of price levels: base, backlog by time, pause by the auditor, Bitstamp's clock ahead of ours or behind it | 2 levels, 3 ticks, 3 changes, clocks apart by 1 | `LevelsFollow` |
| `OrderbookAuditor` | audits that overlap, soft, incomplete and hard failures, their counters, the flag in Redis | 1 soft, 2 incomplete, 4 fetches | `StopsForCause` |
| `CachedBook` | the poller's loop, the cached book and its use by a strategy | time 7, answers after at most 2, 2 requests | `UsedIsRecent`, `NeverBackwards` |
| `TradeAnswers` | what nine exchanges' pollers make of an answer: ids, order, which trades are new | 3 trades, 4 moments, 2 polls | `RecordedAsTraded` |
| `VolumeHistory` | volumes of periods, hours and days from tickers, trades or Bitcoinwisdom; the volume pollers; the audit of trades | days of 4 units, hours of 2, now = 10 | `RecordedAsTraded` |
| `TradeBackfill` | the script that fetches old trades, cut short and started again | 5 ids, 7 to 11, in 3 seconds; a commit every 2; 3 runs | `BackfillComplete` |
| `ExchangeRates` | rates from Redis through memcache and a process's own cache | threshold 2, cache time 2, 2 processes, time 7 | `RateNotOld` |

Orders and price levels are interchangeable, and nothing orders them: symmetry
is sound. Ids 7 to 11 cross a change in the number of digits, on which the
script's ordering of text ids turns. Nothing is claimed to happen eventually, and
the run ends where the bounds are reached, or in states that are only arguments
of functions: deadlock is not checked.

**Proofs** (`DataServiceProofs`). The theorems are about `ServiceSpec`, the
specification of the whole section: `PartsStart` and `PartsStep` reduce it to the
parts, each of which takes a step of its own or none. All hold for every value of
the constants.

* `RateNeverOld`: `ServiceSpec => []RateNotOld`. `RateInv` bounds the age of rates
  along their way: less than the threshold when they enter memcache, a time in
  memcache more when a process makes its entry, and that long again when it is
  used. The two limits are at least 1, as in the code.
* `StoppedForCause`: `ServiceSpec => []StopsForCause`. `AuditorInv` says that the
  counters are what the verdicts since the last success add up to (`Counted`), that a
  cause is found when its verdict is given, and that only a start brings the feed back.
* `UsedIsRecentAlways` and `NeverBackwardsAlways`: the loop has one request, at the
  exchange or being stored (`OneAtATime`), and what is under way is newer than what
  is cached (`Ages`).
* `LevelsFollowAlways`: `ServiceSpec => []LevelsFollow`. While no message has been
  dropped, the messages on their way, the backlog and what was handled are
  consecutive changes (`Undropped`). The skew of Bitstamp's clock is any number: a
  change that the base does not have and that is taken for older than the base is
  `passedOver`, and the theorem is about the levels without one. Bitstamp may apply changes again that the base
  has: until the messages reach the base's moment, each level is still the base's,
  or right on the side it shows (`Stale`, `Fits`); from there on the book is the exchange's.
  The fold over the backlog is taken apart message by message (`Replays`,
  `WorkedFits`), with the least message at which it would fail.

* `BookFollowsAlways`: `ServiceSpec => []BookFollowsStream`. Messages come in order
  and after all that were handled (`InOrder`), and the exchange's log is legal: an
  order opens once, after it was received (`LegalLog`). Of the messages since the
  first, those up to some `t` have been worked on and the later ones are the backlog
  (`WorkedUpTo`); each order that nothing disturbed is `Good` at `t`: up to the base it
  has the base's volume, after it the volume at `t`, or 0 for an `Orphan`. That an
  `Orphan`'s `open` raises in the middle of the backlog is why `t` is not simply the
  current message. `Free` is the case in which a rejected base has lowered
  `orderbook_sequence_number` below the first message, so that changes older than
  the base are applied again; they are harmless, for each order's changes end at
  the base's volume. `WorkedDown` takes the walk over the backlog number by number. Nothing is
  claimed, and nothing holds, of a book that a restart is about to reset
  (`BookInv`).

`BookFollowsStream` was once stated more strongly, and TLC found no fault within the
bounds of the run. It is false beyond them: two restarts leave their messages, which are
older than the first one, in the backlog; a base is accepted; the answer to another
request, older than the two messages, comes late and is rejected, but its number is
stored all the same (`parse_response` stores it before it compares), and the next message
applies the two old ones to the newer book. It takes 7 changes, 2 gaps and 3 chains of
base requests. The attempt to prove the invariant found it; the property now counts
these messages among those that are out of their place (`skipped`).

* `BackfillAlwaysComplete`: `ServiceSpec => []BackfillComplete`, for any archive and any
  number of runs. `Backfilled` says where each older trade is: still to be written, in
  the session, in the table, or left out by a later run for one of its own rows of
  the same second. Rows are written newest first, so whatever a cut leaves in the
  table, the trades newer than a row are there too (`NewestFirst`), and the next run may
  begin at any of its rows. `ComesFirst` picks the next trade from a set, as the
  stable sort of the code orders them.

* `RecordedAlwaysAsTraded`: `ServiceSpec => []RecordedAsTraded`. What it says of the
  volumes and of the answers is proved of more than the run's histories, as
  `ArchivesTellTheTruth`: of any archive with finitely many trades, some of them
  missing, whose tickers have the rolling volume of their moment (`Archived`), of finitely many markets, and of
  any sequence of trades of an exchange, of which a first poll sees some
  (`TradesAnswered`). The argument is counting. A rolling volume is the count of
  the day before, so two tickers tell the count between them (`DayIsExplained`);
  Bitcoinwisdom's steps are apart and fill the period (`WisdomIsMade`); the hours of a
  day are apart and fill it (`HoursCount`), and what is summed over hours or markets is
  the size of a set that falls into these parts (`TotalsAre`). When the audit
  alarms without cause, the newest ticker is no older than the audit allows, and
  its day has neither lost nor gained a trade since (`AlarmIsExplained`). Of the
  answers, `PublishedIs` says which trades a poll publishes after one that ended
  at an id, `NewestIs` which id it keeps, and `OvertakenIsNear` that an exchange whose ids
  are times leaves out only trades that share the id of one it has seen.

What the properties had to leave room for:

* Coinbase: an order received before the base and opened after it is unknown and
  its `open` raises `KeyError` (`Orphan`); a second base replaces the book and
  loses the changes since; a restart's own message is applied late; a rejected base
  still lowers `orderbook_sequence_number`; `received_orders` of orders that
  never open are kept for ever. `get_orderbook_to_publish` raises `TypeError` for
  any book that is not empty, so nothing of the feed is published, and
  `OrderbookPollTask` starts the pollers instead;
* Bitstamp and Bitfinex notice no gaps: messages dropped while the feed is
  stopped are never made good; without Bitfinex's base every later message
  raises. When Bitstamp's clock is ahead of ours, a change that came after the base is
  passed over as older, and its level stays wrong until it changes again;
* auditor: a hard failure before the connection to Redis is lost; a book too thin
  to compare counts neither as success nor as failure;
* pollers: the time stamp is that of parsing, so that a slow answer adds to the
  age of the book; `log_response_error` swallows errors and the heartbeat stays
  fresh; `LoopingCall` waits for the answer, without a timeout;
* trades: Quadriga's ids are milliseconds, and Kraken's `int(float * 10000)` comes out
  one too small for about one moment in ten, so that two trades may share an id
  and the second is lost; `OkcoinVolume` asks for another pair;
* backfill: the script knows the exchanges by names ('BITSTAMP') that the pollers
  no longer record; ids are compared as text; a second run may take the first
  one's rows for ours;
* volumes: a ticker volume for several days uses the first day each time and may
  add `None`; the audit of trades alarms for trades that moved in or out of the
  day between ticker and audit. `HeartbeatAuditor` watches names nobody writes,
  `TradesAuditor` without exchanges beats all the same, `TradesVolumeAuditor` is not
  started;
* rates: `cache_me` stores what it finds in memcache for the whole time again, so
  that a rate lives twice as long.

## 9. Strategies, books, reports and settings

```
Orderbooks <- Quoting      Orderbooks <- Arbitrage <- Revenue <- DashboardPages
StrategyProperties  --->  Quoting, Revenue, Reports, MarketMaker
PageProperties      --->  DashboardPages, StrategyProperties
LibraryProperties   --->  PageProperties, AccountBooks, BankAudit, MetricTypes, Settings
LibraryProofs, BooksProofs  --->  LibraryProperties, SumTheorems
```

Most of this code computes something from its arguments. Such functions are
operators, and a set of arguments is an initial state without steps (`subject`);
the properties compare what the operators give with a definition that does not
follow the code: the best of all ways to fill a volume, the trades that closing
a position would make, a sum over everything that was entered. Two subjects run:
the market maker and the accounts' books.

| module | models | property |
| --- | --- | --- |
| `Orderbooks` | parsing, cutting, taking our own orders out, price quotes, volume at a price, strengths, midpoints | `LevelsGiveIt` |
| `Arbitrage` | the walk along two books and what of a cross can be executed | `LevelsGiveIt` |
| `Quoting` | sliding an order behind others; prices around a midpoint; fundamental value; position responsive sizes | `QuotesStayApart` |
| `MarketMaker` | the tick of the simple and of the linear market maker, with fills and failures anywhere, and placements whose answer is lost and which are tried again | `PositionBounded` |
| `Revenue` | matching of trades, profit units, revenue and fees of a period (fast and legacy), what closing the position would bring | `ReportsFit` |
| `Reports` | fees by exchange and currency, wire fees, uptime | `ReportsFit` |
| `AccountBooks` | ledger, loans, fee buybacks, drift, wires; net assets and ledger tables of overwatch and dashboard | `NetAssetsExplained`, `StatementsExact` |
| `DashboardPages` | a strategy's page: volumes, positions, profit and revenue of a period, and the overwatch bot's checks of profits; the page of orderbooks with our orders on them; the page of the exchanges' trades | `ReportsFit` |
| `BankAudit` | the bank bot's pass: new lines of a statement, deposits that landed, burn, heartbeats, commit | `StatementsExact`, `BurnRecorded` |
| `MetricTypes` | the table of metric series and its lookup | `SeriesNumbersDistinct` |
| `Settings` | sections of the file, the command line over them, what harness, wrappers and strategies take | `SettingsComeThrough` |

**Bounds in `strategies`.** Books with three prices (3, 4, 6: an uneven gap) and
volumes up to 2; our own orders in the book, or not yet; histories of up to four
trades of up to three units, with prices and fees that tell the trades apart; two
venues' books with two orders a side, weights in halves; fee rows in pairs,
orders placed at five moments. Market maker: base volume 2, maximum 3, multiplier
2, and orders for up to 2 coins whose answer is lost (`MaxLost`: one placement of the
usual size, or two of one coin). Account books: two accounts, of which one buys fees back, at most 2 orders
with 2 trades, 4 entries, 2 days. Pages: hours of 2 ticks, days of 4, and
periods longer than 2 counted by days; trades below 2 are rounding errors; books are
recorded at any of five moments, and their prices are tenfold on the page, so that an
infinitesimal of 1 and a width of 40 tell cases apart. Bank: two accounts, old and new
ends of a statement of up to two lines each, up to two of four deposits in transit
with equal and added sums among them, a wire entered by hand or none. Settings: three orders of the sections, options
with true, false and absent values in file and command line. Function subjects
have no steps, so deadlock is not checked.

The run `burn_lost` has the same subjects and one property, `BurnRecorded`: where no sums
are ambiguous and what is nobody's transfer is small, the account has the bank's balance
after the pass. **It is violated.** The docstring of `record_transactions`
(`bank.py:159-164`) lists "unexpected withdrawals (burn)" among what is recorded, and the
comment at `exchange.pyx:223`, "We don't have exchange objects for bank accounts", goes with
a test for a missing wrapper. But `make_exchange_from_key` raises for a bank account
(`exchange_factory.py:223`) instead of returning nothing, and no caller catches it: the
process ends at every pass, and what landed at the accounts before is lost with it, though
their heartbeats are out. `StatementsExact` says nothing of passes with such an amount.

`MetricTypes` makes up a large part of the mapped lines (about 1,800): the table is
data, written as the blocks of names it consists of. Its one property is about
the whole of it.

**Proofs of the libraries** (`LibraryProofs`). `MakerStaysWithin`, and `LibraryStaysWithin` in the
specification of the run: the position and the order that
adds to it stay within the maximum plus one order and what variable sizing allows,
`2 * Multiplier * Base - Base`, and what was ordered on that side with an answer that got
lost, for all sizes, wherever in the tick orders fill and whatever fails. The invariant follows the phases of a tick: how far the position
may be from the one in the database until the next order of that side is sized.
The docstring of `super_simple_market_making`, "we should never be offering an
order that would take us past our maximum if it were filled", is not true: the
bound is reached. An order whose answer is lost has no row (`exchange_coordinator.pyx:300`,
`354`): its trades never enter the position by which the next orders are sized, and
the retry places a second one. `Strays` says that it costs no more than its own volume, on
its own side. That an order with a row has its trades booked at the next tick is what
sections 3 and 4 are about.

`SlidesBehindWalls` and `QuotesNeverCross` say of all books, prices and limits what
`QuotesStayApart` says of those of the run: the first is the predicate `InFront`, which is also
what `SlidesInFront` checks of every book of the run; the second is about the two
prices of a tick of the linear market maker. They assume what parsing gives, sides that
have an order and are sorted (`BestFirst`), positive prices, a spread of less than the
whole price, and of a slide that it has a limit (see below for what happens without).
`FirstWallIs` is the argument: the first order behind the price that is worth hiding
behind is the best of them. A theorem about `QuotesStayApart` itself would also need
what sorting and sums over a book compute, which is induction over data.

`SettingsAlwaysReach`: what `SettingsReach` says of a story, the precedence of command
line, own section, platform and default, with either value where one of the command
line that is zero or no meets the file's, holds of every file and command line of which
`Configured` is true. That is little: a section is read once (the parser has merged
those of one name), none is called `exchanges`, the key under which the code collects the
exchanges' sections, no text is the one that stands for None, and the subsection of
midpoint weights has an option and no option of its section or of the command line has
its name. The argument follows the reading (`Reads`): what has been read after each
section is, for every section that has come, its items and, for the strategy's, the
subsection if that came last (`ReadRight`); the first section at which this fails gives a
contradiction. `SettingsAlwaysComeThrough` is the invariant of the run: its stories are
of this kind (`StoriesConfigured`), and no other subject is about settings.

**Proofs of the books** (`BooksProofs`). For any accounts and any number of orders,
trades, transactions and loans, `NetAssetsAlwaysExplained`: `Spec => []NetAssetsExplained`:
the error of the watched net assets, the balance columns and the dashboard's series. The
watched net assets have the balance of the first account alone, so what the theorem
explains is their error together with the coins on the other accounts (`NotWatched`). It
is not inductive: a buyback marks what its prompt has read some operations ago, and
the balance columns are only ever added to. `BooksInv` says, beside types
(`BooksTypeOK`: what was entered was entered by now, and a withdrawal in transit moves no
coins), that

* the rows at the prompt are still outstanding, unless some were replaced, and the amount
  asked for is that of their fees (`AskedTrue`);
* each balance is the sum of what every trade and completed transaction moved
  (`Accounted`);
* the coins of all accounts, and what every entry leaves to be explained, add up to the
  fees paid again and the coins owed (`Explained`). A trade leaves its fee, if that was
  not bought back, less the coins it traded; a transaction its fee, what is under way, less
  its drift.

So the three are sums over the entries in which a trade weighs by its account, side and
mark (`WeighRows`), and a transaction by its own row (`Weigh`). There is a lemma for each
way the entries change - one more (`WeighMore`, `RowsMore`), one replaced (`WeighOther`), an
order's trades entered anew (`RowsAgain`), some marked (`WeighMarked`, `MarkedWeigh`) - and
an operation keeps the books right when its credit is what it adds. `BooksAlwaysRight`
has an operation a lemma. From the invariant, `NetAssetsAre` takes the sums apart again into
outstanding fees, transit, drift and loans, as the overwatch bot asks for them.
For the dashboard, ledgers of adjoining periods add up (`LedgersSplit`: this is where a
period is open at its start), so the recursion from day to day gives what the whole ledger
does (`SeriesIs`, by the first day on which it would not), and the pending deposits of the
accounts are all that is under way (`AllUnderWay`).

The proofs assume a finite set of accounts with Coinbase among them, and a positive bound
on the trades of an order (`BooksAssumption`). The amounts are those of the model: what
an order trades, costs and moves at a time is fixed there, so the theorems are about which
entries count, when and how often.

Model-checked only: the midpoints in `QuotesStayApart`, and `LevelsGiveIt`, `ReportsFit`,
`StatementsExact` and `SeriesNumbersDistinct`; they are about folds
inside folds over sorted sequences, or about one large table.

What the properties had to leave room for:

* arbitrage: the loop counts the levels of the sell book by its asks
  (`IndexError` when it has more asks than bids); the rest of the last level is
  left; fees count in aggregate. `simple_arb.pyx:46-50` and `super_simple_arb` pass
  their balances in the wrong order, and the second leg's failure leaves the first
  unhedged; these two strategies are not modelled beyond the library;
* sliding: without `max_slide` and without a wall the price becomes `jump`, an ask at
  0.01, contrary to the docstring (`order_sliding.py:66-69`); the run uses a limit;
* revenue: `get_matched_trading_fees_in_period` calls names that `fees.py` does not
  import, so `fast_profit_in_period` fails; fees are not filtered by actor while
  positions are; `open_position_trades` loops for ever when the trades do not
  suffice; a short position is quoted with a negative volume, so that its market
  revenue is that of the first ask alone, contrary to `close_options.py:18-21` when the
  position is larger; `ClosingIsRealized` says nothing of that case; limit orders are charged the market order fee;
* uptime: a period that begins within a minute counts nothing as up, contrary to the
  docstring of `uptime.py:10-16` ("the number of ten minute periods in the window in which
  every one of these exchanges place an order"); an exchange can be up more than all the time. `UptimeIsShare`
  says what the shares are where a period consists of such buckets, and of the others only
  that all exchanges together are up no longer than any one; wire fees by exchange keep one currency;
* account books: `calculate_btc_net_assets` asks for all exchanges' balances and gets one
  (`make_exchange_datas_from_keys` returns the first row, `exchange_factory.py:147`), so
  that coins moved to another account look lost to the overwatch bot;
  `multi_position_cache` is never written, so net assets move with the
  position, contrary to the comment in `assets.py:127-129`. The property counts both,
  the other accounts and the position that is discounted, as not watched, and would
  hold as well if they were; `set_trades` replaces the rows of
  trades, and with them the marks of a buyback (`paidAgain`); the default date of
  `get_active_liabilities` is the import's, so the overwatch bot misses later
  loans; a buyback with nothing outstanding leaves a withdrawal in transit;
  `calculate_burn`'s midpoint lies before its period; `get_burn_transactions` is
  `[start, end)` while `ledger_balance` is `(start, end]`; the tables skip drift, so
  that their balances miss it; `record_fiat_withdrawal` has a mutable default that
  carries `exchange_rate` over to the next call;
* pages: the orderbook page calls `determine_graph_default_range` with the lowest bid
  and the highest ask in each other's place (`orderbook.py:128-134`), so that the best
  orders are on the graph only when they are no further apart than the width; a book
  at a past time is the first one after it (its own TODO asks, lines 311-313), and
  orders that are still open are not drawn there; the page of trades takes a trade for ours by
  its id, whatever the exchange. An order's price, a float, is compared with
  `Money`, which is taken for a comparison of the numbers. Without an order that has a
  fundamental value the overwatch bot's watch ends with an error;
* bank: money that is nobody's transfer (`burn_lost` above); a wire entered by hand before the
  bank has it makes old lines look new, and a deposit under way is completed;
* metric series: the block `ask_strength_usd` was cut at 661 entries and continued
  elsewhere with 50 Kraken series missing, contrary to `metric_types.py:492-493`
  ("np.arange(0, 5.1, 0.1) and 10, 20 usd slippages, btc and usd"); the property says nothing of these 50, and
  would hold as well if they were there; the comment at 5490 names 5652 as the next number, which is in use;
* settings: a value on the command line that is zero or no does not override the
  file, contrary to the docstring of `config_helper` (lines 137-139) and `configuration.py:107-113`;
  `SettingsComeThrough` allows either value in this case (`Contested`); a subsection `[x:y]` is lost when
  `[x]` comes after it, and a strategy without its weights does not start; an option
  without a value is `True`; `execute: yes` in the file executes without
  `--execute`; `max_spread` of the linear strategy cannot be configured.

## 10. Not modelled

* Crypto balancing: the code path is fenced off by an exception and calls an
  undefined name; the two steps it takes are those of `FundsTransfer`'s tool.
* Bank bot: the scraping of the bank sites.
* Overwatch and shoebox bots, except for the checks of the net assets
  (`AccountBooks`) and of profits (`DashboardPages`): they compare one number with a limit and notify. Two of the
  checks are vacuous: they look for a pair's key ('bitfinex_btc_usd') among
  exchanges' names ('bitfinex').
* The strategy `Backstop` calls functions the harness does not have;
  `fundamental_value` v1 to v3 are imported by nobody; `TrivialExecutionStrategy` names a
  base class that does not exist.
* Two wrappers (section 7), and of the others signatures, tickers and withdrawals.
* Keepalive and publication of the websocket feeds, the consumer's snapshots of
  books, heartbeat and performance auditors, the start of processes by `runt`.
* Money (a value type over decimals, abstracted to integers), conversion of
  currencies and forex flux; reading of files and of the environment.
* Pages of the dashboards beyond those of section 9,
  the console, scrapers, migrations, legacy research code.

`PROJECT.json`, "components", has the reason for each, and what of a component that
is partly modelled is left out.

What the proofs leave to TLC: liveness under fairness, and the functions of the
library, which are folds inside folds over their arguments. A single fold can be
reasoned about by the least argument at which a claim fails, as sections 4, 6 and 8 do;
the library's induction theorems, which take an operator, cannot be used. Each
section says which of its properties are only model-checked.

## 11. The plan and what became of it

The modules were written in this order: the engine, because everything else
depends on its rows; the trade pipeline, the part of the data service that must
not lose anything; funds and shared accounts, since the balance audit of the
engine takes for granted that no deposit is pending and that nobody else writes;
the wrappers, to see what the engine's idea of an exchange
(`ExchangeAccount`) stands on; the feeds, since strategies act on them; the
algorithms and the market makers; the reports. All of these are done.

`ExchangeAccount` and `ExchangeWrappers` are not joined by a refinement: the
abstraction is stated by hand, as the `Env` and `AuditSkip` of section 2, and what
`WrapperProperties` shows is the evidence for it. In particular `"lag"` stands
for Coinbase's unsettled fills, Kraken's ledger and books that come late,
`AuditSkip` for the orders that audit data leaves out, and an exact balance at rest
for `BalanceSo`.

Worth doing next: the two arbitrage strategies, once their calls are right.
