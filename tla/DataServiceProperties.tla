------------------------ MODULE DataServiceProperties ------------------------
(***************************************************************************)
(* What the data service knows of the markets, and what it promises: the   *)
(* feeds of orderbooks, and beside them what was traded, as the trade      *)
(* pollers, the volume pollers, the backfill and the audit of trades have  *)
(* it, and the exchange rates.  The feeds share nothing but the auditor's  *)
(* flag, which each reads as a choice of its environment; a behaviour is   *)
(* one part at work, and what is computed from the records of a market is  *)
(* computed from one of all the histories.  What the polled book promises  *)
(* is stated in CachedBook.                                                *)
(***************************************************************************)
EXTENDS CoinbaseFeed, OrderbookAuditor, CachedBook, LevelFeed, TLC,
        VolumeHistory, TradeBackfill, ExchangeRates, TradeAnswers

(* The feeds of orderbooks.                                                *)

VARIABLE part

feedsVars == <<part, feedVars, auditorVars, cacheVars, levelVars>>

FeedsInit ==
  /\ part \in {"coinbase", "auditor", "cache", "level"}
  /\ FeedInit /\ AuditorInit /\ CacheInit /\ LevelInit
  /\ part # "auditor" => flag = "none"
  /\ part # "level" => venue = "bitstamp" /\ skew = 0

FeedsNext ==
  /\ UNCHANGED part
  /\ \/ part = "coinbase" /\ FeedNext /\ UNCHANGED <<auditorVars, cacheVars, levelVars>>
     \/ part = "auditor" /\ AuditorNext /\ UNCHANGED <<feedVars, cacheVars, levelVars>>
     \/ part = "cache" /\ CacheNext /\ UNCHANGED <<feedVars, auditorVars, levelVars>>
     \/ part = "level" /\ LevelNext /\ UNCHANGED <<feedVars, auditorVars, cacheVars>>

FeedsSpec == FeedsInit /\ [][FeedsNext]_feedsVars

Symmetry == Permutations(Orders) \cup Permutations(Levels)

-----------------------------------------------------------------------------
(* Coinbase.                                                               *)

\* The book has taken in all that came since its base.
Synced ==
  /\ orderbook # NoBook /\ bases # <<>>
  /\ book.backlog = {} /\ resets = {} /\ cleared = {}
  /\ book.current >= Last(bases)

Disturbed(o) == \E n \in skipped \ {0} : log[n].order = o

\* Received before the base and opened after it: the handler never heard of it.
Orphan(o) ==
  \E r \in 1..Last(bases), p \in Last(bases) + 1..Len(log) :
    /\ log[r].order = o /\ log[r].type = "received"
    /\ log[p].order = o /\ log[p].type = "open"

\* Once the backlog is worked down the book is the exchange's at the current
\* sequence number, whatever was lost, restarted or overtaken: but for the
\* orders whose 'received' came before the base, which are missing, and those
\* touched by a change that a second base orderbook, a late restart or an old
\* base orderbook put out of its place.
BookFollowsStream ==
  Synced => \A o \in Orders :
              \/ orderbook[o] = VolumeAt(o, book.current)
              \/ Disturbed(o)
              \/ Orphan(o) /\ orderbook[o] = 0

-----------------------------------------------------------------------------
(* The auditor.                                                            *)

LastSuccess(e) == Max({0} \cup {i \in DOMAIN e : e[i].verdict = "SUCCESSFUL"})

Since(verdict, e) ==
  Cardinality({i \in LastSuccess(e) + 1..Len(e) : e[i].verdict = verdict})

Cause(e) ==
  \/ e[Len(e)].verdict = "HARD"
  \/ Since("SOFT", e) > MaxSoft \/ Since("INCOMPLETE", e) > MaxIncomplete

\* The feed is taken off the air if and only if the audits gave a cause: a
\* hard failure, or too many since the last success.  Overlapping audits, a
\* success after the decision and a second hard failure do not change that,
\* nor does the flag come back before the next start; only what happens before
\* the auditor has its connection to Redis is lost.
StopsForCause ==
  LET told == {SubSeq(evidence, 1, i) : i \in DOMAIN evidence}
      over == stopping > 0 \/ (~auditor.running /\ flag = "stop")
  IN  /\ over => \E e \in told : Cause(e)
      /\ (\E e \in told : Cause(e) /\ Last(e).heard /\ Last(e).verdict \in {"HARD", "SOFT"})
           => over

-----------------------------------------------------------------------------
(* Bitstamp and Bitfinex.                                                  *)

\* When every message up to the base's moment has come and the backlog is
\* worked down, the book is the exchange's at the last message, unless the
\* auditor's stop has dropped one, which is never made good.  By the times of
\* two clocks a change can be passed over when Bitstamp's is ahead, and only
\* then; the levels without such a change are right all the same.
CaughtUp == levels # NoLevels /\ feed.backlog = <<>> /\ position >= from /\ ~dumped

LevelsFollow ==
  /\ CaughtUp => \A l \in Levels \ passedOver :
                   /\ levels.bids[l] = BookAt(position).bids[l]
                   /\ levels.asks[l] = BookAt(position).asks[l]
  /\ ~dumped /\ passedOver # {} => skew > 0

-----------------------------------------------------------------------------
(* The records of the markets and the rates.                               *)

VARIABLE history

serviceVars == <<history, backfillVars, rateVars>>

Now == 10
Traded(market, times) == {[market |-> market, time |-> t] : t \in times}

\* An archive for VolumeHistory.
AllTickers(trades, polled) == UNION {TickersOf(trades, m, polled) : m \in Markets}

VolumeArchive(trades, polled, lost) ==
  [about |-> "volumes", now |-> Now, trades |-> trades, missing |-> lost,
   tickers |-> AllTickers(trades, polled)]

ArchivedTrades(ours, theirs) == Traded("kraken", ours) \cup Traded("quadriga", theirs)
PollTimes == {{}, {9}, {Now}, {9, Now}, {5, 9}}
Losses(ours) == {{}} \cup {{t} : t \in Traded("kraken", ours \ {1})}

ArchivesOf(ours, theirs) ==
  {VolumeArchive(ArchivedTrades(ours, theirs), polled, lost) :
     polled \in PollTimes, lost \in Losses(ours)}

VolumeArchives ==
  UNION {ArchivesOf(ours, theirs) : ours \in SUBSET {1, 4, 5, 7, 8, 9}, theirs \in {{}, {5, 6}}}

\* Three trades, of which the first poll of an exchange sees the first few, in the
\* order they were made or the other way round.
Moments == {10010, 10011, 10012, 20000}
TradeHistories ==
  {[about |-> "answers", exchange |-> exchange, first |-> first, newestFirst |-> reversed,
    made |-> [i \in 1..3 |-> [number |-> i, time |-> times[i], below |-> times[i] \in below]]] :
     exchange \in TradeExchanges, first \in 0..3, reversed \in BOOLEAN,
     below \in SUBSET {10011, 10012},
     times \in {t \in [1..3 -> Moments] : t[1] <= t[2] /\ t[2] <= t[3]}}

ServiceInit ==
  /\ RatesInit
  /\ \/ FeedsInit /\ history = [about |-> "nothing"] /\ BackfillAtRest
     \/ /\ FeedsInit /\ part = "level" /\ venue = "bitstamp" /\ skew = 0
        /\ \/ history = [about |-> "backfill"] /\ BackfillInit
           \/ /\ BackfillAtRest
              /\ \/ history \in {[about |-> "rates"], [about |-> "tickers"]}
                 \/ history \in VolumeArchives
                 \/ history \in TradeHistories

ServiceNext ==
  /\ UNCHANGED history
  /\ \/ history.about = "nothing" /\ FeedsNext /\ UNCHANGED <<backfillVars, rateVars>>
     \/ history.about = "backfill" /\ BackfillNext /\ UNCHANGED <<feedsVars, rateVars>>
     \/ history.about = "rates" /\ RatesNext /\ UNCHANGED <<feedsVars, backfillVars>>

ServiceSpec == ServiceInit /\ [][ServiceNext]_<<feedsVars, serviceVars>>

-----------------------------------------------------------------------------
(* The volumes of periods.                                                 *)

CountMade(m, start, end) == Cardinality(Within(history.trades, m, start, end))
CountMissing(m, start, end) == Cardinality(Within(history.missing, m, start, end))
Known(volume) == IF volume = None THEN 0 ELSE volume

FromTickers(start, end) == IsPastSingleDay(history, start, end) /\ start > EarliestTicker

\* A day's volume by its ticker is off by what was traded until the ticker and
\* not in the day, and in the time the ticker no longer has.
DayExplained(m, start, volume) ==
  \E t \in (start + Day + 1)..(start + Day + Delay5 - 1) :
    volume - CountMade(m, start, start + Day)
      = CountMade(m, start + Day, t + 1) - CountMade(m, start, t - Day + 1)

\* Bitcoinwisdom's steps fit the period.
Aligned(start, end) ==
  LET step == WisdomStep(start, end) IN start % step = 0 /\ end % step = 0

PeriodExplained(start, end) ==
  \A m \in Markets : \A volume \in VolumeInPeriod(history, m, start, end) :
    IF FromTickers(start, end)
      THEN volume = None \/ DayExplained(m, start, volume)
      ELSE IF start > EarliestTrade
             THEN Known(volume) = CountMade(m, start, end) - CountMissing(m, start, end)
             ELSE volume = None \/ (Aligned(start, end) => volume = CountMade(m, start, end))

\* The total is the sum of the markets', and says which they are.
SumKnown(volumes) == MapThenSumSet(LAMBDA m : Known(volumes[m]), Markets)

TotalIsSum(start, end) ==
  \A total \in TotalInPeriod(history, start, end) :
    \E volumes \in [Markets -> {None} \cup 0..Cardinality(history.trades)] :
      /\ \A m \in Markets : volumes[m] \in VolumeInPeriod(history, m, start, end)
      /\ total.included = {m \in Markets : Known(volumes[m]) > 0}
      /\ total.volume = SumKnown(volumes)

\* Hours of a day that starts at midnight add up to it; those of all markets are
\* the sums of those of each.
SumHours(hourly) == MapThenSumSet(LAMBDA h : h.volume, hourly)
HoursOf(hourly, time) == SumHours({h \in hourly : h.time = time})

SumMarkets(start, end, time) ==
  MapThenSumSet(LAMBDA m : HoursOf(HourlySingle(history, m, start, end), time), Markets)

HoursAddUp(start, end) ==
  start % Day = 0 /\ end - start <= Day =>
    /\ \A m \in Markets :
         /\ \A h \in HourlySingle(history, m, start, end) :
              h.volume = CountMade(m, h.time, Min({h.time + Hour, end}))
                           - CountMissing(m, h.time, Min({h.time + Hour, end}))
         /\ SumHours(HourlySingle(history, m, start, end))
              = Known(TradeVolume(history, m, start, end))
    /\ \A time \in start..end :
         HoursOf(HourlyTotal(history, start, end), time) = SumMarkets(start, end, time)

\* The audit alarms for a trade that is missing, or for one that came after the
\* ticker or left its day in the meantime.
AlarmExplained(m) ==
  TradesAudit(history, m) = "alarm" =>
    LET latest == history.now
    IN  \/ CountMissing(m, latest - Day, latest + 1) > 0
        \/ CountMade(m, latest - Recent + 1, latest + 1) > 0
        \/ CountMade(m, latest - Recent - Day + 1, latest - Day + 1) > 0

VolumesAddUp ==
  /\ \A start \in 0..history.now - 1 : \A end \in start + 1..history.now :
       PeriodExplained(start, end) /\ TotalIsSum(start, end) /\ HoursAddUp(start, end)
  /\ \A m \in Markets : AlarmExplained(m)

\* The volume an exchange is polled for is that of the last day; but the poller
\* for OKCoin asks for another pair.
TickersAreDaily ==
  \A p \in VolumePollers, rolling \in 0..2, today \in 0..2, ltc \in 0..2 :
    PolledVolume(p, TickerOf(p, rolling, today, ltc)) = rolling \/ p = "Okcoin"

\* In two polls every trade is published once, in the first poll that sees it;
\* but of the trades of one millisecond at Quadriga, and of moments next to each
\* other at Kraken, perhaps one only.
SameMoment(exchange, s, t) ==
  CASE exchange = "quadriga" -> s.time \div 10 = t.time \div 10
    [] exchange = "kraken" -> s.time - t.time \in -1..1
    [] OTHER -> FALSE

AnswersParsed ==
  LET exchange == history.exchange
      Seen(n) == LET seen == SubSeq(history.made, 1, n)
                 IN  IF history.newestFirst THEN Reverse(seen) ELSE seen
      early == Published(exchange, Seen(history.first), 0)
      late == Published(exchange, Seen(Len(history.made)),
                        NewestId(exchange, Seen(history.first)))
      all == ToSet(history.made)
  IN  /\ early \cap late = {}
      /\ \A t \in all \ (early \cup late) :
           \E s \in (early \cup late) : SameMoment(exchange, s, t)
      /\ \A t \in late : \A s \in ToSet(Seen(history.first)) : s.number < t.number

(***************************************************************************)
(* What is said to have been traded in a period is what was traded, but    *)
(* for what the source could not know: days by the tickers of their ends,  *)
(* periods by the recorded trades, older ones by Bitcoinwisdom; totals are *)
(* the sums of the markets', and hours add up to days.  The audit alarms   *)
(* for a cause.  Polls publish every trade once where ids tell them apart. *)
(***************************************************************************)
RecordedAsTraded ==
  /\ history.about = "volumes" => VolumesAddUp
  /\ history.about = "tickers" => TickersAreDaily
  /\ history.about = "answers" => AnswersParsed

(***************************************************************************)
(* When the backfill has ended, every trade before those we had recorded   *)
(* is in the table, once: unless the script was cut short and, started     *)
(* again, took its own rows for the oldest of ours, or the text of an id   *)
(* with fewer digits made another trade than the first look like it.       *)
(***************************************************************************)
BackfillComplete ==
  history.about = "backfill" /\ job.at = "done" =>
    LET rows == ToSet(table)
        Twice(t) == \/ t \in recorded /\ t \in rows
                    \/ \E i, j \in DOMAIN table : i # j /\ table[i] = t /\ table[j] = t
        Shorter == \E r \in recorded : r.id < 10
    IN  \A t \in archive :
          /\ (\A r \in recorded : t.time < r.time) =>
               t \in rows \/ (job.runs > 1 /\ \E r \in rows : r.time = t.time)
          /\ Twice(t) => job.runs > 1 \/ Shorter

(***************************************************************************)
(* The rates of a conversion are not older than what Redis may hand out    *)
(* and two times in a cache: a process keeps what it finds in memcache for *)
(* the whole time again.                                                   *)
(***************************************************************************)
RateNotOld ==
  converted.at - converted.rates <= RateThreshold + 2 * CacheTime - 2
=============================================================================
