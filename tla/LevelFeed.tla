------------------------------ MODULE LevelFeed ------------------------------
(***************************************************************************)
(* The websocket orderbooks of Bitstamp and Bitfinex.  A message says the  *)
(* volume of one price level; it has no sequence number.  Bitfinex sends   *)
(* its book as the first message, Bitstamp's is fetched over HTTP and      *)
(* fitted in by time.                                                      *)
(*                                                                         *)
(* Two ticks are a second: Bitstamp's book tells its time in seconds, by a *)
(* clock of its own, which our machine's need not agree with.              *)
(***************************************************************************)
EXTENDS Integers, Sequences, SequencesExt

CONSTANTS
  Levels,        \* price levels
  MessageBuffer, \* message_count_buffer
  MaxTicks,      \* bound: the clock
  MaxSkew,       \* bound: how far Bitstamp's clock is off
  MaxChanges     \* bound: changes on the exchange

ASSUME LevelAssumption ==
  /\ MessageBuffer \in Nat /\ MaxTicks \in Nat /\ MaxSkew \in Nat
  /\ MaxChanges \in Nat

VARIABLES
  venue, ticks,
  skew,       \* how far Bitstamp's clock is ahead of ours
  changes,    \* the exchange's changes: [level, volume], asks are negative
  subscribed,
  stream,     \* messages on their way: [base, n], the book at or the change n
  paused,     \* should_continue is 0
  feed,       \* [first, count, backlog, base] of Bitstamp's handler
  levels,     \* [bids, asks], or NoLevels
  request,    \* Bitstamp's book, [state, at, n]: when and at what change it was made
  position,   \* the last change whose message was handled
  from,       \* the change at which the base was made
  dumped,     \* a message was dropped while paused
  passedOver  \* history: levels with a change neither base nor backlog have made

levelVars == <<venue, ticks, skew, changes, subscribed, stream, paused, feed, levels,
               request, position, from, dumped, passedOver>>

NoLevels == <<>>
Idle == [first |-> -1, count |-> 0, backlog |-> <<>>, base |-> -1]

\* onOpen has reset everything, asks for the base and subscribes.
LevelInit ==
  /\ venue \in {"bitstamp", "bitfinex"}
  /\ skew \in IF venue = "bitstamp" THEN -MaxSkew..MaxSkew ELSE {0}
  /\ ticks = 0 /\ changes = <<>> /\ subscribed = FALSE /\ stream = <<>>
  /\ paused = FALSE /\ feed = Idle /\ levels = NoLevels
  /\ request = [state |-> IF venue = "bitstamp" THEN "asked" ELSE "no", at |-> 0, n |-> 0]
  /\ position = 0 /\ from = 0 /\ dumped = FALSE
  /\ passedOver = {}

-----------------------------------------------------------------------------
(* The exchange: a level never has a bid and an ask, nor turns from one    *)
(* into the other at once.                                                 *)

VolumeOf(l, n) ==
  LET of == {i \in 1..n : changes[i].level = l}
  IN  IF of = {} THEN 0 ELSE changes[Max(of)].volume

BookAt(n) == [bids |-> [l \in Levels |-> Max({0, VolumeOf(l, n)})],
              asks |-> [l \in Levels |-> Max({0, -VolumeOf(l, n)})]]

Passes ==
  /\ ticks < MaxTicks /\ ticks' = ticks + 1
  /\ UNCHANGED <<venue, skew, changes, subscribed, stream, paused, feed, levels,
                 request, position, from, dumped, passedOver>>

\* A change happens and its message is sent.
LevelChanges(l, v) ==
  /\ Len(changes) < MaxChanges
  /\ v # VolumeOf(l, Len(changes)) /\ v * VolumeOf(l, Len(changes)) >= 0
  /\ changes' = Append(changes, [level |-> l, volume |-> v])
  /\ stream' = IF subscribed THEN Append(stream, [base |-> FALSE, n |-> Len(changes')])
               ELSE stream
  /\ UNCHANGED <<venue, ticks, skew, subscribed, paused, feed, levels, request,
                 position, from, dumped, passedOver>>

\* The subscription reaches the exchange; Bitfinex answers with its book.
Subscription ==
  /\ ~subscribed /\ subscribed' = TRUE
  /\ stream' = IF venue = "bitfinex" THEN <<[base |-> TRUE, n |-> Len(changes)]>>
               ELSE <<>>
  /\ UNCHANGED <<venue, ticks, skew, changes, paused, feed, levels, request, position,
                 from, dumped, passedOver>>

\* The exchange makes the book that Bitstamp's handler asked for.
Made ==
  /\ request.state = "asked"
  /\ request' = [state |-> "made", at |-> ticks, n |-> Len(changes)]
  /\ UNCHANGED <<venue, ticks, skew, changes, subscribed, stream, paused, feed, levels,
                 position, from, dumped, passedOver>>

\* The orderbook auditor's hard failure, or the start of the next auditor.
Pause ==
  /\ ~dumped /\ paused' = ~paused
  /\ UNCHANGED <<venue, ticks, skew, changes, subscribed, stream, feed, levels, request,
                 position, from, dumped, passedOver>>

-----------------------------------------------------------------------------
(* apply_change_to_orderbook                                               *)

\* A bug: a volume of zero takes away the bid only.
Apply_BidOnly(book, c) ==
  IF c.volume < 0 THEN [book EXCEPT !.asks[c.level] = -c.volume]
  ELSE [book EXCEPT !.bids[c.level] = c.volume]

\* Zero takes away both sides.  Bitstamp's message names the side.
Apply(book, c) ==
  CASE c.volume > 0 -> [book EXCEPT !.bids[c.level] = c.volume]
    [] c.volume < 0 -> [book EXCEPT !.asks[c.level] = -c.volume]
    [] OTHER -> [book EXCEPT !.bids[c.level] = 0, !.asks[c.level] = 0]

\* Bitfinex: the first message is taken for the base; another one than the
\* base is a TypeError.
HandleOrdered(m) ==
  /\ levels' = IF m.base THEN BookAt(m.n)
               ELSE IF levels = NoLevels THEN levels
               ELSE Apply(levels, changes[m.n])
  /\ from' = IF m.base THEN m.n ELSE from
  /\ UNCHANGED <<feed, passedOver>>

\* Bitstamp works the backlog down: what came before the time of the base is
\* dropped.  (A tick stands for the half second after it, so that the second
\* in which it begins is before it.)
Newer(entry) == entry.at >= feed.base

Replay(book, entry) == IF Newer(entry) THEN Apply(book, changes[entry.n]) ELSE book

Worked(backlog) == FoldLeft(Replay, levels, backlog)

\* With Bitstamp's clock ahead of ours that can be a change made after the base;
\* those before it came too early for the backlog.
Skipped(backlog) ==
  LET old == {e.n : e \in {e \in ToSet(backlog) : ~Newer(e)}}
      after == {n \in DOMAIN changes : from < n /\ \E k \in old : n <= k}
  IN  {changes[n].level : n \in after}

HandleTimed(m) ==
  LET entry == [at |-> ticks, n |-> m.n]
      f == [feed EXCEPT !.first = IF @ = -1 THEN ticks ELSE @, !.count = @ + 1]
  IN  /\ IF levels = NoLevels
         THEN /\ feed' = [f EXCEPT !.backlog = Append(@, entry)]
              /\ UNCHANGED <<levels, passedOver>>
         ELSE IF feed.backlog = <<>>
         THEN feed' = f /\ levels' = Apply(levels, changes[m.n]) /\ UNCHANGED passedOver
         ELSE /\ feed' = [f EXCEPT !.backlog = <<>>]
              /\ levels' = Worked(Append(feed.backlog, entry))
              /\ passedOver' = Skipped(Append(feed.backlog, entry))
      /\ UNCHANGED from

\* onMessage.  While the auditor has stopped the feed messages are dropped.
Message ==
  /\ stream # <<>> /\ stream' = Tail(stream)
  /\ IF paused
     THEN dumped' = TRUE /\ UNCHANGED <<feed, levels, position, from, passedOver>>
     ELSE /\ position' = Head(stream).n /\ UNCHANGED dumped
          /\ IF venue = "bitfinex" THEN HandleOrdered(Head(stream))
                                   ELSE HandleTimed(Head(stream))
  /\ UNCHANGED <<venue, ticks, skew, changes, subscribed, paused, request>>

\* The second of Bitstamp's clock in which the base was made, on ours.
BaseTime == 2 * ((request.at + skew) \div 2)

TooEarly ==
  \/ BaseTime <= feed.first \/ feed.first = -1
  \/ feed.count <= MessageBuffer

\* Bitstamp's parse_response; retry_request asks again.
TakeBase ==
  /\ request.state = "made"
  /\ feed' = [feed EXCEPT !.base = BaseTime]
  /\ request' = [request EXCEPT !.state = IF TooEarly THEN "asked" ELSE "no"]
  /\ IF TooEarly THEN UNCHANGED <<levels, from>>
     ELSE levels' = BookAt(request.n) /\ from' = request.n
  /\ UNCHANGED <<venue, ticks, skew, changes, subscribed, stream, paused, position,
                 dumped, passedOver>>

LevelNext ==
  \/ Passes \/ Subscription \/ Made \/ Pause \/ Message \/ TakeBase
  \/ \E l \in Levels, v \in {-1, 0, 1} : LevelChanges(l, v)

LevelSpec == LevelInit /\ [][LevelNext]_levelVars
=============================================================================
