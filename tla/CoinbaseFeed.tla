---------------------------- MODULE CoinbaseFeed ----------------------------
(***************************************************************************)
(* The orderbook of Coinbase as CoinbaseOrderbookWebsocket keeps it: every *)
(* change of an order comes over a websocket with a sequence number, the   *)
(* book to start from over HTTP.                                           *)
(*                                                                         *)
(* Twisted handlers run until they wait for something.  onMessage first    *)
(* asks Redis, which answers in order: "line" holds the messages up to     *)
(* that answer.  A restart waits for new connections and once more for     *)
(* Redis, and everything else may happen in between.                       *)
(***************************************************************************)
EXTENDS Integers, Sequences, FiniteSets, SequencesExt

CONSTANTS
  Orders,
  MaxLog,     \* bound: changes on the exchange
  MaxGaps,    \* bound: messages lost, connections lost, pauses of the auditor
  MaxChains   \* bound: base orderbooks being fetched at once

ASSUME FeedAssumption ==
  /\ MaxLog \in Nat /\ MaxGaps \in Nat /\ MaxChains \in Nat \ {0}

VARIABLES
  log,        \* the exchange's changes; a sequence number is a position in it
  sent,       \* the last change that was put on the wire
  line,       \* messages on their way to onMessage
  gaps,
  go,         \* the auditor's should_continue flag in Redis
  orderbook,  \* the volume of each order, or NoBook
  book,       \* [first, current, base, backlog, received] of the handler
  resets,     \* onOpen calls waiting to reset, by the message that restarts
  cleared,    \* onOpen calls that have reset everything
  asked,      \* base orderbooks that were asked for
  answers,    \* base orderbooks that were answered, as sequence numbers
  skipped,    \* changes that are in neither base nor backlog when a base comes,
              \* that a restart applies to a book that others went on with, or
              \* that it left in the backlog and an old base makes look new
  bases       \* base orderbooks accepted since everything was reset

feedVars == <<log, sent, line, gaps, go, orderbook, book, resets, cleared,
              asked, answers, skipped, bases>>

NoBook == <<>>
Blank == [first |-> 0, current |-> 0, base |-> 0, backlog |-> {}, received |-> {}]

FeedInit ==
  /\ log = <<>> /\ sent = 0 /\ line = <<>> /\ gaps = 0 /\ go = TRUE
  /\ orderbook = NoBook /\ book = Blank
  /\ resets = {0} /\ cleared = {}
  /\ asked = 0 /\ answers = <<>> /\ skipped = {} /\ bases = <<>>

-----------------------------------------------------------------------------
(* The exchange.                                                           *)

LastChange(o, n) == Max({0} \cup {i \in 1..n : log[i].order = o /\ log[i].type # "match"})
Stage(o) == IF LastChange(o, Len(log)) = 0 THEN "none" ELSE log[LastChange(o, Len(log))].type

\* The volume of o in the exchange's book after n changes.
VolumeAt(o, n) ==
  IF LastChange(o, n) # 0 /\ log[LastChange(o, n)].type \in {"open", "change"}
  THEN log[LastChange(o, n)].size ELSE 0

Happens(o, type, size) ==
  /\ Len(log) < MaxLog
  /\ log' = Append(log, [order |-> o, type |-> type, size |-> size])
  /\ UNCHANGED <<sent, line, gaps, go, orderbook, book, resets, cleared, asked,
                 answers, skipped, bases>>

\* An order is received; it opens or is done at once; while it is open its
\* size may change.  A match is no change of the book by itself.
ExchangeStep(o) ==
  \/ Stage(o) = "none" /\ Happens(o, "received", 2)
  \/ Stage(o) = "received" /\ Happens(o, "open", 2)
  \/ Stage(o) = "open" /\ Happens(o, "change", 1)
  \/ Stage(o) \in {"received", "open", "change"} /\ Happens(o, "done", 0)
  \/ Stage(o) = "open" /\ log[Len(log)].type # "match" /\ Happens(o, "match", 0)

Subscribed == book # Blank \/ asked > 0 \/ answers # <<>>

\* The exchange sends what has happened since the subscription.
Send ==
  /\ Subscribed /\ sent < Len(log)
  /\ sent' = sent + 1 /\ line' = Append(line, sent + 1)
  /\ UNCHANGED <<log, gaps, go, orderbook, book, resets, cleared, asked, answers,
                 skipped, bases>>

\* A change of which no message comes, or which was before the subscription.
Miss ==
  /\ sent < Len(log)
  /\ sent' = sent + 1
  /\ IF Subscribed THEN gaps < MaxGaps /\ gaps' = gaps + 1 ELSE gaps' = gaps
  /\ UNCHANGED <<log, line, go, orderbook, book, resets, cleared, asked, answers,
                 skipped, bases>>

\* The connection is lost: start() makes a new object with nothing in it.
ConnectionLost ==
  /\ gaps < MaxGaps /\ gaps' = gaps + 1
  /\ line' = <<>> /\ orderbook' = NoBook /\ book' = Blank
  /\ resets' = {0} /\ cleared' = {} /\ asked' = 0 /\ answers' = <<>>
  /\ skipped' = {} /\ bases' = <<>>
  /\ UNCHANGED <<log, sent, go>>

\* The orderbook auditor's hard failure, or its start.
Flag ==
  /\ gaps < MaxGaps /\ gaps' = gaps + 1
  /\ go' = ~go
  /\ UNCHANGED <<log, sent, line, orderbook, book, resets, cleared, asked, answers,
                 skipped, bases>>

-----------------------------------------------------------------------------
(* One change, applied to [book, received, ok].                            *)

\* An order of which no 'received' was kept is a KeyError.
Opened(s, o, size) ==
  IF o \in s.received
  THEN [s EXCEPT !.book[o] = size, !.received = @ \ {o}]
  ELSE [s EXCEPT !.ok = FALSE]

\* apply_change_to_orderbook
ApplyChange(s, n) ==
  LET o == log[n].order
  IN  CASE log[n].type = "received" -> [s EXCEPT !.received = @ \cup {o}]
        [] log[n].type = "open" -> Opened(s, o, log[n].size)
        [] log[n].type = "done" -> [s EXCEPT !.book[o] = 0]
        [] log[n].type = "change" -> IF s.book[o] > 0
                                     THEN [s EXCEPT !.book[o] = log[n].size] ELSE s

Applying == [book |-> orderbook, received |-> book.received, ok |-> TRUE, left |-> {}]

\* One number of the walk over the backlog: a change after the base is applied,
\* another one dropped.  The first KeyError leaves the rest in the backlog.
WorkOn(s, n, backlog) ==
  CASE n \notin backlog -> s
    [] n \in backlog /\ ~s.ok -> [s EXCEPT !.left = @ \cup {n}]
    [] n \in backlog /\ s.ok -> IF n > book.base THEN ApplyChange(s, n) ELSE s

\* A bug: the backlog is not sorted by sequence number.
ApplyBacklog_Unsorted(backlog) ==
  LET worked[n \in 1..Len(log) + 1] ==
        IF n > Len(log) THEN Applying ELSE WorkOn(worked[n + 1], n, backlog)
  IN  worked[1]

\* apply_backlog
ApplyBacklog(backlog) ==
  LET worked[n \in 0..Len(log)] ==
        IF n = 0 THEN Applying ELSE WorkOn(worked[n - 1], n, backlog)
  IN  worked[Len(log)]

\* The rest of onMessage, with the handler's variables b.
Process(n, b) ==
  IF log[n].type = "match" THEN orderbook' = orderbook /\ book' = b
  ELSE IF orderbook = NoBook
  THEN orderbook' = orderbook /\ book' = [b EXCEPT !.backlog = @ \cup {n}]
  ELSE LET s == IF b.backlog = {} THEN ApplyChange(Applying, n)
                                  ELSE ApplyBacklog(b.backlog \cup {n})
       IN  /\ orderbook' = s.book
           /\ book' = [b EXCEPT !.received = s.received, !.backlog = s.left]

InSequence(n, b) == n = b.current + 1 \/ n = b.first

\* onMessage, when Redis has answered should_continue.
OnMessage ==
  LET n == Head(line)
      b == IF book.first = 0 THEN [book EXCEPT !.first = n] ELSE book
  IN  /\ line # <<>> /\ line' = Tail(line)
      /\ IF ~go THEN UNCHANGED <<orderbook, book, resets>>
         ELSE IF InSequence(n, b)
         THEN Process(n, [b EXCEPT !.current = n]) /\ UNCHANGED resets
         ELSE /\ Cardinality(resets \cup cleared) + asked + Len(answers) < MaxChains
              /\ resets' = resets \cup {n} /\ book' = b /\ UNCHANGED orderbook
      /\ UNCHANGED <<log, sent, gaps, go, cleared, asked, answers, skipped, bases>>

\* onOpen, or the restart for message n, has Redis and a producer.
Reset(n) ==
  /\ n \in resets
  /\ resets' = resets \ {n} /\ cleared' = cleared \cup {n}
  /\ orderbook' = NoBook /\ book' = Blank /\ skipped' = {} /\ bases' = <<>>
  /\ UNCHANGED <<log, sent, line, gaps, go, asked, answers>>

\* It asks for the base orderbook and subscribes; after a restart onMessage
\* goes on with its message.
AskForBase(n) ==
  /\ n \in cleared
  /\ cleared' = cleared \ {n} /\ asked' = asked + 1
  /\ IF n = 0 THEN UNCHANGED <<orderbook, book>> ELSE Process(n, book)
  /\ skipped' = IF orderbook = NoBook THEN skipped ELSE skipped \cup {n}
  /\ UNCHANGED <<log, sent, line, gaps, go, resets, answers, bases>>

-----------------------------------------------------------------------------
(* The base orderbook.                                                     *)

\* The exchange answers with its book, perhaps one change ago.
Answer(n) ==
  /\ asked > 0 /\ n \in {Len(log) - 1, Len(log)} /\ n > 0
  /\ asked' = asked - 1 /\ answers' = Append(answers, n)
  /\ UNCHANGED <<log, sent, line, gaps, go, orderbook, book, resets, cleared,
                 skipped, bases>>

Take(i) == answers' = RemoveAt(answers, i)

TooOld(n) == n <= book.first \/ book.first = 0

\* parse_response; an old one is asked for again a second later, but its number
\* is taken for the book's.
ParseResponse(i) ==
  LET n == answers[i]
  IN  /\ Take(i)
      /\ book' = [book EXCEPT !.base = n]
      /\ IF TooOld(n)
         THEN /\ asked' = asked + 1
              /\ skipped' = IF orderbook = NoBook THEN skipped
                            ELSE skipped \cup {m \in book.backlog : n < m /\ m < book.first}
              /\ UNCHANGED <<orderbook, bases>>
         ELSE /\ orderbook' = [o \in Orders |-> VolumeAt(o, n)]
              /\ skipped' = skipped \cup {m \in n + 1..book.current :
                               m \notin book.backlog \cup resets \cup cleared
                               /\ log[m].type # "match"}
              /\ bases' = Append(bases, n)
              /\ UNCHANGED asked
      /\ UNCHANGED <<log, sent, line, gaps, go, resets, cleared>>

-----------------------------------------------------------------------------
FeedNext ==
  \/ \E o \in Orders : ExchangeStep(o)
  \/ Send \/ Miss \/ ConnectionLost \/ Flag
  \/ OnMessage
  \/ \E n \in 0..MaxLog : Reset(n) \/ AskForBase(n) \/ Answer(n)
  \/ \E i \in DOMAIN answers : ParseResponse(i)

FeedSpec == FeedInit /\ [][FeedNext]_feedVars
=============================================================================
