---------------------------- MODULE TradePipeline ----------------------------
(***************************************************************************)
(* How the data service stores an exchange's trades: TradesPoller asks for *)
(* the latest ones and publishes those it has not seen, TwistedProducer    *)
(* hands them to RabbitMQ, QueueConsumer takes them from the durable queue *)
(* and trades_consumer_function writes them to the trade table.            *)
(*                                                                         *)
(* A trade is its number, which is also its trade_id.  Poller and producer *)
(* are one process, the consumer is another.                               *)
(***************************************************************************)
EXTENDS Integers, Sequences

CONSTANTS
  MaxTrades,    \* bound: trades the exchange makes
  Window,       \* how many of the latest trades an answer lists
  MaxAttempts,  \* attempts on_message allows for a message, 600 in the code
  MaxTroubles,  \* bound: faults in one behaviour
  Envs          \* the surroundings: each the kinds of faults that may happen

ASSUME PipelineAssumption ==
  /\ MaxTrades \in Nat /\ Window \in Nat \ {0}
  /\ MaxAttempts \in Nat \ {0} /\ MaxTroubles \in Nat
  /\ Envs \subseteq SUBSET {"close", "nack", "crash", "consumer", "db", "redis", "stale"}

VARIABLES
  made,        \* trades made on the exchange so far
  missed,      \* history: trades in a gap between recent and an answer
  poller,      \* place of the poller's process
  recent,      \* most_recent_trade_id in the poller's memory
  saved,       \* most_recent_trade_id in Redis
  conn,        \* the producer's connection and channel
  ready,       \* producer.ready
  number,      \* producer._message_number
  deliveries,  \* producer._deliveries
  wire,        \* published, not yet safe at the broker
  tag,         \* delivery tag of the channel's last message
  unconfirmed, \* tags the broker has still to confirm
  queue,       \* the durable queue, unacknowledged messages included
  consumer,    \* place of the consumer's process
  link,        \* whether the consumer's connection is alive
  inbox,       \* messages delivered on it and not acknowledged
  attempt,     \* attempt of on_message at the first of them
  stored,      \* the trade table, one row for each trade_id
  env,         \* one of Envs: the faults that may happen in this behaviour
  troubles     \* faults so far

pollerVars == <<poller, recent, saved>>
producerVars == <<conn, ready, number, deliveries, wire, tag, unconfirmed>>
consumerVars == <<consumer, link, inbox, attempt, stored>>
vars == <<made, missed, pollerVars, producerVars, queue, consumerVars, env, troubles>>

Trades == 1..MaxTrades

TypeOK ==
  /\ made \in 0..MaxTrades
  /\ missed \in SUBSET Trades
  /\ poller \in {"down", "starting", "idle", "saving"}
  /\ recent \in 0..MaxTrades /\ saved \in 0..MaxTrades
  /\ conn \in {"opening", "up", "closed", "gone"}
  /\ ready \in BOOLEAN
  /\ number \in Nat /\ tag \in Nat
  /\ deliveries \in SUBSET Nat /\ unconfirmed \in SUBSET Nat
  /\ wire \in Seq(Trades) /\ queue \in Seq(Trades) /\ inbox \in Seq(Trades)
  /\ consumer \in {"down", "idle", "ack"}
  /\ link \in BOOLEAN
  /\ attempt \in 1..(MaxAttempts + 1)
  /\ stored \in SUBSET Trades
  /\ env \in Envs /\ troubles \in Nat

Init ==
  /\ env \in Envs
  /\ made = 0 /\ missed = {} /\ troubles = 0
  /\ poller = "down" /\ recent = 0 /\ saved = 0
  /\ conn = "gone" /\ ready = FALSE /\ number = 0 /\ deliveries = {}
  /\ wire = <<>> /\ tag = 0 /\ unconfirmed = {} /\ queue = <<>>
  /\ consumer = "down" /\ link = FALSE /\ inbox = <<>> /\ attempt = 1
  /\ stored = {}

Trouble(kind) ==
  /\ kind \in env /\ troubles < MaxTroubles
  /\ troubles' = troubles + 1 /\ env' = env

-----------------------------------------------------------------------------
(* The poller                                                              *)

MakeTrade ==
  /\ made < MaxTrades
  /\ made' = made + 1
  /\ UNCHANGED <<missed, pollerVars, producerVars, queue, consumerVars, env, troubles>>

\* A new process: the poller sets up its producer, a connection attempt.
StartPoller ==
  /\ poller = "down" /\ poller' = "starting"
  /\ conn' = "opening"
  /\ UNCHANGED <<made, missed, recent, saved, ready, number, deliveries,
                 wire, tag, unconfirmed, queue, consumerVars, env, troubles>>

\* wait_until_ready is over: read the id from Redis and start polling.
PollerStarted ==
  /\ poller = "starting" /\ ready
  /\ poller' = "idle" /\ recent' = saved
  /\ UNCHANGED <<made, missed, saved, producerVars, queue, consumerVars,
                 env, troubles>>

\* An answer lists the latest Window trades at the time when n were made; a
\* cache may serve an old one.
Answers == IF "stale" \in env THEN 1..made ELSE {made} \ {0}
Oldest(n) == IF n > Window THEN n - Window + 1 ELSE 1

\* Its new trades, sorted: those with an id above recent.
FirstNew(n) == IF recent < Oldest(n) THEN Oldest(n) ELSE recent + 1
Fresh(n) == [i \in 1..(n + 1 - FirstNew(n)) |-> FirstNew(n) + i - 1]

\* A bug: the number is put on the list before it is counted up.
Publish_OffByOne(ids) ==
  IF conn = "up"
  THEN LET count == Len(ids)
       IN  /\ wire' = wire \o ids
           /\ number' = number + count
           /\ deliveries' = deliveries \cup (number..(number + count - 1))
           /\ UNCHANGED <<conn, ready, tag, unconfirmed>>
  ELSE UNCHANGED producerVars

\* publish_message for each of the trades.  Without a channel they are
\* dropped, with an entry in the log.
Publish(ids) ==
  IF conn = "up"
  THEN LET count == Len(ids)
       IN  /\ wire' = wire \o ids
           /\ number' = number + count
           /\ deliveries' = deliveries \cup ((number + 1)..(number + count))
           /\ UNCHANGED <<conn, ready, tag, unconfirmed>>
  ELSE UNCHANGED producerVars

\* A bug: the answer is not sorted and has the newest trade first.
Poll_NewestFirst(n) ==
  /\ poller = "idle" /\ n \in Answers
  /\ Fresh(n) # <<>> => ready
  /\ Publish(IF Fresh(n) = <<>> THEN <<>> ELSE <<n>>)
  /\ recent' = IF n > recent THEN n ELSE recent
  /\ missed' = missed \cup ((recent + 1)..(Oldest(n) - 1))
  /\ poller' = "saving"
  /\ UNCHANGED <<made, saved, queue, consumerVars, env, troubles>>

\* parse_response up to the first thing it waits for.  A producer that is
\* not ready raises at the first new trade: the answer is given up, as is an
\* empty one.
Poll(n) ==
  /\ poller = "idle" /\ n \in Answers
  /\ Fresh(n) # <<>> => ready
  /\ Publish(Fresh(n))
  /\ recent' = IF n > recent THEN n ELSE recent
  /\ missed' = missed \cup ((recent + 1)..(Oldest(n) - 1))
  /\ poller' = "saving"
  /\ UNCHANGED <<made, saved, queue, consumerVars, env, troubles>>

SaveId ==
  /\ poller = "saving" /\ poller' = "idle"
  /\ saved' = recent
  /\ UNCHANGED <<made, missed, recent, producerVars, queue, consumerVars,
                 env, troubles>>

\* redis.set failed, log_response_error caught it; LoopingCall polls again.
SaveIdFails ==
  /\ poller = "saving" /\ Trouble("redis")
  /\ poller' = "idle"
  /\ UNCHANGED <<made, missed, recent, saved, producerVars, queue,
                 consumerVars>>

\* What was written to the socket still reaches the broker, unless the
\* machine or the connection went as well.
Flushed == IF "close" \in env THEN 0..Len(wire) ELSE {Len(wire)}

PollerCrashes ==
  /\ poller # "down" /\ Trouble("crash")
  /\ poller' = "down" /\ recent' = 0
  /\ conn' = "gone" /\ ready' = FALSE /\ number' = 0 /\ deliveries' = {}
  /\ wire' = <<>> /\ tag' = 0 /\ unconfirmed' = {}
  /\ \E n \in Flushed : queue' = queue \o SubSeq(wire, 1, n)
  /\ UNCHANGED <<made, missed, saved, consumerVars>>

-----------------------------------------------------------------------------
(* The producer's connection                                               *)

\* on_connection_open ends: channel, exchange, queue and binding are there.
ProducerOpened ==
  /\ conn = "opening"
  /\ conn' = "up" /\ ready' = TRUE /\ tag' = 0
  /\ UNCHANGED <<made, missed, pollerVars, number, deliveries, wire, unconfirmed,
                 queue, consumerVars, env, troubles>>

\* on_connection_closed, also after on_channel_closed: ready stays as it is.
ConnectionCloses ==
  /\ conn \in {"opening", "up"} /\ Trouble("close")
  /\ conn' = "closed" /\ wire' = <<>> /\ unconfirmed' = {}
  /\ UNCHANGED <<made, missed, pollerVars, ready, number, deliveries, tag, queue,
                 consumerVars>>

\* reconnect, five seconds later: on_connection_open begins.
Reconnect ==
  /\ conn = "closed"
  /\ conn' = "opening" /\ ready' = FALSE
  /\ UNCHANGED <<made, missed, pollerVars, number, deliveries, wire, tag,
                 unconfirmed, queue, consumerVars, env, troubles>>

\* The broker cannot be reached: report_error, and nothing is scheduled.
ConnectFails ==
  /\ \/ conn = "closed"
     \/ conn = "opening" /\ poller = "starting" /\ ~ready
  /\ Trouble("close")
  /\ conn' = "gone"
  /\ UNCHANGED <<made, missed, pollerVars, ready, number, deliveries, wire, tag,
                 unconfirmed, queue, consumerVars>>

-----------------------------------------------------------------------------
(* The broker                                                              *)

\* The next message is safe in the queue.
Accept ==
  /\ wire # <<>>
  /\ wire' = Tail(wire) /\ queue' = Append(queue, Head(wire))
  /\ tag' = tag + 1 /\ unconfirmed' = unconfirmed \cup {tag + 1}
  /\ UNCHANGED <<made, missed, pollerVars, conn, ready, number, deliveries,
                 consumerVars, env, troubles>>

\* The broker refuses it: Basic.Nack, which is counted.
Refuse ==
  /\ wire # <<>> /\ Trouble("nack")
  /\ wire' = Tail(wire)
  /\ tag' = tag + 1 /\ unconfirmed' = unconfirmed \cup {tag + 1}
  /\ UNCHANGED <<made, missed, pollerVars, conn, ready, number, deliveries, queue,
                 consumerVars>>

\* on_delivery_confirmation takes one number off the list, also when the
\* broker confirms all up to t at once.  When t is not on the list it raises,
\* and the reactor may close the connection.
Confirm(t) ==
  /\ conn = "up" /\ t \in unconfirmed
  /\ unconfirmed' \in {unconfirmed \ {t}, {u \in unconfirmed : u > t}}
  /\ deliveries' = deliveries \ {t}
  /\ UNCHANGED <<made, missed, pollerVars, conn, ready, number, wire, tag, queue,
                 consumerVars, env, troubles>>

-----------------------------------------------------------------------------
(* The consumer                                                            *)

StartConsumer ==
  /\ consumer = "down"
  /\ consumer' = "idle" /\ link' = TRUE /\ inbox' = <<>> /\ attempt' = 1
  /\ UNCHANGED <<made, missed, pollerVars, producerVars, queue, stored, env, troubles>>

\* The broker delivers without waiting for acknowledgements.
Deliver ==
  /\ consumer # "down" /\ link /\ Len(inbox) < Len(queue)
  /\ inbox' = Append(inbox, queue[Len(inbox) + 1])
  /\ UNCHANGED <<made, missed, pollerVars, producerVars, queue, consumer, link,
                 attempt, stored, env, troubles>>

\* A bug: a duplicate entry is raised like any other error.
Store_DuplicateRaises ==
  /\ consumer = "idle" /\ inbox # <<>>
  /\ Head(inbox) \notin stored
  /\ stored' = stored \cup {Head(inbox)}
  /\ consumer' = "ack"
  /\ UNCHANGED <<made, missed, pollerVars, producerVars, queue, link, inbox,
                 attempt, env, troubles>>

\* trades_consumer_function commits the row; a duplicate entry is fine.
Store ==
  /\ consumer = "idle" /\ inbox # <<>>
  /\ stored' = stored \cup {Head(inbox)}
  /\ consumer' = "ack"
  /\ UNCHANGED <<made, missed, pollerVars, producerVars, queue, link, inbox,
                 attempt, env, troubles>>

Dies ==
  /\ consumer' = "down" /\ link' = FALSE /\ inbox' = <<>> /\ attempt' = 1

\* on_message calls itself after a failure, up to its limit.
Retry ==
  IF attempt > MaxAttempts THEN Dies
  ELSE /\ attempt' = attempt + 1 /\ consumer' = "idle"
       /\ UNCHANGED <<link, inbox>>

\* A bug: the message is acknowledged whether or not it was stored.
StoreFails_Acks ==
  /\ consumer = "idle" /\ inbox # <<>> /\ Trouble("db")
  /\ consumer' = "ack"
  /\ UNCHANGED <<made, missed, pollerVars, producerVars, queue, link, inbox,
                 attempt, stored>>

\* A bug: it is handed back and the next one is tried.
StoreFails_Requeues ==
  /\ consumer = "idle" /\ inbox # <<>> /\ link /\ Trouble("db")
  /\ queue' = Append(Tail(queue), Head(queue)) /\ inbox' = Tail(inbox)
  /\ UNCHANGED <<made, missed, pollerVars, producerVars, consumer, link,
                 attempt, stored>>

\* The commit fails, or it succeeds and the answer is lost.
StoreFails ==
  /\ consumer = "idle" /\ inbox # <<>> /\ Trouble("db")
  /\ stored' \in {stored, stored \cup {Head(inbox)}}
  /\ Retry
  /\ UNCHANGED <<made, missed, pollerVars, producerVars, queue>>

Acknowledge ==
  /\ consumer = "ack"
  /\ queue' = IF link THEN Tail(queue) ELSE queue
  /\ inbox' = Tail(inbox) /\ attempt' = 1 /\ consumer' = "idle"
  /\ UNCHANGED <<made, missed, pollerVars, producerVars, link, stored, env, troubles>>

\* The connection is found closed and the channel None: the acknowledgement
\* raises, which counts as a failure of the message.
AcknowledgeFails ==
  /\ consumer = "ack" /\ ~link
  /\ Retry
  /\ UNCHANGED <<made, missed, pollerVars, producerVars, queue, stored, env, troubles>>

\* The broker closes the connection: it will deliver again what was not
\* acknowledged.  The process may still work on what it has received.
LinkCloses ==
  /\ consumer # "down" /\ link /\ Trouble("consumer")
  /\ link' = FALSE
  /\ UNCHANGED <<made, missed, pollerVars, producerVars, queue, consumer, inbox,
                 attempt, stored>>

\* on_connection_closed and reconnect; an exception ends the process.
ConsumerReconnects ==
  /\ consumer = "idle" /\ ~link
  /\ \/ link' = TRUE /\ inbox' = <<>> /\ attempt' = 1 /\ UNCHANGED consumer
     \/ Dies
  /\ UNCHANGED <<made, missed, pollerVars, producerVars, queue, stored, env, troubles>>

ConsumerCrashes ==
  /\ consumer # "down" /\ Trouble("consumer")
  /\ Dies
  /\ UNCHANGED <<made, missed, pollerVars, producerVars, queue, stored>>

-----------------------------------------------------------------------------

PollerNext ==
  \/ StartPoller \/ PollerStarted
  \/ \E n \in Trades : Poll(n)
  \/ SaveId \/ SaveIdFails \/ PollerCrashes

ProducerNext == ProducerOpened \/ ConnectionCloses \/ Reconnect \/ ConnectFails

BrokerNext == Accept \/ Refuse \/ (\E t \in 1..tag : Confirm(t)) \/ Deliver

ConsumerNext ==
  \/ StartConsumer \/ Store \/ StoreFails \/ Acknowledge \/ AcknowledgeFails
  \/ LinkCloses \/ ConsumerReconnects \/ ConsumerCrashes

Next == MakeTrade \/ PollerNext \/ ProducerNext \/ BrokerNext \/ ConsumerNext

Spec == Init /\ [][Next]_vars

\* LoopingCall polls again and again, Redis answers, connections and the
\* broker make progress, the consumer works on what it has, and a supervisor
\* starts stopped processes.  Nothing makes a trade happen.
Fairness ==
  /\ WF_vars(StartPoller) /\ WF_vars(PollerStarted)
  /\ WF_vars(\E n \in Trades : Poll(n)) /\ WF_vars(SaveId)
  /\ WF_vars(ProducerOpened) /\ WF_vars(Reconnect)
  /\ WF_vars(Accept) /\ WF_vars(Deliver)
  /\ WF_vars(StartConsumer) /\ WF_vars(Store) /\ WF_vars(ConsumerReconnects)
  /\ WF_vars(Acknowledge \/ AcknowledgeFails)

FairSpec == Spec /\ Fairness
=============================================================================
