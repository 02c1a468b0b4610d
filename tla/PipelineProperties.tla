------------------------- MODULE PipelineProperties -------------------------
(***************************************************************************)
(* What is checked and proved of TradePipeline.                            *)
(***************************************************************************)
EXTENDS TradePipeline, Functions

\* What the consumer has on its hands is the front of the queue, and it
\* acknowledges what is stored.  QueuedUntilStored rests on it.
Delivery ==
  /\ consumer = "ack" => inbox # <<>> /\ Head(inbox) \in stored
  /\ link => /\ Len(inbox) <= Len(queue)
             /\ \A i \in 1..Len(inbox) : inbox[i] = queue[i]

Underway == Range(wire) \cup Range(queue) \cup stored

(***************************************************************************)
(* A message leaves the queue only when its trade is in the table,         *)
(* whatever the consumer, its connection and its database do: on_message   *)
(* acknowledges after the commit, and a redelivered trade that is already  *)
(* there is acknowledged too.                                              *)
(***************************************************************************)
QueuedUntilStored ==
  [][Range(queue) \ Range(queue') \subseteq stored']_vars

\* The surroundings in which the broker does not close the producer's
\* connection; in which it refuses no message either; and in which the
\* exchange's answers are not old.
SteadyBroker == "close" \notin env
SafeBroker == SteadyBroker /\ "nack" \notin env
Prompt == SafeBroker /\ "stale" \notin env

(***************************************************************************)
(* What the poller has seen it has handed over: every trade up to          *)
(* most_recent_trade_id, in memory or in Redis, is on its way to the table *)
(* or in it, unless it had slipped out of the exchange's answers.  The id  *)
(* is saved after the trades were published, so that a crash in between    *)
(* publishes twice rather than never.                                      *)
(***************************************************************************)
SeenIsPublished ==
  \A t \in Trades : t <= recent \/ t <= saved => t \in Underway \cup missed

(***************************************************************************)
(* That is so as long as the broker keeps the producer's connection and    *)
(* takes what is published: crashes of the poller, a Redis that does not   *)
(* answer and old answers of the exchange lose nothing.                    *)
(***************************************************************************)
SeenIsPublishedSafely == SafeBroker => SeenIsPublished

(***************************************************************************)
(* Rows are added in the order of the trades, through crashes of both      *)
(* processes, redeliveries and retries: whoever reads the newest row knows *)
(* that the older ones are complete.  It takes a broker that loses nothing *)
(* and answers that are not old.                                           *)
(***************************************************************************)
StoredInOrder ==
  [][Prompt => \A t \in stored' \ stored : \A u \in stored : u < t]_vars

(***************************************************************************)
(* Every trade made is stored in the end or had slipped out of the         *)
(* answers, with a broker that loses nothing and answers that are not old. *)
(***************************************************************************)
EveryTradeStored ==
  \A t \in Trades : Prompt /\ made >= t ~> t \in stored \cup missed

(***************************************************************************)
(* _deliveries holds the message numbers that are pending confirmation     *)
(* (twisted_producer.py:190): a confirmation always finds its number, as   *)
(* long as the first connection of the process lasts, and also when it     *)
(* says that the message was refused.                                      *)
(***************************************************************************)
ConfirmationsExpected == SteadyBroker => unconfirmed \subseteq deliveries
=============================================================================
