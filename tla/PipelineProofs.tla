--------------------------- MODULE PipelineProofs ---------------------------
(***************************************************************************)
(* Proofs about the trade pipeline, for every number of trades, every      *)
(* window and every limit of attempts.                                     *)
(***************************************************************************)
EXTENDS PipelineProperties, SequenceTheorems, TLAPS

-----------------------------------------------------------------------------
(* What sequences contain                                                  *)

LEMMA InAppend ==
  ASSUME NEW S, NEW s \in Seq(S), NEW e \in S
  PROVE  Range(Append(s, e)) = Range(s) \cup {e}
  <1>1. <<e>> \in Seq(S) /\ Append(s, e) = s \o <<e>>
    BY AppendIsConcat
  <1>2. Range(<<e>>) = {<<e>>[i] : i \in 1..1}
    BY <1>1, RangeEquality
  <1>3. Range(<<e>>) = {e}
    BY <1>2
  <1>4. Range(s \o <<e>>) = Range(s) \cup Range(<<e>>)
    BY <1>1, RangeConcatenation
  <1>5. QED
    BY <1>1, <1>3, <1>4

LEMMA InTail ==
  ASSUME NEW S, NEW s \in Seq(S), s # <<>>
  PROVE  /\ Tail(s) \in Seq(S) /\ Head(s) \in S
         /\ Range(s) = Range(Tail(s)) \cup {Head(s)}
  <1>1. /\ Tail(s) \in Seq(S) /\ Head(s) \in S /\ Len(s) \in Nat \ {0}
        /\ Len(Tail(s)) = Len(s) - 1 /\ Head(s) = s[1]
        /\ \A i \in 1..(Len(s) - 1) : Tail(s)[i] = s[i + 1]
    OBVIOUS
  <1>2. /\ DOMAIN s = 1..Len(s) /\ DOMAIN Tail(s) = 1..(Len(s) - 1)
    BY <1>1
  <1>3. ASSUME NEW x \in Range(s) PROVE x \in Range(Tail(s)) \cup {Head(s)}
    <2>1. PICK i \in 1..Len(s) : x = s[i]
      BY <1>2 DEF Range
    <2>2. CASE i = 1
      BY <2>1, <2>2, <1>1
    <2>3. CASE i # 1
      <3>1. i - 1 \in 1..(Len(s) - 1) /\ Tail(s)[i - 1] = s[i]
        BY <2>1, <2>3, <1>1
      <3>2. QED
        BY <3>1, <2>1, <1>2 DEF Range
    <2>4. QED
      BY <2>2, <2>3
  <1>4. ASSUME NEW x \in Range(Tail(s)) \cup {Head(s)} PROVE x \in Range(s)
    BY <1>1, <1>2 DEF Range
  <1>5. QED
    BY <1>1, <1>3, <1>4

-----------------------------------------------------------------------------
(* Types                                                                   *)

\* The trades published for an answer are trades, and all those between
\* recent and n that the answer lists.
LEMMA FreshTrades ==
  ASSUME TypeOK, NEW n \in Trades
  PROVE  /\ Fresh(n) \in Seq(Trades)
         /\ (IF n > recent THEN n ELSE recent) \in 0..MaxTrades
         /\ (recent + 1)..(Oldest(n) - 1) \in SUBSET Trades
         /\ \A t \in Trades : recent < t /\ t <= n =>
              t \in Range(Fresh(n)) \cup ((recent + 1)..(Oldest(n) - 1))
  <1> USE PipelineAssumption DEF Trades
  <1>1. n \in 1..MaxTrades /\ recent \in 0..MaxTrades
    BY DEF TypeOK
  <1>2. Oldest(n) \in 1..n
    BY <1>1 DEF Oldest
  <1>3. FirstNew(n) \in 1..(MaxTrades + 1) /\ FirstNew(n) > recent
    BY <1>1, <1>2 DEF FirstNew
  <1>4. n + 1 - FirstNew(n) \in Int
        /\ \A i \in 1..(n + 1 - FirstNew(n)) : FirstNew(n) + i - 1 \in 1..MaxTrades
    BY <1>1, <1>3
  <1>5. PICK k \in Nat : 1..(n + 1 - FirstNew(n)) = 1..k
    <2>1. CASE n + 1 - FirstNew(n) \in Nat
      BY <2>1
    <2>2. CASE ~(n + 1 - FirstNew(n) \in Nat)
      <3>1. 1..(n + 1 - FirstNew(n)) = 1..0
        BY <1>4, <2>2
      <3>2. QED
        BY <3>1
    <2>3. QED
      BY <2>1, <2>2
  <1>6. Fresh(n) \in [1..k -> Trades]
    BY <1>4, <1>5 DEF Fresh
  <1>7. Fresh(n) \in Seq(Trades)
    BY <1>6, SeqDef
  <1>8. ASSUME NEW t \in Trades, recent < t, t <= n, ~(t < Oldest(n))
        PROVE  t \in Range(Fresh(n))
    <2>1. t >= FirstNew(n)
      BY <1>8, <1>1, <1>2 DEF FirstNew
    <2>2. t + 1 - FirstNew(n) \in 1..(n + 1 - FirstNew(n))
      BY <2>1, <1>8, <1>1, <1>3
    <2>3. Fresh(n)[t + 1 - FirstNew(n)] = FirstNew(n) + (t + 1 - FirstNew(n)) - 1
      BY <2>2 DEF Fresh
    <2>4. Fresh(n)[t + 1 - FirstNew(n)] = t
      BY <2>3, <1>1, <1>3
    <2>5. DOMAIN Fresh(n) = 1..(n + 1 - FirstNew(n))
      BY DEF Fresh
    <2>6. QED
      BY <2>2, <2>4, <2>5 DEF Range
  <1>9. QED
    BY <1>1, <1>2, <1>7, <1>8

LEMMA InitialTypes == Init => TypeOK
  <1>1. <<>> \in Seq(Trades) /\ {} \in SUBSET Trades /\ {} \in SUBSET Nat
    BY EmptySeq
  <1>2. 0 \in 0..MaxTrades /\ 1 \in 1..(MaxAttempts + 1) /\ 0 \in Nat
    BY PipelineAssumption
  <1>3. QED
    BY <1>1, <1>2, Zenon DEF Init, TypeOK

\* The surroundings stay what they were.
LEMMA EnvKept == ASSUME [Next]_vars PROVE env' = env
  <1>1. CASE MakeTrade \/ ProducerNext \/ BrokerNext \/ UNCHANGED vars
    BY <1>1 DEF MakeTrade, ProducerNext, ProducerOpened, ConnectionCloses, Reconnect,
      ConnectFails, BrokerNext, Accept, Refuse, Confirm, Deliver, Trouble, vars
  <1>2. CASE PollerNext
    BY <1>2 DEF PollerNext, StartPoller, PollerStarted, Poll, SaveId, SaveIdFails,
      PollerCrashes, Trouble
  <1>3. CASE ConsumerNext
    BY <1>3 DEF ConsumerNext, StartConsumer, Store, StoreFails, Acknowledge,
      AcknowledgeFails, LinkCloses, ConsumerReconnects, ConsumerCrashes, Trouble
  <1>4. QED
    BY <1>1, <1>2, <1>3 DEF Next

LEMMA TypeStep ==
  ASSUME TypeOK, Delivery, [Next]_vars
  PROVE  TypeOK'
  <1>0. env' \in Envs
    BY EnvKept DEF TypeOK
  <1>1. CASE MakeTrade
    BY <1>1, PipelineAssumption DEF TypeOK, MakeTrade, Trades, pollerVars, producerVars, consumerVars
  <1>2. CASE PollerNext
    <2>1. CASE StartPoller \/ PollerStarted
      BY <2>1 DEF TypeOK, StartPoller, PollerStarted, producerVars, consumerVars
    <2>2. ASSUME NEW n \in Trades, Poll(n) PROVE TypeOK'
      <3>1. /\ Fresh(n) \in Seq(Trades)
            /\ recent' \in 0..MaxTrades
            /\ missed' \in SUBSET Trades
        BY <2>2, FreshTrades DEF Poll, TypeOK
      <3>2. /\ wire' \in Seq(Trades)
            /\ number' \in Nat /\ deliveries' \in SUBSET Nat
            /\ UNCHANGED <<conn, ready, tag, unconfirmed>>
        <4>1. CASE conn = "up"
          <5>1. Len(Fresh(n)) \in Nat
            BY <3>1
          <5>2. /\ wire' = wire \o Fresh(n)
                /\ number' = number + Len(Fresh(n))
                /\ deliveries' = deliveries \cup ((number + 1)..(number + Len(Fresh(n))))
                /\ UNCHANGED <<conn, ready, tag, unconfirmed>>
            BY <2>2, <4>1 DEF Poll, Publish
          <5>3. number' \in Nat
            BY <5>1, <5>2 DEF TypeOK
          <5>4. deliveries' \in SUBSET Nat
            <6>1. (number + 1)..(number + Len(Fresh(n))) \subseteq Nat
              BY <5>1 DEF TypeOK
            <6>2. QED
              BY <6>1, <5>2 DEF TypeOK
          <5>5. wire' \in Seq(Trades)
            BY <5>2, <3>1, ConcatProperties DEF TypeOK
          <5>6. QED
            BY <5>2, <5>3, <5>4, <5>5
        <4>2. CASE conn # "up"
          BY <2>2, <4>2 DEF Poll, Publish, producerVars, TypeOK
        <4>3. QED
          BY <4>1, <4>2
      <3>3. QED
        BY <1>0, <2>2, <3>1, <3>2 DEF TypeOK, Poll, consumerVars
    <2>3. CASE SaveId \/ SaveIdFails
      <3>1. /\ poller' = "idle" /\ saved' \in {saved, recent}
            /\ troubles' \in {troubles, troubles + 1}
            /\ UNCHANGED <<made, missed, recent, producerVars, queue,
                           consumerVars>>
        BY <2>3 DEF SaveId, SaveIdFails, Trouble
      <3>2. QED
        BY <1>0, <3>1 DEF TypeOK, producerVars, consumerVars
    <2>4. CASE PollerCrashes
      <3>1. Flushed \subseteq 0..Len(wire)
        BY DEF Flushed, TypeOK
      <3>2. PICK n \in 0..Len(wire) : queue' = queue \o SubSeq(wire, 1, n)
        BY <2>4, <3>1 DEF PollerCrashes
      <3>3. SubSeq(wire, 1, n) \in Seq(Trades)
        BY <3>2, ElementOfSeq, SubSeqProperties DEF TypeOK
      <3>4. queue' \in Seq(Trades)
        BY <3>2, <3>3, ConcatProperties DEF TypeOK
      <3>5. <<>> \in Seq(Trades) /\ troubles' \in Nat
        BY <2>4, EmptySeq DEF TypeOK, PollerCrashes, Trouble
      <3>6. 0 \in 0..MaxTrades
        BY PipelineAssumption
      <3>7. QED
        BY <1>0, <2>4, <3>4, <3>5, <3>6 DEF TypeOK, PollerCrashes, consumerVars
    <2>5. QED
      BY <1>2, <2>1, <2>2, <2>3, <2>4 DEF PollerNext
  <1>3. CASE ProducerNext
    <2>1. /\ conn' \in {"opening", "up", "closed", "gone"}
          /\ ready' \in {ready, TRUE, FALSE}
          /\ tag' \in {tag, 0} /\ wire' \in {wire, <<>>}
          /\ unconfirmed' \in {unconfirmed, {}}
          /\ troubles' \in {troubles, troubles + 1}
          /\ UNCHANGED <<made, missed, pollerVars, number, deliveries, queue,
                         consumerVars>>
      BY <1>3 DEF ProducerNext, ProducerOpened, ConnectionCloses, Reconnect,
        ConnectFails, Trouble
    <2>2. <<>> \in Seq(Trades)
      BY EmptySeq
    <2>3. ready' \in BOOLEAN
      BY <2>1 DEF TypeOK
    <2>4. tag' \in Nat /\ troubles' \in Nat
      BY <2>1 DEF TypeOK
    <2>5. wire' \in Seq(Trades)
      BY <2>1, <2>2, Zenon DEF TypeOK
    <2>6. unconfirmed' \in SUBSET Nat
      BY <2>1 DEF TypeOK
    <2>7. QED
      BY <1>0, <2>1, <2>3, <2>4, <2>6, <2>5 DEF TypeOK, pollerVars, consumerVars
  <1>4. CASE BrokerNext
    <2>1. CASE Accept
      BY <2>1, InTail, AppendProperties DEF TypeOK, Accept, pollerVars, consumerVars
    <2>2. CASE Refuse
      BY <2>2, InTail DEF TypeOK, Refuse, Trouble, pollerVars, consumerVars
    <2>3. ASSUME NEW t \in 1..tag, Confirm(t) PROVE TypeOK'
      BY <2>3 DEF TypeOK, Confirm, pollerVars, consumerVars
    <2>4. CASE Deliver
      <3>1. queue[Len(inbox) + 1] \in Trades
        BY <2>4 DEF Deliver, TypeOK
      <3>2. QED
        BY <2>4, <3>1, AppendProperties DEF TypeOK, Deliver, pollerVars, producerVars
    <2>5. QED
      BY <1>4, <2>1, <2>2, <2>3, <2>4 DEF BrokerNext
  <1>5. CASE ConsumerNext
    <2>1. /\ <<>> \in Seq(Trades)
          /\ inbox # <<>> => Head(inbox) \in Trades /\ Tail(inbox) \in Seq(Trades)
          /\ queue # <<>> => Tail(queue) \in Seq(Trades)
      BY EmptySeq, InTail DEF TypeOK
    <2>2. inbox # <<>> /\ link => queue # <<>>
      BY DEF Delivery, TypeOK
    <2>3. 1 \in 1..(MaxAttempts + 1)
          /\ (attempt <= MaxAttempts => attempt + 1 \in 1..(MaxAttempts + 1))
      BY PipelineAssumption DEF TypeOK
    <2>4. Dies \/ Retry =>
            /\ attempt' \in 1..(MaxAttempts + 1) /\ inbox' \in {inbox, <<>>}
            /\ consumer' \in {"idle", "down"} /\ link' \in {link, FALSE}
      <3>1. Dies => attempt' = 1 /\ inbox' = <<>> /\ consumer' = "down" /\ link' = FALSE
        BY DEF Dies
      <3>2. Retry => \/ Dies
                     \/ /\ attempt <= MaxAttempts /\ attempt' = attempt + 1
                        /\ consumer' = "idle" /\ link' = link /\ inbox' = inbox
        BY PipelineAssumption DEF Retry, TypeOK
      <3>3. QED
        BY <2>3, <3>1, <3>2
    <2>5. CASE StartConsumer \/ LinkCloses
      <3>1. /\ consumer' \in {consumer, "idle"} /\ link' \in {TRUE, FALSE}
            /\ inbox' \in {inbox, <<>>} /\ attempt' \in {attempt, 1}
            /\ troubles' \in {troubles, troubles + 1}
            /\ UNCHANGED <<made, missed, pollerVars, producerVars, queue, stored>>
        BY <2>5, Zenon DEF StartConsumer, LinkCloses, Trouble
      <3>2. inbox' \in Seq(Trades)
        BY <3>1, <2>1, Zenon DEF TypeOK
      <3>3. link' \in BOOLEAN /\ consumer' \in {"down", "idle", "ack"}
        BY <3>1, Zenon DEF TypeOK
      <3>4. attempt' \in 1..(MaxAttempts + 1) /\ troubles' \in Nat
        BY <3>1, <2>3 DEF TypeOK
      <3>5. QED
        BY <1>0, <3>1, <3>2, <3>3, <3>4 DEF TypeOK, pollerVars, producerVars
    <2>6. CASE ConsumerReconnects \/ ConsumerCrashes
      <3>1. /\ consumer' \in {consumer, "down"} /\ link' \in {TRUE, FALSE}
            /\ inbox' = <<>> /\ attempt' = 1
            /\ troubles' \in {troubles, troubles + 1}
            /\ UNCHANGED <<made, missed, pollerVars, producerVars, queue, stored>>
        BY <2>6, Zenon DEF ConsumerReconnects, ConsumerCrashes, Dies, Trouble
      <3>2. inbox' \in Seq(Trades)
        BY <3>1, <2>1, Zenon DEF TypeOK
      <3>3. link' \in BOOLEAN /\ consumer' \in {"down", "idle", "ack"}
        BY <3>1, Zenon DEF TypeOK
      <3>4. attempt' \in 1..(MaxAttempts + 1) /\ troubles' \in Nat
        BY <3>1, <2>3 DEF TypeOK
      <3>5. QED
        BY <1>0, <3>1, <3>2, <3>3, <3>4 DEF TypeOK, pollerVars, producerVars
    <2>7. CASE Store
      BY <2>7, <2>1 DEF Store, TypeOK, pollerVars, producerVars
    <2>8. CASE StoreFails
      <3>1. /\ stored' \in {stored, stored \cup {Head(inbox)}} /\ inbox # <<>>
            /\ Retry /\ troubles' = troubles + 1
            /\ UNCHANGED <<made, missed, pollerVars, producerVars, queue>>
        BY <2>8 DEF StoreFails, Trouble
      <3>2. link' \in BOOLEAN /\ stored' \in SUBSET Trades
        BY <3>1, <2>1, <2>4 DEF TypeOK
      <3>3. /\ attempt' \in 1..(MaxAttempts + 1)
            /\ consumer' \in {"down", "idle", "ack"} /\ troubles' \in Nat
        BY <3>1, <2>4 DEF TypeOK
      <3>4. inbox' \in Seq(Trades)
        BY <3>1, <2>1, <2>4 DEF TypeOK
      <3>5. QED
        BY <1>0, <3>1, <3>2, <3>3, <3>4 DEF TypeOK, pollerVars, producerVars
    <2>9. CASE Acknowledge
      <3>1. inbox # <<>> /\ (link => queue # <<>>)
        BY <2>9, <2>2 DEF Acknowledge, Delivery
      <3>2. inbox' \in Seq(Trades) /\ queue' \in Seq(Trades)
        BY <2>9, <3>1, <2>1 DEF Acknowledge, TypeOK
      <3>3. /\ attempt' = 1 /\ consumer' = "idle"
            /\ UNCHANGED <<made, missed, pollerVars, producerVars, link, stored, troubles>>
        BY <2>9 DEF Acknowledge
      <3>4. QED
        BY <1>0, <3>2, <3>3, <2>3 DEF TypeOK, pollerVars, producerVars
    <2>10. CASE AcknowledgeFails
      <3>1. /\ Retry
            /\ UNCHANGED <<made, missed, pollerVars, producerVars, queue, stored,
                           troubles>>
        BY <2>10 DEF AcknowledgeFails
      <3>2. link' \in BOOLEAN
        BY <3>1, <2>4 DEF TypeOK
      <3>3. /\ inbox' \in Seq(Trades) /\ attempt' \in 1..(MaxAttempts + 1)
            /\ consumer' \in {"down", "idle", "ack"}
        BY <3>1, <2>1, <2>4 DEF TypeOK
      <3>4. QED
        BY <1>0, <3>1, <3>2, <3>3 DEF TypeOK, pollerVars, producerVars
    <2>11. QED
      BY <1>5, <2>5, <2>6, <2>7, <2>8, <2>9, <2>10 DEF ConsumerNext
  <1>6. CASE UNCHANGED vars
    BY <1>6 DEF TypeOK, vars, pollerVars, producerVars, consumerVars
  <1>7. QED
    BY <1>1, <1>2, <1>3, <1>4, <1>5, <1>6 DEF Next

-----------------------------------------------------------------------------
(* Delivery                                                                *)

\* What a step does to the queue and to the consumer: it appends to the
\* queue; or delivers; or acknowledges; or it is another consumer's step.
LEMMA DeliveryKinds ==
  ASSUME TypeOK, [Next]_vars
  PROVE  \/ /\ UNCHANGED <<consumer, link, inbox, stored>>
            /\ \E s \in Seq(Trades) : queue' = queue \o s
         \/ Deliver
         \/ Acknowledge
         \/ /\ queue' = queue /\ stored \subseteq stored'
            /\ link' => (link /\ inbox' = inbox) \/ inbox' = <<>>
            /\ consumer' = "ack" =>
                 /\ inbox' = inbox
                 /\ \/ consumer = "ack"
                    \/ inbox # <<>> /\ Head(inbox) \in stored'
  <1>1. queue' = queue => \E s \in Seq(Trades) : queue' = queue \o s
    BY EmptySeq, ConcatEmptySeq DEF TypeOK
  <1>2. CASE MakeTrade \/ ProducerNext \/ UNCHANGED vars
    <2>1. UNCHANGED <<consumer, link, inbox, stored, queue>>
      BY <1>2 DEF MakeTrade, ProducerNext, ProducerOpened, ConnectionCloses,
        Reconnect, ConnectFails, vars, consumerVars
    <2>2. QED
      BY <2>1, <1>1
  <1>3. CASE PollerNext
    <2>1. CASE PollerCrashes
      <3>1. Flushed \subseteq 0..Len(wire)
        BY DEF Flushed, TypeOK
      <3>2. PICK n \in 0..Len(wire) : queue' = queue \o SubSeq(wire, 1, n)
        BY <2>1, <3>1 DEF PollerCrashes
      <3>3. SubSeq(wire, 1, n) \in Seq(Trades)
        BY <3>2, ElementOfSeq, SubSeqProperties DEF TypeOK
      <3>4. QED
        BY <3>2, <3>3, <2>1 DEF PollerCrashes, consumerVars
    <2>2. CASE ~PollerCrashes
      <3>1. UNCHANGED <<consumer, link, inbox, stored, queue>>
        BY <1>3, <2>2 DEF PollerNext, StartPoller, PollerStarted, Poll, SaveId,
          SaveIdFails, consumerVars
      <3>2. QED
        BY <3>1, <1>1
    <2>3. QED
      BY <2>1, <2>2
  <1>4. CASE BrokerNext
    <2>1. CASE Accept
      <3>1. /\ Head(wire) \in Trades /\ queue' = Append(queue, Head(wire))
            /\ UNCHANGED <<consumer, link, inbox, stored>>
        BY <2>1, InTail DEF Accept, TypeOK, consumerVars
      <3>2. <<Head(wire)>> \in Seq(Trades) /\ queue' = queue \o <<Head(wire)>>
        BY <3>1, AppendIsConcat DEF TypeOK
      <3>3. QED
        BY <3>1, <3>2
    <2>2. CASE Refuse \/ \E t \in 1..tag : Confirm(t)
      <3>1. UNCHANGED <<consumer, link, inbox, stored, queue>>
        BY <2>2 DEF Refuse, Confirm, consumerVars
      <3>2. QED
        BY <3>1, <1>1
    <2>3. QED
      BY <1>4, <2>1, <2>2 DEF BrokerNext
  <1>5. CASE ConsumerNext
    BY <1>5 DEF ConsumerNext, StartConsumer, Store, StoreFails, AcknowledgeFails,
      LinkCloses, ConsumerReconnects, ConsumerCrashes, Dies, Retry
  <1>6. QED
    BY <1>2, <1>3, <1>4, <1>5 DEF Next

LEMMA DeliveryStep ==
  ASSUME TypeOK, Delivery, [Next]_vars
  PROVE  Delivery' /\ Range(queue) \ Range(queue') \subseteq stored'
  <1>1. CASE UNCHANGED <<consumer, link, inbox, stored>> /\
             \E s \in Seq(Trades) : queue' = queue \o s
    <2>1. PICK s \in Seq(Trades) : queue' = queue \o s
      BY <1>1
    <2>2. Range(queue') = Range(queue) \cup Range(s)
      BY <2>1, RangeConcatenation DEF TypeOK
    <2>3. /\ Len(queue) \in Nat /\ Len(s) \in Nat
          /\ Len(queue') = Len(queue) + Len(s)
          /\ \A i \in 1..Len(queue) : queue'[i] = queue[i]
      BY <2>1, ConcatProperties DEF TypeOK
    <2>4. Delivery'
      BY <1>1, <2>3 DEF Delivery, TypeOK
    <2>5. QED
      BY <2>2, <2>4
  <1>2. CASE Deliver
    <2>1. /\ inbox' = Append(inbox, queue[Len(inbox) + 1])
          /\ Len(inbox) < Len(queue) /\ link
          /\ UNCHANGED <<queue, consumer, link, stored>>
      BY <1>2 DEF Deliver
    <2>2. queue[Len(inbox) + 1] \in Trades /\ inbox \in Seq(Trades)
      BY <2>1 DEF TypeOK
    <2>3. /\ Len(inbox') = Len(inbox) + 1
          /\ \A i \in 1..Len(inbox) : inbox'[i] = inbox[i]
          /\ inbox'[Len(inbox) + 1] = queue[Len(inbox) + 1]
          /\ inbox' # <<>>
      BY <2>1, <2>2, AppendProperties
    <2>4. inbox # <<>> => Head(inbox') = Head(inbox)
      BY <2>1, <2>2, HeadTailAppend
    <2>5. \A i \in 1..Len(inbox') : inbox'[i] = queue'[i]
      <3>1. TAKE i \in 1..Len(inbox')
      <3>2. CASE i = Len(inbox) + 1
        BY <3>2, <2>1, <2>3
      <3>3. CASE i # Len(inbox) + 1
        <4>1. i \in 1..Len(inbox)
          BY <3>3, <2>2, <2>3
        <4>2. QED
          BY <4>1, <2>1, <2>3 DEF Delivery
      <3>4. QED
        BY <3>2, <3>3
    <2>6. Len(inbox') <= Len(queue')
      BY <2>1, <2>2, <2>3 DEF TypeOK
    <2>7. QED
      BY <2>1, <2>3, <2>4, <2>5, <2>6 DEF Delivery
  <1>3. CASE Acknowledge
    <2>1. /\ inbox # <<>> /\ Head(inbox) \in stored
          /\ inbox' = Tail(inbox) /\ consumer' = "idle"
          /\ UNCHANGED <<link, stored>>
      BY <1>3 DEF Acknowledge, Delivery
    <2>2. CASE link
      <3>1. queue' = Tail(queue)
        BY <1>3, <2>2 DEF Acknowledge
      <3>2. queue # <<>> /\ Head(queue) = Head(inbox)
        BY <2>1, <2>2 DEF Delivery, TypeOK
      <3>3. Range(queue) = Range(queue') \cup {Head(inbox)}
        BY <3>1, <3>2, InTail DEF TypeOK
      <3>4. /\ Len(inbox) \in Nat /\ Len(queue) \in Nat
            /\ Len(inbox') = Len(inbox) - 1 /\ Len(queue') = Len(queue) - 1
            /\ \A i \in 1..Len(inbox') : inbox'[i] = inbox[i + 1]
            /\ \A i \in 1..Len(queue') : queue'[i] = queue[i + 1]
        BY <2>1, <3>1, <3>2, HeadTailProperties DEF TypeOK
      <3>5. Len(inbox) <= Len(queue)
            /\ \A i \in 1..Len(inbox) : inbox[i] = queue[i]
        BY <2>2 DEF Delivery
      <3>6. \A i \in 1..Len(inbox') : inbox'[i] = queue'[i]
        <4>1. TAKE i \in 1..Len(inbox')
        <4>2. i + 1 \in 1..Len(inbox) /\ i \in 1..Len(queue')
          BY <3>4, <3>5
        <4>3. QED
          BY <4>2, <3>4, <3>5
      <3>7. Len(inbox') <= Len(queue')
        BY <3>4, <3>5
      <3>8. QED
        BY <2>1, <3>3, <3>6, <3>7 DEF Delivery
    <2>3. CASE ~link
      BY <1>3, <2>1, <2>3 DEF Acknowledge, Delivery
    <2>4. QED
      BY <2>2, <2>3
  <1>4. CASE /\ queue' = queue /\ stored \subseteq stored'
             /\ link' => (link /\ inbox' = inbox) \/ inbox' = <<>>
             /\ consumer' = "ack" =>
                  /\ inbox' = inbox
                  /\ \/ consumer = "ack"
                     \/ inbox # <<>> /\ Head(inbox) \in stored'
    <2>1. consumer' = "ack" => inbox' # <<>> /\ Head(inbox') \in stored'
      BY <1>4 DEF Delivery
    <2>2. CASE link' /\ link /\ inbox' = inbox
      BY <1>4, <2>1, <2>2 DEF Delivery
    <2>3. CASE inbox' = <<>>
      <3>1. Len(inbox') = 0 /\ Len(queue') \in Nat
        BY <1>4, <2>3 DEF TypeOK
      <3>2. Len(inbox') <= Len(queue') /\ \A i \in 1..Len(inbox') : inbox'[i] = queue'[i]
        BY <3>1
      <3>3. QED
        BY <1>4, <2>1, <3>2 DEF Delivery
    <2>4. CASE ~link'
      BY <1>4, <2>1, <2>4 DEF Delivery
    <2>5. QED
      BY <1>4, <2>2, <2>3, <2>4
  <1>5. QED
    BY <1>1, <1>2, <1>3, <1>4, DeliveryKinds

\* The type invariant, for all constants and every kind of trouble.
THEOREM PipelineTypes == Spec => [](TypeOK /\ Delivery)
  <1>1. Init => TypeOK /\ Delivery
    BY InitialTypes DEF Init, Delivery
  <1>2. TypeOK /\ Delivery /\ [Next]_vars => (TypeOK /\ Delivery)'
    BY TypeStep, DeliveryStep
  <1>3. QED
    BY <1>1, <1>2, PTL DEF Spec

\* Nothing leaves the queue before it is stored, whatever fails.
THEOREM Durable == Spec => QueuedUntilStored
  <1>1. TypeOK /\ Delivery /\ [Next]_vars =>
          [Range(queue) \ Range(queue') \subseteq stored']_vars
    BY DeliveryStep
  <1>2. QED
    BY <1>1, PipelineTypes, PTL DEF Spec, QueuedUntilStored

-----------------------------------------------------------------------------
(* Nothing seen is forgotten                                               *)

\* The surroundings stay as they are.
LEMMA BrokerKept ==
  ASSUME [Next]_vars
  PROVE  SafeBroker' = SafeBroker /\ SteadyBroker' = SteadyBroker /\ Prompt' = Prompt
  BY EnvKept DEF SafeBroker, SteadyBroker, Prompt

\* Then the producer is connected whenever the poller polls.
Connected ==
  /\ ready => conn = "up"
  /\ poller = "down" => conn = "gone"
  /\ poller \in {"idle", "saving"} => ready

LEMMA ConnectedStep ==
  ASSUME SafeBroker, Connected, [Next]_vars
  PROVE  Connected'
  <1>1. CASE PollerNext
    <2>1. CASE StartPoller
      <3>1. ~ready /\ ready' = ready /\ poller' = "starting"
        BY <2>1 DEF Connected, StartPoller
      <3>2. QED
        BY <3>1, Zenon DEF Connected
    <2>2. CASE PollerCrashes
      BY <2>2, Zenon DEF Connected, PollerCrashes
    <2>3. CASE PollerStarted \/ SaveId \/ SaveIdFails
      BY <2>3 DEF Connected, PollerStarted, SaveId, SaveIdFails, producerVars
    <2>4. ASSUME NEW n \in Trades, Poll(n) PROVE Connected'
      BY <2>4 DEF Connected, Poll, Publish, producerVars
    <2>5. QED
      BY <1>1, <2>1, <2>2, <2>3, <2>4 DEF PollerNext
  <1>2. CASE ProducerNext
    BY <1>2 DEF SafeBroker, SteadyBroker, Connected, ProducerNext, ProducerOpened, ConnectionCloses,
      Reconnect, ConnectFails, Trouble, pollerVars
  <1>3. CASE BrokerNext
    BY <1>3 DEF Connected, BrokerNext, Accept, Refuse, Confirm, Deliver, pollerVars,
      producerVars
  <1>4. CASE MakeTrade \/ ConsumerNext \/ UNCHANGED vars
    <2>1. UNCHANGED <<poller, conn, ready>>
      BY <1>4 DEF MakeTrade, ConsumerNext, StartConsumer, Store, StoreFails, Acknowledge,
        AcknowledgeFails, LinkCloses, ConsumerReconnects, ConsumerCrashes, vars,
        pollerVars, producerVars
    <2>2. QED
      BY <2>1 DEF Connected
  <1>5. QED
    BY <1>1, <1>2, <1>3, <1>4 DEF Next

\* What is under way stays under way, until it is stored for good.
LEMMA UnderwayGrows ==
  ASSUME SafeBroker, TypeOK, Delivery, [Next]_vars
  PROVE  Underway \subseteq Underway'
  <1>1. Range(queue) \subseteq Range(queue') \cup stored'
    BY DeliveryStep
  <1>2. stored \subseteq stored'
    BY DeliveryKinds DEF Deliver, Acknowledge
  <1>3. Range(wire) \subseteq Range(wire') \cup Range(queue')
    <2>1. CASE Accept
      <3>1. /\ wire # <<>> /\ wire' = Tail(wire) /\ queue' = Append(queue, Head(wire))
            /\ Head(wire) \in Trades
        BY <2>1, InTail DEF Accept, TypeOK
      <3>2. Range(wire) = Range(wire') \cup {Head(wire)}
        BY <3>1, InTail DEF TypeOK
      <3>3. Range(queue') = Range(queue) \cup {Head(wire)}
        BY <3>1, InAppend DEF TypeOK
      <3>4. QED
        BY <3>2, <3>3
    <2>2. CASE PollerCrashes
      <3>1. Len(wire) \in Nat /\ queue' = queue \o SubSeq(wire, 1, Len(wire))
        BY <2>2 DEF PollerCrashes, Flushed, SafeBroker, SteadyBroker, TypeOK
      <3>2. queue' = queue \o wire
        BY <3>1, SubSeqFull DEF TypeOK
      <3>3. QED
        BY <3>2, RangeConcatenation DEF TypeOK
    <2>3. ASSUME NEW n \in Trades, Poll(n) PROVE Range(wire) \subseteq Range(wire')
      <3>1. Fresh(n) \in Seq(Trades)
        BY FreshTrades
      <3>2. wire' = wire \o Fresh(n) \/ wire' = wire
        BY <2>3 DEF Poll, Publish, producerVars
      <3>3. wire \in Seq(Trades) /\ Range(wire \o Fresh(n)) = Range(wire) \cup Range(Fresh(n))
        BY <3>1, RangeConcatenation DEF TypeOK
      <3>4. QED
        BY <3>2, <3>3
    <2>4. CASE ~Accept /\ ~PollerCrashes /\ ~(\E n \in Trades : Poll(n))
      <3>1. wire' = wire
        BY <2>4 DEF SafeBroker, SteadyBroker, Trouble, Next, MakeTrade, PollerNext, StartPoller, PollerStarted, SaveId,
          SaveIdFails, ProducerNext, ProducerOpened, ConnectionCloses, Reconnect,
          ConnectFails, BrokerNext, Refuse, Confirm, Deliver, ConsumerNext,
          StartConsumer, Store, StoreFails, Acknowledge, AcknowledgeFails, LinkCloses,
          ConsumerReconnects, ConsumerCrashes, vars, producerVars
      <3>2. QED
        BY <3>1
    <2>5. QED
      BY <2>1, <2>2, <2>3, <2>4
  <1>4. QED
    BY <1>1, <1>2, <1>3 DEF Underway

LEMMA SeenStep ==
  ASSUME SafeBroker, TypeOK, Delivery, Connected, SeenIsPublished, [Next]_vars
  PROVE  SeenIsPublished'
  <1>1. Underway \subseteq Underway'
    BY UnderwayGrows
  <1>2. ASSUME NEW n \in Trades, Poll(n) PROVE SeenIsPublished'
    <2>1. conn = "up"
      BY <1>2 DEF Poll, Connected
    <2>2. /\ Fresh(n) \in Seq(Trades)
          /\ \A t \in Trades : recent < t /\ t <= n =>
               t \in Range(Fresh(n)) \cup ((recent + 1)..(Oldest(n) - 1))
      BY FreshTrades
    <2>3. /\ wire' = wire \o Fresh(n) /\ saved' = saved
          /\ missed' = missed \cup ((recent + 1)..(Oldest(n) - 1))
          /\ recent' = IF n > recent THEN n ELSE recent
      BY <1>2, <2>1 DEF Poll, Publish
    <2>4. Range(Fresh(n)) \subseteq Underway'
      BY <2>2, <2>3, RangeConcatenation DEF TypeOK, Underway
    <2>5. SUFFICES ASSUME NEW t \in Trades, t <= recent' \/ t <= saved'
                   PROVE  t \in Underway' \cup missed'
      BY DEF SeenIsPublished, Trades
    <2>6. CASE t <= recent \/ t <= saved
      BY <2>6, <1>1, <2>3 DEF SeenIsPublished
    <2>7. CASE ~(t <= recent \/ t <= saved)
      <3>1. recent < t /\ t <= n
        BY <2>3, <2>5, <2>7 DEF TypeOK, Trades
      <3>2. QED
        BY <3>1, <2>2, <2>3, <2>4
    <2>8. QED
      BY <2>6, <2>7
  <1>3. CASE ~(\E n \in Trades : Poll(n))
    <2>1. missed' = missed
      BY <1>3 DEF Next, MakeTrade, PollerNext, StartPoller, PollerStarted, SaveId,
        SaveIdFails, PollerCrashes, ProducerNext, ProducerOpened, ConnectionCloses,
        Reconnect, ConnectFails, BrokerNext, Accept, Refuse, Confirm, Deliver,
        ConsumerNext, StartConsumer, Store, StoreFails, Acknowledge, AcknowledgeFails,
        LinkCloses, ConsumerReconnects, ConsumerCrashes, vars
    <2>2. recent' \in {recent, saved, 0} /\ saved' \in {saved, recent}
      BY <1>3 DEF Next, MakeTrade, PollerNext, StartPoller, PollerStarted, SaveId,
        SaveIdFails, PollerCrashes, ProducerNext, ProducerOpened, ConnectionCloses,
        Reconnect, ConnectFails, BrokerNext, Accept, Refuse, Confirm, Deliver,
        ConsumerNext, StartConsumer, Store, StoreFails, Acknowledge, AcknowledgeFails,
        LinkCloses, ConsumerReconnects, ConsumerCrashes, vars, pollerVars
    <2>3. SUFFICES ASSUME NEW t \in Trades, t <= recent' \/ t <= saved'
                   PROVE  t \in Underway' \cup missed'
      BY DEF SeenIsPublished, Trades
    <2>4. t <= recent \/ t <= saved
      BY <2>2, <2>3 DEF Trades, TypeOK
    <2>5. QED
      BY <2>1, <2>4, <1>1 DEF SeenIsPublished
  <1>4. QED
    BY <1>2, <1>3

\* Every trade the poller has seen is stored or on its way, through crashes
\* of both processes and failures of Redis and the database, as long as the
\* broker keeps its connections.
THEOREM NothingForgotten == Spec => []SeenIsPublishedSafely
  <1> DEFINE Seen == SafeBroker => Connected /\ SeenIsPublished
  <1>1. Init => Seen
    BY DEF Init, Connected, SeenIsPublished, Trades
  <1>2. TypeOK /\ Delivery /\ Seen /\ [Next]_vars => Seen'
    BY BrokerKept, ConnectedStep, SeenStep
  <1>3. Seen => SeenIsPublishedSafely
    BY DEF SeenIsPublishedSafely
  <1> HIDE DEF Seen
  <1>4. QED
    BY <1>1, <1>2, <1>3, PipelineTypes, PTL DEF Spec

-----------------------------------------------------------------------------
(* Confirmations                                                           *)

\* Message numbers and delivery tags count alike: the messages on the wire
\* have the numbers after the last tag, and what was not confirmed is still
\* on the list.
Numbered ==
  /\ conn # "closed"
  /\ poller = "down" \/ conn = "opening" => number = 0 /\ tag = 0 /\ wire = <<>>
  /\ number = tag + Len(wire)
  /\ unconfirmed \subseteq 1..tag
  /\ unconfirmed \subseteq deliveries
  /\ (tag + 1)..number \subseteq deliveries

LEMMA NumberedStep ==
  ASSUME SteadyBroker, TypeOK, Numbered, [Next]_vars
  PROVE  Numbered'
  <1>1. CASE PollerNext
    <2>1. CASE StartPoller
      BY <2>1 DEF Numbered, StartPoller, TypeOK
    <2>2. CASE PollerStarted \/ SaveId \/ SaveIdFails
      BY <2>2 DEF Numbered, PollerStarted, SaveId, SaveIdFails, producerVars
    <2>3. CASE PollerCrashes
      <3>1. /\ conn' = "gone" /\ number' = 0 /\ tag' = 0 /\ wire' = <<>>
            /\ unconfirmed' = {}
        BY <2>3 DEF PollerCrashes
      <3>2. QED
        BY <3>1 DEF Numbered
    <2>4. ASSUME NEW n \in Trades, Poll(n) PROVE Numbered'
      <3>1. Fresh(n) \in Seq(Trades) /\ Len(Fresh(n)) \in Nat
        BY FreshTrades
      <3>2. poller = "idle" /\ poller' = "saving"
        BY <2>4 DEF Poll
      <3>3. CASE conn = "up"
        <4>1. /\ wire' = wire \o Fresh(n)
              /\ number' = number + Len(Fresh(n))
              /\ deliveries' = deliveries \cup ((number + 1)..(number + Len(Fresh(n))))
              /\ conn' = conn /\ tag' = tag /\ unconfirmed' = unconfirmed
          BY <2>4, <3>3 DEF Poll, Publish
        <4>2. Len(wire') = Len(wire) + Len(Fresh(n)) /\ Len(wire) \in Nat
          BY <4>1, <3>1, ConcatProperties DEF TypeOK
        <4>3. number' = tag' + Len(wire')
          BY <4>1, <4>2, <3>1 DEF Numbered, TypeOK
        <4>4. (tag' + 1)..number' \subseteq deliveries'
          BY <4>1, <3>1 DEF Numbered, TypeOK
        <4>5. unconfirmed' \subseteq deliveries' /\ unconfirmed' \subseteq 1..tag'
          BY <4>1 DEF Numbered
        <4>6. QED
          BY <4>1, <4>3, <4>4, <4>5, <3>2, <3>3 DEF Numbered
      <3>4. CASE conn # "up"
        <4>1. UNCHANGED producerVars
          BY <2>4, <3>4 DEF Poll, Publish
        <4>2. QED
          BY <4>1, <3>2 DEF Numbered, producerVars
      <3>5. QED
        BY <3>3, <3>4
    <2>5. QED
      BY <1>1, <2>1, <2>2, <2>3, <2>4 DEF PollerNext
  <1>2. CASE ProducerNext
    <2>1. ProducerOpened
      BY <1>2 DEF SteadyBroker, Numbered, ProducerNext, ConnectionCloses, Reconnect,
        ConnectFails, Trouble
    <2>2. QED
      BY <2>1 DEF Numbered, ProducerOpened, pollerVars
  <1>3. CASE BrokerNext
    <2>1. CASE Accept \/ Refuse
      <3>1. /\ wire # <<>> /\ wire' = Tail(wire)
            /\ tag' = tag + 1 /\ unconfirmed' = unconfirmed \cup {tag + 1}
            /\ UNCHANGED <<poller, conn, number, deliveries>>
        BY <2>1 DEF Accept, Refuse, pollerVars
      <3>2. Len(wire) \in Nat \ {0} /\ Len(wire') = Len(wire) - 1
        BY <3>1 DEF TypeOK
      <3>3. number' = tag' + Len(wire')
        BY <3>1, <3>2 DEF Numbered, TypeOK
      <3>4. tag + 1 \in deliveries
        BY <3>2 DEF Numbered, TypeOK
      <3>5. unconfirmed' \subseteq 1..tag' /\ unconfirmed' \subseteq deliveries'
        BY <3>1, <3>4 DEF Numbered, TypeOK
      <3>6. (tag' + 1)..number' \subseteq deliveries'
        BY <3>1 DEF Numbered, TypeOK
      <3>7. ~(poller' = "down" \/ conn' = "opening")
        BY <3>1 DEF Numbered
      <3>8. QED
        BY <3>1, <3>3, <3>5, <3>6, <3>7 DEF Numbered
    <2>2. ASSUME NEW t \in 1..tag, Confirm(t) PROVE Numbered'
      <3>1. /\ unconfirmed' \subseteq unconfirmed \ {t}
            /\ deliveries' = deliveries \ {t}
            /\ UNCHANGED <<poller, conn, number, tag, wire>>
        BY <2>2 DEF Confirm, Numbered, TypeOK, pollerVars
      <3>2. (tag + 1)..number \subseteq deliveries'
        BY <3>1 DEF Numbered, TypeOK
      <3>3. QED
        BY <3>1, <3>2 DEF Numbered
    <2>3. CASE Deliver
      BY <2>3 DEF Deliver, Numbered, pollerVars, producerVars
    <2>4. QED
      BY <1>3, <2>1, <2>2, <2>3 DEF BrokerNext
  <1>4. CASE MakeTrade \/ ConsumerNext \/ UNCHANGED vars
    <2>1. UNCHANGED <<poller, producerVars>>
      BY <1>4 DEF MakeTrade, ConsumerNext, StartConsumer, Store, StoreFails, Acknowledge,
        AcknowledgeFails, LinkCloses, ConsumerReconnects, ConsumerCrashes, vars,
        pollerVars
    <2>2. QED
      BY <2>1 DEF Numbered, producerVars
  <1>5. QED
    BY <1>1, <1>2, <1>3, <1>4 DEF Next

\* Every confirmation of the broker finds its message number on the list of
\* those that are pending, unless the broker closes the connection.
THEOREM ConfirmationsFound == Spec => []ConfirmationsExpected
  <1> DEFINE Listed == SteadyBroker => Numbered
  <1>1. Init => Listed
    BY DEF Init, Numbered
  <1>2. TypeOK /\ Listed /\ [Next]_vars => Listed'
    BY BrokerKept, NumberedStep
  <1>3. Listed => ConfirmationsExpected
    BY DEF Numbered, ConfirmationsExpected
  <1> HIDE DEF Listed
  <1>4. QED
    BY <1>1, <1>2, <1>3, PipelineTypes, PTL DEF Spec

-----------------------------------------------------------------------------
(***************************************************************************)
(* Rows are added in the order of the trades, for every number of trades,  *)
(* window and limit of attempts.                                           *)
(***************************************************************************)

-----------------------------------------------------------------------------
(* Sequences of messages of which some trades S are stored                 *)

\* A message repeats a trade that is stored or earlier in the sequence, or
\* its trade is newer than all of these.
Ordered(s, S) ==
  \A i \in 1..Len(s) :
    \/ s[i] \in S
    \/ \E j \in 1..(i - 1) : s[j] = s[i]
    \/ /\ \A u \in S : u < s[i]
       /\ \A j \in 1..(i - 1) : s[j] < s[i]

\* The first message leaves when it is stored.
LEMMA OrderedTail ==
  ASSUME NEW s \in Seq(Trades), NEW S \in SUBSET Trades, s # <<>>,
         Ordered(s, S), Head(s) \in S
  PROVE  Ordered(Tail(s), S)
  <1>1. /\ Len(s) \in Nat \ {0} /\ Len(Tail(s)) = Len(s) - 1 /\ Head(s) = s[1]
        /\ \A i \in 1..(Len(s) - 1) : Tail(s)[i] = s[i + 1]
    OBVIOUS
  <1>2. SUFFICES ASSUME NEW i \in 1..Len(Tail(s))
                 PROVE  \/ Tail(s)[i] \in S
                        \/ \E j \in 1..(i - 1) : Tail(s)[j] = Tail(s)[i]
                        \/ /\ \A u \in S : u < Tail(s)[i]
                           /\ \A j \in 1..(i - 1) : Tail(s)[j] < Tail(s)[i]
    BY DEF Ordered
  <1>3. i + 1 \in 1..Len(s) /\ Tail(s)[i] = s[i + 1]
    BY <1>1
  <1>4. CASE s[i + 1] \in S
    BY <1>3, <1>4
  <1>5. CASE \E j \in 1..i : s[j] = s[i + 1]
    <2>1. PICK j \in 1..i : s[j] = s[i + 1]
      BY <1>5
    <2>2. CASE j = 1
      BY <2>1, <2>2, <1>1, <1>3
    <2>3. CASE j # 1
      <3>1. j - 1 \in 1..(i - 1) /\ Tail(s)[j - 1] = s[j]
        BY <2>1, <2>3, <1>1, <1>2
      <3>2. QED
        BY <3>1, <2>1, <1>3
    <2>4. QED
      BY <2>2, <2>3
  <1>6. CASE (\A u \in S : u < s[i + 1]) /\ \A j \in 1..i : s[j] < s[i + 1]
    <2>1. ASSUME NEW j \in 1..(i - 1) PROVE Tail(s)[j] < Tail(s)[i]
      <3>1. j + 1 \in 1..i /\ Tail(s)[j] = s[j + 1]
        BY <1>1, <1>2
      <3>2. QED
        BY <3>1, <1>3, <1>6
    <2>2. QED
      BY <2>1, <1>3, <1>6
  <1>7. \/ s[i + 1] \in S
        \/ \E j \in 1..((i + 1) - 1) : s[j] = s[i + 1]
        \/ (\A u \in S : u < s[i + 1]) /\ \A j \in 1..((i + 1) - 1) : s[j] < s[i + 1]
    BY <1>3 DEF Ordered
  <1>8. (i + 1) - 1 = i
    BY <1>2
  <1>9. QED
    BY <1>4, <1>5, <1>6, <1>7, <1>8

\* The message after k that are stored is stored: it is one of them or newer.
LEMMA OrderedStore ==
  ASSUME NEW s \in Seq(Trades), NEW S \in SUBSET Trades, Ordered(s, S),
         NEW k \in Nat, k < Len(s), \A i \in 1..k : s[i] \in S
  PROVE  /\ Ordered(s, S \cup {s[k + 1]})
         /\ s[k + 1] \in S \/ \A u \in S : u < s[k + 1]
  <1>1. k + 1 \in 1..Len(s) /\ Len(s) \in Nat
    OBVIOUS
  <1>2. s[k + 1] \in S \/ \A u \in S : u < s[k + 1]
    <2>1. CASE \E j \in 1..((k + 1) - 1) : s[j] = s[k + 1]
      BY <2>1
    <2>2. CASE ~\E j \in 1..((k + 1) - 1) : s[j] = s[k + 1]
      BY <2>2, <1>1 DEF Ordered
    <2>3. QED
      BY <2>1, <2>2
  <1>3. ASSUME NEW i \in 1..Len(s)
        PROVE  \/ s[i] \in S \cup {s[k + 1]}
               \/ \E j \in 1..(i - 1) : s[j] = s[i]
               \/ /\ \A u \in S \cup {s[k + 1]} : u < s[i]
                  /\ \A j \in 1..(i - 1) : s[j] < s[i]
    <2>1. CASE i <= k + 1
      <3>1. i \in 1..k \/ i = k + 1
        BY <2>1
      <3>2. QED
        BY <3>1
    <2>2. CASE i > k + 1
      <3>1. k + 1 \in 1..(i - 1)
        BY <2>2
      <3>2. QED
        BY <3>1 DEF Ordered
    <2>3. QED
      BY <2>1, <2>2, <1>1
  <1>4. QED
    BY <1>2, <1>3 DEF Ordered

\* Ascending trades join, of which the old ones are known.
LEMMA OrderedJoin ==
  ASSUME NEW s \in Seq(Trades), NEW f \in Seq(Trades), NEW S \in SUBSET Trades,
         Ordered(s, S),
         \A i \in 1..Len(f) : \A j \in 1..(i - 1) : f[j] < f[i],
         \A i \in 1..Len(f) :
           \/ f[i] \in S \cup Range(s)
           \/ \A u \in S \cup Range(s) : u < f[i]
  PROVE  Ordered(s \o f, S)
  <1> DEFINE c == s \o f
  <1>1. /\ Len(s) \in Nat /\ Len(f) \in Nat /\ Len(c) = Len(s) + Len(f)
        /\ \A i \in 1..Len(s) : c[i] = s[i]
        /\ \A i \in 1..Len(f) : c[Len(s) + i] = f[i]
    BY ConcatProperties
  <1>2. Range(s) = {s[i] : i \in 1..Len(s)}
    BY RangeEquality
  <1> HIDE DEF c
  <1>3. ASSUME NEW i \in 1..Len(c)
        PROVE  \/ c[i] \in S
               \/ \E j \in 1..(i - 1) : c[j] = c[i]
               \/ /\ \A u \in S : u < c[i]
                  /\ \A j \in 1..(i - 1) : c[j] < c[i]
    <2>1. CASE i <= Len(s)
      <3>1. i \in 1..Len(s) /\ c[i] = s[i] /\ \A j \in 1..(i - 1) : c[j] = s[j]
        BY <2>1, <1>1
      <3>2. QED
        BY <3>1 DEF Ordered
    <2>2. CASE i > Len(s)
      <3>1. PICK m \in 1..Len(f) : i = Len(s) + m
        <4>1. i - Len(s) \in 1..Len(f) /\ i = Len(s) + (i - Len(s))
          BY <2>2, <1>1
        <4>2. QED
          BY <4>1
      <3>2. c[i] = f[m]
        BY <3>1, <1>1
      <3>3. CASE f[m] \in S
        BY <3>2, <3>3
      <3>4. CASE f[m] \in Range(s)
        <4>1. PICK j \in 1..Len(s) : f[m] = s[j]
          BY <3>4, <1>2
        <4>2. j \in 1..(i - 1) /\ c[j] = s[j]
          BY <2>2, <1>1
        <4>3. QED
          BY <4>1, <4>2, <3>2
      <3>5. CASE \A u \in S \cup Range(s) : u < f[m]
        <4>1. ASSUME NEW j \in 1..(i - 1) PROVE c[j] < c[i]
          <5>1. CASE j <= Len(s)
            <6>1. j \in 1..Len(s) /\ c[j] = s[j]
              BY <5>1, <1>1
            <6>2. s[j] \in Range(s)
              BY <6>1, <1>2
            <6>3. QED
              BY <6>1, <6>2, <3>2, <3>5
          <5>2. CASE j > Len(s)
            <6>1. /\ j - Len(s) \in 1..(m - 1) /\ j - Len(s) \in 1..Len(f)
                  /\ j = Len(s) + (j - Len(s))
              BY <5>2, <3>1, <1>1
            <6>2. c[j] = f[j - Len(s)]
              BY <6>1, <1>1
            <6>3. QED
              BY <6>1, <6>2, <3>2
          <5>3. QED
            BY <5>1, <5>2, <1>1
        <4>2. QED
          BY <4>1, <3>2, <3>5
      <3>6. QED
        BY <3>3, <3>4, <3>5
    <2>3. QED
      BY <2>1, <2>2, <1>1
  <1>4. QED
    BY <1>3 DEF Ordered, c

-----------------------------------------------------------------------------
(* The pipeline                                                            *)

\* The messages of which the consumer has none behind it.
Line == queue \o wire

\* What the consumer has on its hands are messages of the queue, after k that
\* are stored: those it acknowledged on a connection that was lost.
Behind ==
  \E k \in 0..Len(queue) :
    /\ k + Len(inbox) <= Len(queue)
    /\ \A i \in 1..k : queue[i] \in stored
    /\ \A i \in 1..Len(inbox) : inbox[i] = queue[k + i]
    /\ link => k = 0

\* Trades older than one that is under way are so too, or were missed.
Complete == \A u \in Underway : \A t \in 1..u : t \in Underway \cup missed

\* What was missed will not be in an answer.
MissedOld == \A t \in missed : t < Oldest(made)

InOrder == Ordered(Line, stored) /\ Behind /\ Complete /\ MissedOld

LEMMA UnderwayLine ==
  ASSUME TypeOK
  PROVE  /\ Line \in Seq(Trades) /\ Underway = Range(Line) \cup stored
         /\ Len(queue) \in Nat /\ Len(Line) = Len(queue) + Len(wire)
         /\ \A i \in 1..Len(queue) : Line[i] = queue[i]
  BY RangeConcatenation, ConcatProperties DEF TypeOK, Line, Underway

\* What a step does to the line and to the consumer.
LEMMA LineKinds ==
  ASSUME Prompt, TypeOK, Delivery, [Next]_vars
  PROVE  \/ /\ UNCHANGED <<link, inbox, stored>>
            /\ queue' \o wire' = queue \o wire
            /\ \E s \in Seq(Trades) : queue' = queue \o s
         \/ \E n \in Trades : Poll(n)
         \/ Deliver
         \/ Acknowledge
         \/ /\ queue' = queue /\ wire' = wire
            /\ inbox' = <<>> \/ (inbox' = inbox /\ (link' => link))
            /\ \/ stored' = stored
               \/ inbox # <<>> /\ stored' = stored \cup {Head(inbox)}
  <1>1. queue' = queue => \E s \in Seq(Trades) : queue' = queue \o s
    BY EmptySeq, ConcatEmptySeq DEF TypeOK
  <1>2. CASE MakeTrade \/ ProducerNext \/ UNCHANGED vars
    <2>1. UNCHANGED <<link, inbox, stored, queue, wire>>
      BY <1>2 DEF Prompt, SafeBroker, SteadyBroker, Trouble, MakeTrade, ProducerNext, ProducerOpened,
        ConnectionCloses, Reconnect, ConnectFails, vars, consumerVars, producerVars
    <2>2. QED
      BY <2>1, <1>1
  <1>3. CASE PollerNext
    <2>1. CASE PollerCrashes
      <3>1. Len(wire) \in Nat /\ queue' = queue \o SubSeq(wire, 1, Len(wire))
        <4>1. Flushed = {Len(wire)}
          BY DEF Flushed, Prompt, SafeBroker, SteadyBroker
        <4>2. \E n \in Flushed : queue' = queue \o SubSeq(wire, 1, n)
          BY <2>1 DEF PollerCrashes
        <4>3. Len(wire) \in Nat
          BY DEF TypeOK
        <4>4. QED
          BY <4>1, <4>2, <4>3
      <3>2. queue' = queue \o wire /\ wire' = <<>>
        BY <2>1, <3>1, SubSeqFull DEF TypeOK, PollerCrashes
      <3>3. queue \o wire \in Seq(Trades)
        BY ConcatProperties DEF TypeOK
      <3>4. queue' \o wire' = queue \o wire
        BY <3>2, <3>3, ConcatEmptySeq
      <3>5. QED
        BY <2>1, <3>2, <3>4 DEF PollerCrashes, consumerVars, TypeOK
    <2>2. CASE ~PollerCrashes /\ ~\E n \in Trades : Poll(n)
      <3>1. UNCHANGED <<link, inbox, stored, queue, wire>>
        BY <1>3, <2>2 DEF PollerNext, StartPoller, PollerStarted, SaveId, SaveIdFails,
          consumerVars, producerVars
      <3>2. QED
        BY <3>1, <1>1
    <2>3. QED
      BY <2>1, <2>2
  <1>4. CASE BrokerNext
    <2>1. CASE Accept
      <3>1. /\ wire # <<>> /\ wire' = Tail(wire) /\ queue' = Append(queue, Head(wire))
            /\ UNCHANGED <<link, inbox, stored>>
        BY <2>1 DEF Accept, consumerVars
      <3>2. Head(wire) \in Trades /\ Tail(wire) \in Seq(Trades)
        BY <3>1, InTail DEF TypeOK
      <3>3. <<Head(wire)>> \in Seq(Trades) /\ queue' = queue \o <<Head(wire)>>
        BY <3>1, <3>2, AppendIsConcat DEF TypeOK
      <3>4. wire = <<Head(wire)>> \o Tail(wire)
        BY <3>1 DEF TypeOK
      <3>5. queue' \o wire' = queue \o (<<Head(wire)>> \o Tail(wire))
        <4>1. \A a, b, c \in Seq(Trades) : (a \o b) \o c = a \o (b \o c)
          OBVIOUS
        <4>2. queue \in Seq(Trades)
          BY DEF TypeOK
        <4>3. (queue \o <<Head(wire)>>) \o Tail(wire) = queue \o (<<Head(wire)>> \o Tail(wire))
          BY <4>1, <4>2, <3>2, <3>3, Zenon
        <4>4. QED
          BY <4>3, <3>1, <3>3, Zenon
      <3>6. QED
        BY <3>1, <3>3, <3>4, <3>5
    <2>2. CASE Refuse
      BY <2>2 DEF Refuse, Trouble, Prompt, SafeBroker
    <2>3. ASSUME NEW t \in 1..tag, Confirm(t)
          PROVE  UNCHANGED <<link, inbox, stored, queue, wire>>
      BY <2>3 DEF Confirm, consumerVars
    <2>4. QED
      BY <1>1, <1>4, <2>1, <2>2, <2>3 DEF BrokerNext
  <1>5. CASE ConsumerNext
    <2>1. Retry => inbox' = <<>> \/ (inbox' = inbox /\ (link' => link))
      BY DEF Retry, Dies
    <2>2. CASE Store \/ StoreFails
      <3>1. /\ queue' = queue /\ wire' = wire /\ inbox # <<>>
            /\ stored' \in {stored, stored \cup {Head(inbox)}}
            /\ (inbox' = inbox /\ link' = link) \/ Retry
        BY <2>2 DEF Store, StoreFails, producerVars
      <3>2. QED
        BY <3>1, <2>1
    <2>3. CASE AcknowledgeFails
      BY <2>1, <2>3 DEF AcknowledgeFails, producerVars
    <2>4. CASE StartConsumer \/ LinkCloses \/ ConsumerReconnects \/ ConsumerCrashes
      <3>1. /\ queue' = queue /\ wire' = wire /\ stored' = stored
            /\ inbox' = <<>> \/ (inbox' = inbox /\ link' = FALSE)
        BY <2>4 DEF StartConsumer, LinkCloses, ConsumerReconnects, ConsumerCrashes, Dies,
          producerVars
      <3>2. QED
        BY <3>1
    <2>5. QED
      BY <1>5, <2>2, <2>3, <2>4 DEF ConsumerNext
  <1>6. QED
    BY <1>2, <1>3, <1>4, <1>5 DEF Next

LEMMA BehindStep ==
  ASSUME Prompt, TypeOK, Delivery, Behind, Ordered(Line, stored), [Next]_vars
  PROVE  /\ Behind' /\ \A t \in stored' \ stored : \A u \in stored : u < t
         /\ Ordered(Line, stored') /\ stored' \subseteq stored \cup Range(Line)
  <1>1. PICK k \in 0..Len(queue) :
          /\ k + Len(inbox) <= Len(queue)
          /\ \A i \in 1..k : queue[i] \in stored
          /\ \A i \in 1..Len(inbox) : inbox[i] = queue[k + i]
          /\ link => k = 0
    BY DEF Behind
  <1>2. Len(queue) \in Nat /\ Len(inbox) \in Nat
    BY DEF TypeOK
  <1>3. CASE /\ UNCHANGED <<link, inbox, stored>>
             /\ \E s \in Seq(Trades) : queue' = queue \o s
    <2>1. PICK s \in Seq(Trades) : queue' = queue \o s
      BY <1>3
    <2>2. /\ Len(queue') \in Nat /\ Len(queue) <= Len(queue')
          /\ \A i \in 1..Len(queue) : queue'[i] = queue[i]
      BY <2>1, ConcatProperties DEF TypeOK
    <2>3. k \in 0..Len(queue') /\ k + Len(inbox') <= Len(queue')
      BY <1>1, <1>2, <1>3, <2>2
    <2>4. \A i \in 1..k : queue'[i] \in stored'
      BY <1>1, <1>2, <1>3, <2>2
    <2>5. \A i \in 1..Len(inbox') : inbox'[i] = queue'[k + i]
      BY <1>1, <1>2, <1>3, <2>2
    <2>6. link' => k = 0
      BY <1>1, <1>3
    <2>7. Behind'
      BY <2>3, <2>4, <2>5, <2>6 DEF Behind
    <2>8. QED
      BY <2>7, <1>3
  <1>4. ASSUME NEW n \in Trades, Poll(n) PROVE UNCHANGED <<queue, link, inbox, stored>>
    BY <1>4 DEF Poll, consumerVars
  <1>5. CASE Deliver
    <2>1. /\ link /\ Len(inbox) < Len(queue) /\ inbox' = Append(inbox, queue[Len(inbox) + 1])
          /\ UNCHANGED <<queue, link, stored>>
      BY <1>5 DEF Deliver
    <2>2. k = 0
      BY <1>1, <2>1
    <2>3. queue[Len(inbox) + 1] \in Trades
      BY <2>1, <1>2 DEF TypeOK
    <2>4. /\ Len(inbox') = Len(inbox) + 1
          /\ \A i \in 1..(Len(inbox) + 1) : inbox'[i] = queue[i]
      <3>1. /\ Len(inbox') = Len(inbox) + 1 /\ inbox'[Len(inbox) + 1] = queue[Len(inbox) + 1]
            /\ \A i \in 1..Len(inbox) : inbox'[i] = inbox[i]
        BY <2>1, <2>3, AppendProperties DEF TypeOK
      <3>2. ASSUME NEW i \in 1..(Len(inbox) + 1) PROVE inbox'[i] = queue[i]
        <4>1. CASE i = Len(inbox) + 1
          BY <3>1, <4>1
        <4>2. CASE i # Len(inbox) + 1
          <5>1. i \in 1..Len(inbox) /\ i = 0 + i
            BY <1>2, <4>2
          <5>2. QED
            BY <5>1, <3>1, <1>1, <2>2
        <4>3. QED
          BY <4>1, <4>2
      <3>3. QED
        BY <3>1, <3>2
    <2>5. \A i \in 1..Len(inbox') : inbox'[i] = queue'[0 + i]
      BY <2>1, <2>4, <1>2
    <2>6. 0 \in 0..Len(queue') /\ 0 + Len(inbox') <= Len(queue')
      BY <1>2, <2>1, <2>4
    <2>7. \A i \in 1..0 : queue'[i] \in stored'
      OBVIOUS
    <2>8. Behind'
      BY <2>5, <2>6, <2>7 DEF Behind
    <2>9. QED
      BY <2>8, <2>1
  <1>6. CASE Acknowledge
    <2>1. /\ inbox # <<>> /\ Head(inbox) \in stored /\ inbox' = Tail(inbox)
          /\ link' = link /\ stored' = stored
          /\ queue' = IF link THEN Tail(queue) ELSE queue
      BY <1>6 DEF Acknowledge, Delivery
    <2>2. /\ Len(inbox) > 0 /\ Len(inbox') = Len(inbox) - 1 /\ Head(inbox) = inbox[1]
          /\ \A i \in 1..(Len(inbox) - 1) : inbox'[i] = inbox[i + 1]
      BY <2>1 DEF TypeOK
    <2>3. CASE link
      <3>1. /\ k = 0 /\ Len(queue) > 0 /\ queue # <<>>
            /\ queue' = Tail(queue)
        BY <1>1, <1>2, <2>1, <2>2, <2>3 DEF TypeOK
      <3>2. /\ Len(queue') = Len(queue) - 1
            /\ \A i \in 1..(Len(queue) - 1) : queue'[i] = queue[i + 1]
        BY <3>1 DEF TypeOK
      <3>3. ASSUME NEW i \in 1..Len(inbox') PROVE inbox'[i] = queue'[0 + i]
        <4>1. i + 1 \in 1..Len(inbox) /\ 0 + (i + 1) = i + 1 /\ 0 + i = i
          BY <1>2, <2>2
        <4>2. i \in 1..(Len(inbox) - 1) /\ i \in 1..(Len(queue) - 1)
          BY <1>1, <1>2, <2>2, <3>1
        <4>3. inbox[i + 1] = queue[i + 1]
          BY <4>1, <3>1, <1>1
        <4>4. QED
          BY <4>1, <4>2, <4>3, <2>2, <3>2
      <3>4. 0 \in 0..Len(queue') /\ 0 + Len(inbox') <= Len(queue')
        BY <1>1, <1>2, <2>2, <3>1, <3>2
      <3>5. \A i \in 1..0 : queue'[i] \in stored'
        OBVIOUS
      <3>6. QED
        BY <3>3, <3>4, <3>5, <2>1 DEF Behind
    <2>4. CASE ~link
      <3>1. k + 1 \in 0..Len(queue) /\ (k + 1) + Len(inbox') <= Len(queue)
        BY <1>1, <1>2, <2>2
      <3>2. queue[k + 1] = Head(inbox)
        BY <1>1, <1>2, <2>2
      <3>3. ASSUME NEW i \in 1..(k + 1) PROVE queue[i] \in stored
        <4>1. i \in 1..k \/ i = k + 1
          OBVIOUS
        <4>2. QED
          BY <4>1, <3>2, <2>1, <1>1
      <3>4. ASSUME NEW i \in 1..Len(inbox') PROVE inbox'[i] = queue[(k + 1) + i]
        <4>1. i + 1 \in 1..Len(inbox) /\ i \in 1..(Len(inbox) - 1) /\ k + (i + 1) = (k + 1) + i
          BY <1>2, <2>2
        <4>2. QED
          BY <4>1, <2>2, <1>1
      <3>5. queue' = queue
        BY <2>1, <2>4
      <3>6. QED
        BY <3>1, <3>3, <3>4, <3>5, <2>1, <2>4 DEF Behind
    <2>5. QED
      BY <2>1, <2>3, <2>4
  <1>7. CASE /\ queue' = queue /\ wire' = wire
             /\ inbox' = <<>> \/ (inbox' = inbox /\ (link' => link))
             /\ \/ stored' = stored
                \/ inbox # <<>> /\ stored' = stored \cup {Head(inbox)}
    <2>1. Behind'
      <3>1. stored \subseteq stored'
        BY <1>7
      <3>2. CASE inbox' = <<>>
        <4>1. Len(inbox') = 0
          BY <3>2
        <4>2. 0 \in 0..Len(queue') /\ 0 + Len(inbox') <= Len(queue')
          BY <4>1, <1>7, <1>2
        <4>3. /\ \A i \in 1..0 : queue'[i] \in stored'
              /\ \A i \in 1..Len(inbox') : inbox'[i] = queue'[0 + i]
          BY <4>1
        <4>4. QED
          BY <4>2, <4>3 DEF Behind
      <3>3. CASE inbox' = inbox /\ (link' => link)
        <4>1. link' => k = 0
          BY <3>3, <1>1
        <4>2. \A i \in 1..k : queue'[i] \in stored'
          BY <3>1, <1>1, <1>7
        <4>3. QED
          BY <4>1, <4>2, <3>3, <1>1, <1>7 DEF Behind
      <3>4. QED
        BY <3>2, <3>3, <1>7
    <2>2. CASE stored' = stored
      BY <2>1, <2>2
    <2>3. CASE inbox # <<>> /\ stored' = stored \cup {Head(inbox)}
      <3>1. Head(inbox) = inbox[1] /\ Len(inbox) > 0
        BY <2>3 DEF TypeOK
      <3>2. Head(inbox) = queue[k + 1] /\ k < Len(queue) /\ k \in Nat
        BY <3>1, <1>1, <1>2
      <3>3. /\ Line \in Seq(Trades) /\ k < Len(Line)
            /\ Line[k + 1] = Head(inbox) /\ \A i \in 1..k : Line[i] \in stored
        <4>1. Len(wire) \in Nat /\ k + 1 \in 1..Len(queue) /\ \A i \in 1..k : i \in 1..Len(queue)
          BY <3>2, <1>2 DEF TypeOK
        <4>2. QED
          BY <4>1, <3>2, <1>1, <1>2, UnderwayLine
      <3>4. stored \in SUBSET Trades
        BY DEF TypeOK
      <3>5. /\ Ordered(Line, stored \cup {Line[k + 1]})
            /\ Line[k + 1] \in stored \/ \A u \in stored : u < Line[k + 1]
        BY <3>2, <3>3, <3>4, OrderedStore
      <3>6. Line[k + 1] \in Range(Line)
        <4>1. k + 1 \in DOMAIN Line
          BY <3>2, <3>3
        <4>2. QED
          BY <4>1 DEF Range
      <3>7. QED
        BY <2>1, <2>3, <3>3, <3>5, <3>6
    <2>4. QED
      BY <1>7, <2>2, <2>3
  <1>8. ASSUME NEW n \in Trades, Poll(n)
        PROVE  Behind' /\ stored' = stored
    BY <1>4, <1>8, <1>1 DEF Behind
  <1>9. QED
    BY <1>3, <1>5, <1>6, <1>7, <1>8, LineKinds

\* The trades of an answer come in ascending order, from its oldest one on.
LEMMA FreshAscends ==
  ASSUME TypeOK, NEW n \in Trades
  PROVE  /\ \A i \in 1..Len(Fresh(n)) : \A j \in 1..(i - 1) : Fresh(n)[j] < Fresh(n)[i]
         /\ \A t \in Range(Fresh(n)) : Oldest(n) <= t /\ t <= n
  <1> USE PipelineAssumption DEF Trades
  <1>1. n \in 1..MaxTrades /\ recent \in 0..MaxTrades
    BY DEF TypeOK
  <1>2. Oldest(n) \in 1..n
    BY <1>1 DEF Oldest
  <1>3. FirstNew(n) \in Int /\ FirstNew(n) >= Oldest(n)
    BY <1>1, <1>2 DEF FirstNew
  <1>4. /\ DOMAIN Fresh(n) = 1..(n + 1 - FirstNew(n))
        /\ \A i \in 1..(n + 1 - FirstNew(n)) : Fresh(n)[i] = FirstNew(n) + i - 1
    BY DEF Fresh
  <1>5. Fresh(n) \in Seq(Trades)
    BY FreshTrades
  <1>6. DOMAIN Fresh(n) = 1..Len(Fresh(n)) /\ Len(Fresh(n)) \in Nat
    BY <1>5
  <1>7. ASSUME NEW t \in Range(Fresh(n)) PROVE Oldest(n) <= t /\ t <= n
    <2>1. PICK i \in 1..(n + 1 - FirstNew(n)) : t = FirstNew(n) + i - 1
      BY <1>4 DEF Range
    <2>2. QED
      BY <2>1, <1>1, <1>2, <1>3
  <1>8. ASSUME NEW i \in 1..Len(Fresh(n)), NEW j \in 1..(i - 1)
        PROVE  Fresh(n)[j] < Fresh(n)[i]
    <2>1. i \in 1..(n + 1 - FirstNew(n))
      BY <1>4, <1>6
    <2>2. j \in 1..(n + 1 - FirstNew(n)) /\ j < i
      BY <2>1, <1>1, <1>3
    <2>3. Fresh(n)[i] = FirstNew(n) + i - 1 /\ Fresh(n)[j] = FirstNew(n) + j - 1
      BY <2>1, <2>2, <1>4
    <2>4. QED
      BY <2>1, <2>2, <2>3, <1>1, <1>3
  <1>9. QED
    BY <1>7, <1>8

\* An answer's trades join the line.
LEMMA PollInOrder ==
  ASSUME Prompt, TypeOK, Connected, SeenIsPublished, InOrder,
         NEW n \in Trades, Poll(n)
  PROVE  Ordered(Line, stored)' /\ Complete' /\ MissedOld'
  <1>1. n = made /\ conn = "up"
    BY DEF Prompt, Poll, Answers, Connected
  <1>2. /\ wire' = wire \o Fresh(n) /\ queue' = queue /\ stored' = stored /\ made' = made
        /\ missed' = missed \cup ((recent + 1)..(Oldest(n) - 1))
    BY <1>1 DEF Poll, Publish, consumerVars
  <1>3. /\ Fresh(n) \in Seq(Trades)
        /\ \A t \in Trades : recent < t /\ t <= n =>
             t \in Range(Fresh(n)) \cup ((recent + 1)..(Oldest(n) - 1))
    BY FreshTrades
  <1>4. Line' = Line \o Fresh(n)
    <2>1. \A a, b, c \in Seq(Trades) : (a \o b) \o c = a \o (b \o c)
      OBVIOUS
    <2>2. queue \in Seq(Trades) /\ wire \in Seq(Trades)
      BY DEF TypeOK
    <2>3. (queue \o wire) \o Fresh(n) = queue \o (wire \o Fresh(n))
      BY <2>1, <2>2, <1>3, Zenon
    <2>4. QED
      BY <2>3, <1>2, Zenon DEF Line
  <1>5. /\ Line \in Seq(Trades) /\ Underway = Range(Line) \cup stored
        /\ Underway \subseteq Trades
    <2>1. stored \subseteq Trades
      BY DEF TypeOK
    <2>2. Line \in Seq(Trades) /\ Underway = Range(Line) \cup stored
      BY UnderwayLine
    <2>3. Range(Line) \subseteq Trades
      BY <2>2 DEF Range
    <2>4. QED
      BY <2>1, <2>2, <2>3
  <1>6. /\ \A i \in 1..Len(Fresh(n)) : \A j \in 1..(i - 1) : Fresh(n)[j] < Fresh(n)[i]
        /\ \A t \in Range(Fresh(n)) : Oldest(n) <= t /\ t <= n
    BY FreshAscends
  <1>7. Oldest(n) \in 1..n
    BY PipelineAssumption DEF Oldest, Trades
  <1>8. Underway' = Underway \cup Range(Fresh(n))
    BY <1>2, <1>3, RangeConcatenation DEF TypeOK, Underway
  <1>9. Range(Fresh(n)) \subseteq Trades
    BY <1>3 DEF Range
  <1>10. Ordered(Line, stored)'
    <2>1. ASSUME NEW t \in Range(Fresh(n))
          PROVE  t \in Underway \/ \A u \in Underway : u < t
      <3>1. SUFFICES ASSUME NEW u \in Underway, ~(u < t) PROVE t \in Underway
        OBVIOUS
      <3>2. t \in 1..u
        BY <3>1, <1>5, <1>9 DEF Trades
      <3>3. t \in Underway \cup missed
        BY <3>2 DEF InOrder, Complete
      <3>4. t \notin missed
        BY <1>1, <1>6, <1>7, <1>9 DEF InOrder, MissedOld, Trades
      <3>5. QED
        BY <3>3, <3>4
    <2>2. ASSUME NEW i \in 1..Len(Fresh(n))
          PROVE  \/ Fresh(n)[i] \in stored \cup Range(Line)
                 \/ \A u \in stored \cup Range(Line) : u < Fresh(n)[i]
      <3>1. Fresh(n)[i] \in Range(Fresh(n))
        BY <1>3 DEF Range
      <3>2. QED
        BY <3>1, <2>1, <1>5
    <2>3. stored \in SUBSET Trades /\ Ordered(Line, stored)
      BY DEF TypeOK, InOrder
    <2>4. Ordered(Line \o Fresh(n), stored)
      BY <2>2, <2>3, <1>3, <1>5, <1>6, OrderedJoin
    <2>5. QED
      BY <2>4, <1>2, <1>4
  <1>11. Complete'
    <2>1. SUFFICES ASSUME NEW u \in Underway', NEW t \in 1..u
                   PROVE  t \in Underway' \cup missed'
      BY DEF Complete
    <2>2. CASE u \in Underway
      BY <2>1, <2>2, <1>2, <1>8 DEF InOrder, Complete
    <2>3. CASE u \in Range(Fresh(n))
      <3>1. t \in Trades /\ t <= n
        <4>1. u \in 1..MaxTrades /\ u <= n
          BY <2>3, <1>6, <1>9 DEF Trades
        <4>2. QED
          BY <2>1, <4>1, PipelineAssumption DEF Trades
      <3>2. CASE t <= recent
        BY <3>1, <3>2, <1>2, <1>8 DEF SeenIsPublished
      <3>3. CASE ~(t <= recent)
        BY <3>1, <3>3, <1>2, <1>3, <1>8 DEF TypeOK, Trades
      <3>4. QED
        BY <3>2, <3>3
    <2>4. QED
      BY <2>1, <2>2, <2>3, <1>8
  <1>12. MissedOld'
    <2>1. Oldest(made)' = Oldest(n)
      BY <1>1, <1>2 DEF Oldest
    <2>2. SUFFICES ASSUME NEW t \in missed' PROVE t < Oldest(n)
      BY <2>1 DEF MissedOld
    <2>3. QED
      BY <2>2, <1>1, <1>2, <1>7 DEF InOrder, MissedOld, Trades, TypeOK
  <1>13. QED
    BY <1>10, <1>11, <1>12

LEMMA InOrderStep ==
  ASSUME Prompt, TypeOK, Delivery, Connected, SeenIsPublished, InOrder, [Next]_vars
  PROVE  InOrder' /\ \A t \in stored' \ stored : \A u \in stored : u < t
  <1>1. /\ Behind' /\ \A t \in stored' \ stored : \A u \in stored : u < t
        /\ Ordered(Line, stored') /\ stored' \subseteq stored \cup Range(Line)
    BY BehindStep DEF InOrder
  <1>2. CASE \E n \in Trades : Poll(n)
    BY <1>1, <1>2, PollInOrder DEF InOrder
  <1>3. CASE ~\E n \in Trades : Poll(n)
    <2>1. missed' = missed /\ (made' = made \/ made' = made + 1)
      BY <1>3 DEF Next, MakeTrade, PollerNext, StartPoller, PollerStarted, SaveId,
        SaveIdFails, PollerCrashes, ProducerNext, ProducerOpened, ConnectionCloses,
        Reconnect, ConnectFails, BrokerNext, Accept, Refuse, Confirm, Deliver,
        ConsumerNext, StartConsumer, Store, StoreFails, Acknowledge, AcknowledgeFails,
        LinkCloses, ConsumerReconnects, ConsumerCrashes, vars
    <2>2. MissedOld'
      <3>1. Oldest(made) <= Oldest(made')
        BY <2>1, PipelineAssumption DEF Oldest, TypeOK
      <3>2. Oldest(made) \in Int /\ Oldest(made') \in Int
        BY <2>1, PipelineAssumption DEF Oldest, TypeOK
      <3>3. SUFFICES ASSUME NEW t \in missed PROVE t < Oldest(made')
        BY <2>1 DEF MissedOld
      <3>4. t < Oldest(made) /\ t \in Int
        BY <3>3 DEF InOrder, MissedOld, TypeOK, Trades
      <3>5. QED
        BY <3>1, <3>2, <3>4
    <2>3. Ordered(Line, stored)' /\ Range(Line)' \subseteq Range(Line)
      <3>1. CASE Line' = Line
        BY <3>1, <1>1
      <3>2. CASE Acknowledge
        <4>1. /\ inbox # <<>> /\ Head(inbox) \in stored /\ stored' = stored /\ wire' = wire
              /\ queue' = IF link THEN Tail(queue) ELSE queue
          BY <3>2 DEF Acknowledge, Delivery, producerVars
        <4>2. CASE link
          <5>1. queue # <<>> /\ Head(queue) = Head(inbox)
            <6>1. Len(inbox) > 0 /\ Len(inbox) <= Len(queue) /\ inbox[1] = queue[1]
              BY <4>1, <4>2 DEF Delivery, TypeOK
            <6>2. QED
              BY <6>1, <4>1 DEF TypeOK
          <5>2. queue' = Tail(queue)
            BY <4>1, <4>2
          <5>3. Line # <<>> /\ Head(Line) = Head(inbox) /\ Tail(Line) = Tail(queue) \o wire
            <6>1. queue \in Seq(Trades) /\ wire \in Seq(Trades)
              BY DEF TypeOK
            <6>2. QED
              BY <5>1, <6>1 DEF Line
          <5>4. Line' = Tail(Line)
            BY <5>2, <5>3, <4>1, Zenon DEF Line
          <5>5. stored \in SUBSET Trades /\ Line \in Seq(Trades) /\ Ordered(Line, stored)
            BY UnderwayLine DEF TypeOK, InOrder
          <5>6. Ordered(Tail(Line), stored)
            BY <5>3, <5>5, <4>1, OrderedTail
          <5>7. Range(Tail(Line)) \subseteq Range(Line)
            BY <5>3, <5>5, InTail
          <5>8. QED
            BY <5>4, <5>6, <5>7, <4>1
        <4>3. CASE ~link
          BY <3>1, <4>1, <4>3 DEF Line
        <4>4. QED
          BY <4>2, <4>3
      <3>3. QED
        BY <3>1, <3>2, <1>3, LineKinds DEF Deliver, producerVars, Line
    <2>4. Complete'
      <3>1. TypeOK'
        BY TypeStep
      <3>2. Underway' = Range(Line)' \cup stored' /\ Underway = Range(Line) \cup stored
        <4>1. queue' \in Seq(Trades) /\ wire' \in Seq(Trades)
          BY <3>1 DEF TypeOK
        <4>2. Range(queue' \o wire') = Range(queue') \cup Range(wire')
          BY <4>1, RangeConcatenation
        <4>3. QED
          BY <4>2, UnderwayLine DEF Underway, Line
      <3>3. Underway' \subseteq Underway
        BY <3>2, <2>3, <1>1
      <3>4. Underway \subseteq Underway'
        BY UnderwayGrows DEF Prompt
      <3>5. QED
        BY <3>3, <3>4, <2>1 DEF Complete, InOrder
    <2>5. QED
      BY <1>1, <2>2, <2>3, <2>4 DEF InOrder
  <1>4. QED
    BY <1>2, <1>3

\* Rows are added in the order of the trades, through crashes of both
\* processes, redeliveries and retries, as long as the broker keeps its
\* connections and the exchange's answers are not old.
THEOREM RowsInOrder == Spec => StoredInOrder
  <1> DEFINE Rows == Prompt => Connected /\ SeenIsPublished /\ InOrder
  <1>1. Prompt => SafeBroker
    BY DEF Prompt
  <1>2. Init => Rows
    <2>1. SUFFICES ASSUME Init PROVE Connected /\ SeenIsPublished /\ InOrder
      OBVIOUS
    <2>2. /\ queue = <<>> /\ wire = <<>> /\ inbox = <<>> /\ stored = {} /\ missed = {}
      BY <2>1 DEF Init
    <2>3. Connected /\ SeenIsPublished
      BY <2>1 DEF Init, Connected, SeenIsPublished, Trades
    <2>4. /\ Line = <<>> /\ Len(Line) = 0 /\ Len(queue) = 0 /\ Len(inbox) = 0
      BY <2>2 DEF Line
    <2>5. Ordered(Line, stored)
      BY <2>4 DEF Ordered
    <2>6. Behind
      BY <2>4 DEF Behind
    <2>7. Range(queue) = {} /\ Range(wire) = {}
      BY <2>2 DEF Range
    <2>8. Complete /\ MissedOld
      BY <2>2, <2>7 DEF Complete, MissedOld, Underway
    <2>9. QED
      BY <2>3, <2>5, <2>6, <2>8 DEF InOrder
  <1>3. TypeOK /\ Delivery /\ Rows /\ [Next]_vars => Rows'
    BY <1>1, BrokerKept, ConnectedStep, SeenStep, InOrderStep
  <1>4. TypeOK /\ Delivery /\ Rows /\ [Next]_vars
          => [Prompt => \A t \in stored' \ stored : \A u \in stored : u < t]_vars
    BY InOrderStep
  <1> HIDE DEF Rows
  <1>5. QED
    BY <1>2, <1>3, <1>4, PipelineTypes, PTL DEF Spec, StoredInOrder
=============================================================================
