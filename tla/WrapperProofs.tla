----------------------------- MODULE WrapperProofs -----------------------------
(***************************************************************************)
(* Theorems about the wrappers of the exchanges: orders that are sent as   *)
(* they were recorded, requests with one key that do not overtake each     *)
(* other, and what a call returns while the account goes on trading        *)
(* between its requests.                                                   *)
(***************************************************************************)
EXTENDS WrapperProperties, SumTheorems

-----------------------------------------------------------------------------
(* Rounding.                                                               *)

LEMMA Rounding ==
  ASSUME NEW n \in Int, NEW unit \in {4, 40}
  PROVE  /\ RoundedDown(n, unit) \in Int /\ RoundedUp(n, unit) \in Int
         /\ RoundedDown(n, unit) <= n /\ n - RoundedDown(n, unit) < unit
         /\ RoundedUp(n, unit) >= n /\ RoundedUp(n, unit) - n < unit
         /\ RoundedDown(n, unit) % unit = 0 /\ RoundedUp(n, unit) % unit = 0
  <1>1. CASE unit = 4
    BY <1>1 DEF RoundedDown, RoundedUp
  <1>2. CASE unit = 40
    BY <1>2 DEF RoundedDown, RoundedUp
  <1> QED
    BY <1>1, <1>2

\* A whole number of units is sent as it is.
LEMMA WholeKept ==
  ASSUME NEW n \in Int, n % 4 = 0
  PROVE  RoundedDown(n, 4) = n /\ Formatted(n, 4) = {n}
  <1>1. RoundedDown(n, 4) = n /\ RoundedUp(n, 4) = n
    BY DEF RoundedDown, RoundedUp
  <1> QED
    BY <1>1 DEF Formatted

LEMMA NearestIsNear ==
  ASSUME NEW n \in Int, NEW m \in Formatted(n, 4)
  PROVE  m \in Int /\ n - m \in -2..2
  <1>1. m \in Int
    BY Rounding DEF Formatted
  <1>2. 2 * (IF m > n THEN m - n ELSE n - m) <= 4
    BY DEF Formatted
  <1> QED
    BY <1>1, <1>2

\* What is recorded is not worse than what was asked for, and is a whole number
\* of cents.
LEMMA Recorded ==
  ASSUME NEW w \in Wrappers, NEW mode \in {"BID", "ASK"},
         NEW price \in Int, NEW volume \in Int
  PROVE  /\ RecordedPrice(w, mode, price) \in Int
         /\ RecordedPrice(w, mode, price) % 4 = 0
         /\ IF mode = "BID" THEN RecordedPrice(w, mode, price) <= price
                            ELSE RecordedPrice(w, mode, price) >= price
         /\ RecordedVolume(w, volume) \in Int
         /\ RecordedVolume(w, volume) <= volume
         /\ w \in {"Bitstamp", "Gemini"} => RecordedVolume(w, volume) % 4 = 0
  <1>1. PriceUnit(w) \in {4, 40}
    BY DEF PriceUnit
  <1>2. \A n \in Int : n % 40 = 0 => n % 4 = 0
    OBVIOUS
  <1>3. \A n \in Int : n % PriceUnit(w) = 0 => n % 4 = 0
    BY <1>1, <1>2
  <1>4. /\ RecordedPrice(w, mode, price) \in Int
        /\ RecordedPrice(w, mode, price) % 4 = 0
        /\ IF mode = "BID" THEN RecordedPrice(w, mode, price) <= price
                           ELSE RecordedPrice(w, mode, price) >= price
    BY <1>1, <1>3, Rounding DEF RecordedPrice
  <1>5. /\ RecordedVolume(w, volume) \in Int
        /\ RecordedVolume(w, volume) <= volume
        /\ w \in {"Bitstamp", "Gemini"} => RecordedVolume(w, volume) % 4 = 0
    <2>1. CASE w \in {"Bitstamp", "Gemini"}
      <3>1. RecordedVolume(w, volume) = RoundedDown(volume, 4)
        BY <2>1 DEF RecordedVolume, VolumeUnit
      <3> QED
        BY <3>1, Rounding
    <2>2. CASE w \notin {"Bitstamp", "Gemini"}
      BY <2>2 DEF RecordedVolume, VolumeUnit
    <2> QED
      BY <2>1, <2>2
  <1> QED
    BY <1>4, <1>5

\* Rounding once more changes nothing.
LEMMA RecordedOnce ==
  ASSUME NEW w \in {"Bitstamp", "Gemini"}, NEW mode \in {"BID", "ASK"},
         NEW price \in Int, price % 4 = 0
  PROVE  RecordedPrice(w, mode, price) = price
  BY DEF RecordedPrice, PriceUnit, RoundedDown, RoundedUp

\* Whatever the price and the volume that are asked for.
LEMMA SentIsRecorded ==
  ASSUME NEW w \in Wrappers, NEW mode \in {"BID", "ASK"},
         NEW price \in Int, NEW volume \in Int,
         NEW order \in Sent(w, mode, RecordedPrice(w, mode, price),
                            RecordedVolume(w, volume))
  PROVE  /\ order.price = RecordedPrice(w, mode, price)
         /\ VolumeKept(w, order.volume, RecordedVolume(w, volume))
  <1> DEFINE p == RecordedPrice(w, mode, price)
             v == RecordedVolume(w, volume)
  <1>1. p \in Int /\ p % 4 = 0 /\ v \in Int /\ (w \in {"Bitstamp", "Gemini"} => v % 4 = 0)
    BY Recorded
  <1>2. order \in Sent(w, mode, p, v)
    OBVIOUS
  <1>3. Formatted(p, 4) = {p}
    BY <1>1, WholeKept
  <1> HIDE DEF p, v
  <1>4. CASE w \in {"Bitstamp", "Gemini"}
    <2>1. RoundedDown(v, 4) = v /\ RecordedPrice(w, mode, p) = p
      BY <1>1, <1>4, WholeKept, RecordedOnce
    <2>2. order \in [price : {p}, volume : {v}]
      BY <1>2, <1>4, <2>1 DEF Sent, SentByBitstamp, SentByGemini
    <2>3. order.price = p /\ order.volume = v
      BY <2>2
    <2> QED
      BY <1>4, <2>3 DEF p, v, VolumeKept
  <1>5. CASE w = "ItBit"
    <2>1. order \in [price : {p}, volume : {RoundedDown(v, 4)}]
      BY <1>2, <1>3, <1>5 DEF Sent, SentByItBit
    <2>2. order.price = p /\ order.volume = RoundedDown(v, 4)
      BY <2>1
    <2>3. 0 <= v - RoundedDown(v, 4) /\ v - RoundedDown(v, 4) < 4
      <3>1. /\ RoundedDown(v, 4) \in Int
            /\ RoundedDown(v, 4) <= v /\ v - RoundedDown(v, 4) < 4
        BY <1>1, Rounding
      <3> QED
        BY <1>1, <3>1
    <2> QED
      BY <1>5, <2>2, <2>3 DEF p, v, VolumeKept
  <1>6. CASE w \in {"Coinbase", "Quadriga"}
    <2>1. order \in [price : {p}, volume : Formatted(v, 4)]
      BY <1>2, <1>3, <1>6 DEF Sent, SentByCoinbase, SentByQuadriga
    <2>2. order.price = p /\ order.volume \in Formatted(v, 4)
      BY <2>1
    <2>3. v - order.volume \in -2..2
      BY <1>1, <2>2, NearestIsNear
    <2> QED
      BY <1>6, <2>2, <2>3 DEF p, v, VolumeKept
  <1>7. CASE w = "Kraken"
    <2>1. order \in [price : {p}, volume : {v}]
      BY <1>2, <1>7 DEF Sent, SentByKraken
    <2>2. order.price = p /\ order.volume = v
      BY <2>1
    <2> QED
      BY <1>7, <2>2 DEF p, v, VolumeKept
  <1> QED
    BY <1>4, <1>5, <1>6, <1>7 DEF Wrappers
\* An order that reaches the exchange has the price that was recorded, which is
\* not worse than the one asked for, and the volume, but for what the eight
\* decimals of three wrappers round (place_order_req).  This does not depend on
\* the prices and volumes that the property looks at: SentIsRecorded.
THEOREM SentAsRecordedAlways == WrappersSpec => []SentAsRecorded
<1>1. WrappersInit => keyOf \in Wrappers
  BY DEF WrappersInit, RequestsInit
<1>2. keyOf \in Wrappers /\ [WrappersNext]_<<part, vars, requestVars>> => (keyOf \in Wrappers)'
  <2> SUFFICES ASSUME keyOf \in Wrappers, [WrappersNext]_<<part, vars, requestVars>>
               PROVE  keyOf' \in Wrappers
    OBVIOUS
  <2>1. UNCHANGED keyOf \/ RequestsNext
    BY DEF WrappersNext, requestVars
  <2>2. RequestsNext => UNCHANGED keyOf
    BY DEF RequestsNext, Call, Send, Read, Lose, GiveUp, Arrive, Pass
  <2> QED
    BY <2>1, <2>2
<1>3. keyOf \in Wrappers => SentAsRecorded
  <2> SUFFICES ASSUME keyOf \in Wrappers,
                      NEW mode \in {"BID", "ASK"}, NEW price \in AskedPrices,
                      NEW volume \in AskedVolumes,
                      NEW order \in Sent(keyOf, mode, RecordedPrice(keyOf, mode, price),
                                         RecordedVolume(keyOf, volume))
               PROVE  /\ order.price = RecordedPrice(keyOf, mode, price)
                      /\ IF mode = "BID" THEN RecordedPrice(keyOf, mode, price) <= price
                                         ELSE RecordedPrice(keyOf, mode, price) >= price
                      /\ RecordedVolume(keyOf, volume) <= volume
                      /\ VolumeKept(keyOf, order.volume, RecordedVolume(keyOf, volume))
    BY DEF SentAsRecorded
  <2>1. price \in Int /\ volume \in Int
    BY DEF AskedPrices, AskedVolumes
  <2> QED
    BY <2>1, Recorded, SentIsRecorded
<1>4. QED
  BY <1>1, <1>2, <1>3, PTL DEF WrappersSpec

-----------------------------------------------------------------------------
(***************************************************************************)
(* Requests with one key, on their way for any time.  A client that makes  *)
(* one request at a time has nothing under way that is as new as what it   *)
(* waits for, or as what it sends next; one that makes several and pauses  *)
(* after each has them apart by the pause.                                 *)
(***************************************************************************)
AtOnce(c) ==
  \/ keyOf \in {"Coinbase", "Quadriga"} /\ c = "engine"
  \/ keyOf = "Gemini" /\ c = "owner"
Pausing(c) == keyOf = "Quadriga" /\ c = "engine"

Unanswered(c) == {q \in requests : q.client = c /\ q.answer = "none"}

Client == [todo : Nat, size : Nat, attempt : Nat, pause : Nat]

IsRequest(q) ==
  /\ q \in [client : Clients, number : {q.number}, later : Nat, nonce : {q.nonce},
            sent : Nat, answer : {q.answer}, arrived : Nat, awaited : BOOLEAN]
  /\ q.nonce = Nonce(q.sent) /\ q.sent <= clock

RequestTypes ==
  /\ keyOf \in Wrappers /\ clock \in Nat /\ clients \in [Clients -> Client]
  /\ \A q \in requests : IsRequest(q)

CallInv(c) ==
  /\ clients[c].todo <= clients[c].size
  /\ clients[c].size = 0 => clients[c] = Resting /\ Awaited(c) = {}

\* What was sent at t is older than what c waits for, or will wait for next.
Past(c, t) ==
  IF Awaited(c) = {} THEN t < clock
  ELSE \A q \in Awaited(c) : IF q.answer = "none" THEN t < q.sent ELSE t <= q.arrived

OneByOne(c) ==
  /\ clients[c].size <= 1
  /\ clients[c].todo > 0 => Awaited(c) = {}
  /\ \A q, r \in Awaited(c) : q = r
  /\ \A q \in Unanswered(c) : q.awaited \/ Past(c, q.sent)
  /\ newest # <<>> /\ newest.client = c =>
       \E t \in 0..clock : newest.nonce = Nonce(t) /\ Past(c, t)

SleepBetween(t, u) == t + Sleep <= u \/ u + Sleep <= t

Spaced(c) ==
  /\ \A q \in Unanswered(c) : q.sent + Sleep <= clock + clients[c].pause
  /\ \A q, r \in Unanswered(c) : q = r \/ SleepBetween(q.sent, r.sent)
  /\ newest # <<>> /\ newest.client = c =>
       \E t \in 0..clock : /\ newest.nonce = Nonce(t)
                           /\ t + Sleep <= clock + clients[c].pause
                           /\ \A q \in Unanswered(c) : SleepBetween(t, q.sent)

ClientInv(c) ==
  /\ CallInv(c)
  /\ ~AtOnce(c) => OneByOne(c)
  /\ Pausing(c) => Spaced(c)

RequestInv ==
  /\ RequestTypes /\ OvertakenOnly
  /\ keyOf = "Coinbase" => refusal = <<>>
  /\ \A c \in Clients : ClientInv(c)

LEMMA RequestInit == WrappersInit => RequestInv
  BY DEF WrappersInit, RequestsInit, RequestInv, RequestTypes, Resting, Client,
         OvertakenOnly, ClientInv, CallInv, OneByOne, Spaced, Awaited, Unanswered

\* The nonces of two requests are ordered as their times.
LEMMA NoncesOrdered ==
  ASSUME keyOf \in Wrappers, NEW t \in Nat, NEW u \in Nat, t < u
  PROVE  /\ keyOf # "ItBit" => ~(Nonce(t) >= Nonce(u))
         /\ keyOf = "ItBit" => Nonce(t) # Nonce(u)
  BY DEF Wrappers, Nonce, BitstampNonce, KrakenNonce, QuadrigaNonce, GeminiNonce,
         ItBitNonce, CoinbaseTimestamp

\* Who does nothing.
LEMMA OtherClient ==
  ASSUME NEW c \in Clients, ClientInv(c), UNCHANGED <<keyOf, clock>>,
         clients'[c] = clients[c],
         Awaited(c)' = Awaited(c), Unanswered(c)' = Unanswered(c),
         UNCHANGED newest \/ (newest' # <<>> /\ newest'.client # c)
  PROVE  ClientInv(c)'
  <1>1. (AtOnce(c)' <=> AtOnce(c)) /\ (Pausing(c)' <=> Pausing(c))
    BY DEF AtOnce, Pausing
  <1>2. \A t : Nonce(t)' = Nonce(t) /\ (Past(c, t)' <=> Past(c, t))
    BY DEF Nonce, Past
  <1>3. CallInv(c)'
    BY DEF ClientInv, CallInv
  <1>4. OneByOne(c) => OneByOne(c)'
    BY <1>2 DEF OneByOne
  <1>5. Spaced(c) => Spaced(c)'
    BY <1>2 DEF Spaced
  <1>6. QED
    BY <1>1, <1>3, <1>4, <1>5 DEF ClientInv

LEMMA CallStep ==
  ASSUME RequestInv, NEW c \in Clients, Call(c) PROVE RequestInv'
  <1>1. PICK n \in Batches(c) :
          clients' = [clients EXCEPT ![c] = [Resting EXCEPT !.todo = n, !.size = n, !.attempt = 1]]
    BY DEF Call
  <1>2. n \in {1, 2} /\ (~AtOnce(c) => n = 1)
    <2>1. CASE c = "engine"
      BY <2>1 DEF Batches, DetailsBatch, AtOnce
    <2>2. CASE c = "owner"
      BY <2>2 DEF Batches, BalanceBatch, AtOnce
    <2>3. QED
      BY <2>1, <2>2 DEF Clients
  <1>3. clients'[c] = [todo |-> n, size |-> n, attempt |-> 1, pause |-> 0]
    BY <1>1 DEF Resting, RequestInv, RequestTypes
  <1>4. UNCHANGED <<keyOf, clock, requests, newest, refusal>> /\ clients[c].size = 0
    BY DEF Call
  <1>5. RequestTypes' /\ OvertakenOnly' /\ (keyOf' = "Coinbase" => refusal' = <<>>)
    <2>1. clients' \in [Clients -> Client]
      <3>1. n \in Nat
        BY <1>2
      <3>2. clients'[c] \in Client
        BY <1>3, <3>1 DEF Client
      <3>3. \A d \in Clients \ {c} : clients'[d] = clients[d]
        BY <1>1 DEF RequestInv, RequestTypes
      <3>4. QED
        BY <1>1, <3>2, <3>3 DEF RequestInv, RequestTypes
    <2>2. \A q \in requests' : IsRequest(q)'
      BY <1>4 DEF RequestInv, RequestTypes, IsRequest, Nonce
    <2>3. QED
      BY <1>4, <2>1, <2>2 DEF RequestInv, RequestTypes, OvertakenOnly
  <1>6. ASSUME NEW d \in Clients, d # c PROVE ClientInv(d)'
    <2>1. clients'[d] = clients[d]
      BY <1>1, <1>6 DEF RequestInv, RequestTypes
    <2>2. QED
      BY <1>4, <2>1, OtherClient DEF RequestInv, Awaited, Unanswered
  <1>7. ClientInv(c)'
    <2>1. /\ ClientInv(c) /\ clients[c].pause = 0 /\ Awaited(c) = {}
          /\ (AtOnce(c)' <=> AtOnce(c)) /\ (Pausing(c)' <=> Pausing(c))
      BY <1>4 DEF RequestInv, ClientInv, CallInv, Resting, AtOnce, Pausing
    <2>2. Awaited(c)' = {} /\ Unanswered(c)' = Unanswered(c)
      BY <1>4, <2>1 DEF Awaited, Unanswered
    <2>3. \A t : Nonce(t)' = Nonce(t) /\ (Past(c, t)' <=> Past(c, t))
      BY <1>4, <2>1, <2>2 DEF Nonce, Past
    <2>4. CallInv(c)'
      BY <1>2, <1>3, <2>2 DEF CallInv
    <2>5. ~AtOnce(c) => OneByOne(c)'
      BY <1>2, <1>3, <1>4, <2>1, <2>2, <2>3 DEF ClientInv, OneByOne
    <2>6. Pausing(c) => Spaced(c)'
      BY <1>3, <1>4, <2>1, <2>2, <2>3 DEF ClientInv, Spaced
    <2>7. QED
      BY <2>1, <2>4, <2>5, <2>6 DEF ClientInv
  <1>8. QED
    BY <1>5, <1>6, <1>7 DEF RequestInv

LEMMA SendStep ==
  ASSUME RequestInv, NEW c \in Clients, Send(c) PROVE RequestInv'
  <1> DEFINE later == clients[c].todo - 1
             alike == {q \in requests : q.client = c /\ q.later = later /\ q.sent = clock}
             number == CHOOSE n \in 1..MaxUnderWay : \A q \in alike : q.number # n
             new == [client |-> c, number |-> number, later |-> later, nonce |-> Nonce(clock),
                     sent |-> clock, answer |-> "none", arrived |-> 0, awaited |-> TRUE]
  <1>1. /\ clients[c].todo > 0 /\ clients[c].pause = 0
        /\ requests' = requests \cup {new}
        /\ clients' = [clients EXCEPT ![c].todo = later, ![c].pause = RequestPause]
        /\ UNCHANGED <<keyOf, clock, newest, refusal>>
    BY DEF Send
  <1>2. clients[c] \in Client /\ clock \in Nat /\ keyOf \in Wrappers
    BY DEF RequestInv, RequestTypes
  <1>3. later \in Nat
    BY <1>1, <1>2 DEF Client
  <1>4. RequestPause \in Nat /\ (Pausing(c) => RequestPause = Sleep)
    BY RequestsAssumption DEF RequestPause, Pausing
  <1> HIDE DEF number
  <1>5. IsRequest(new) /\ new.client = c /\ new.answer = "none" /\ new.awaited /\ new.sent = clock
    BY <1>2, <1>3 DEF IsRequest
  <1> HIDE DEF new, later
  <1>6. /\ clients'[c] = [clients[c] EXCEPT !.todo = later, !.pause = RequestPause]
        /\ \A d \in Clients \ {c} : clients'[d] = clients[d]
    BY <1>1 DEF RequestInv, RequestTypes
  <1>7. /\ clients'[c].todo = later /\ clients'[c].size = clients[c].size
        /\ clients'[c].pause = RequestPause /\ clients'[c] \in Client
    BY <1>2, <1>3, <1>4, <1>6 DEF Client
  <1>8. RequestTypes' /\ OvertakenOnly' /\ (keyOf' = "Coinbase" => refusal' = <<>>)
    <2>1. clients' \in [Clients -> Client]
      BY <1>1, <1>6, <1>7 DEF RequestInv, RequestTypes
    <2>2. \A q \in requests' : IsRequest(q)
      BY <1>1, <1>5 DEF RequestInv, RequestTypes
    <2>3. \A q \in requests' : IsRequest(q)'
      BY <1>1, <2>2 DEF IsRequest, Nonce
    <2>4. QED
      BY <1>1, <2>1, <2>3 DEF RequestInv, RequestTypes, OvertakenOnly
  <1>9. ASSUME NEW d \in Clients, d # c PROVE ClientInv(d)'
    <2>1. clients'[d] = clients[d]
      BY <1>6, <1>9
    <2>2. Awaited(d)' = Awaited(d) /\ Unanswered(d)' = Unanswered(d)
      BY <1>1, <1>5, <1>9 DEF Awaited, Unanswered
    <2>3. QED
      BY <1>1, <2>1, <2>2, OtherClient DEF RequestInv
  <1>10. ClientInv(c)'
    <2>1. /\ ClientInv(c) /\ (AtOnce(c)' <=> AtOnce(c)) /\ (Pausing(c)' <=> Pausing(c))
          /\ \A t : Nonce(t)' = Nonce(t)
      BY <1>1 DEF RequestInv, AtOnce, Pausing, Nonce
    <2>2. /\ Unanswered(c)' = Unanswered(c) \cup {new} /\ Awaited(c)' = Awaited(c) \cup {new}
          /\ \A q \in Unanswered(c) : q.sent \in Nat /\ q.sent <= clock
      BY <1>1, <1>5 DEF Unanswered, Awaited, RequestInv, RequestTypes, IsRequest
    <2>3. CallInv(c)'
      <3>1. later = clients[c].todo - 1 /\ clients[c].size \in Nat /\ clients[c].todo \in Nat
        BY <1>2 DEF later, Client
      <3>2. clients[c].todo <= clients[c].size
        BY <2>1 DEF ClientInv, CallInv
      <3>3. QED
        BY <1>1, <1>7, <3>1, <3>2 DEF CallInv
    <2>4. ASSUME ~AtOnce(c) PROVE OneByOne(c)'
      <3>1. OneByOne(c) /\ Awaited(c) = {} /\ Awaited(c)' = {new}
        BY <1>1, <2>1, <2>2, <2>4 DEF ClientInv, OneByOne
      <3>2. later = 0
        BY <1>1, <1>2, <2>1, <3>1 DEF ClientInv, CallInv, OneByOne, Client, later
      <3>3. \A t : Past(c, t) => Past(c, t)'
        BY <1>1, <1>5, <3>1 DEF Past
      <3>4. \A q \in Unanswered(c)' : q.awaited \/ Past(c, q.sent)'
        BY <1>5, <2>2, <3>1, <3>3 DEF OneByOne
      <3>5. newest' # <<>> /\ newest'.client = c =>
              \E t \in 0..clock' : newest'.nonce = Nonce(t)' /\ Past(c, t)'
        BY <1>1, <2>1, <3>1, <3>3 DEF OneByOne
      <3>6. QED
        BY <1>7, <3>1, <3>2, <3>4, <3>5 DEF OneByOne
    <2>5. ASSUME Pausing(c) PROVE Spaced(c)'
      <3>1. Spaced(c) /\ clients'[c].pause = Sleep /\ Sleep \in Nat
        BY <1>4, <1>7, <2>1, <2>5, RequestsAssumption DEF ClientInv
      <3>2. \A q \in Unanswered(c) : q.sent + Sleep <= clock /\ SleepBetween(q.sent, clock)
        BY <1>1, <1>2, <2>2, <3>1 DEF Spaced, SleepBetween
      <3>3. \A q \in Unanswered(c)' : q.sent + Sleep <= clock' + clients'[c].pause
        BY <1>1, <1>2, <1>5, <2>2, <3>1, <3>2
      <3>4. \A q, r \in Unanswered(c)' : q = r \/ SleepBetween(q.sent, r.sent)
        <4>1. \A q \in Unanswered(c) : SleepBetween(clock, q.sent)
          BY <3>2 DEF SleepBetween
        <4>2. QED
          BY <1>5, <2>2, <3>1, <3>2, <4>1 DEF Spaced
      <3>5. ASSUME newest # <<>>, newest.client = c
            PROVE  \E t \in 0..clock : /\ newest.nonce = Nonce(t)
                                       /\ t + Sleep <= clock + Sleep
                                       /\ \A q \in Unanswered(c)' : SleepBetween(t, q.sent)
        <4>1. PICK t \in 0..clock : /\ newest.nonce = Nonce(t)
                                    /\ t + Sleep <= clock + clients[c].pause
                                    /\ \A q \in Unanswered(c) : SleepBetween(t, q.sent)
          BY <3>1, <3>5 DEF Spaced
        <4>2. t + Sleep <= clock /\ SleepBetween(t, clock) /\ t + Sleep <= clock + Sleep
          BY <1>1, <1>2, <3>1, <4>1 DEF SleepBetween
        <4>3. QED
          BY <1>5, <2>2, <4>1, <4>2
      <3>6. QED
        BY <1>1, <2>1, <3>1, <3>3, <3>4, <3>5 DEF Spaced
    <2>6. QED
      BY <2>1, <2>3, <2>4, <2>5 DEF ClientInv
  <1>11. QED
    BY <1>8, <1>9, <1>10 DEF RequestInv

\* A request is answered or given up: the answer is there if it was awaited, and
\* the request may still be under way.  What the exchange accepted last is what
\* it was, or was this request.
LEMMA AnsweredClients ==
  ASSUME RequestInv, NEW q \in requests, q.answer = "none", NEW x, x # "none",
         NEW kept \in SUBSET {[q EXCEPT !.awaited = FALSE]}, q.awaited \/ kept = {},
         requests' = (requests \ {q}) \cup kept \cup
                       (IF q.awaited THEN {[q EXCEPT !.answer = x, !.arrived = clock]} ELSE {}),
         UNCHANGED <<keyOf, clock, clients>>,
         \/ UNCHANGED newest
         \/ newest' = [nonce |-> q.nonce, client |-> q.client] /\ kept = {}
  PROVE  RequestTypes' /\ \A d \in Clients : ClientInv(d)'
  <1> DEFINE c == q.client
             a == [q EXCEPT !.answer = x, !.arrived = clock]
             g == [q EXCEPT !.awaited = FALSE]
  <1>1. /\ c \in Clients /\ ClientInv(c) /\ IsRequest(q) /\ clock \in Nat
        /\ clients[c] \in Client /\ q.sent \in Nat /\ q.sent <= clock
        /\ q.nonce = Nonce(q.sent) /\ \A t : Nonce(t)' = Nonce(t)
        /\ \A r \in requests : IsRequest(r)
    BY DEF RequestInv, RequestTypes, IsRequest, Nonce
  <1>2. /\ a \in [client : {q.client}, number : {q.number}, later : {q.later},
                  nonce : {q.nonce}, sent : {q.sent}, answer : {x}, arrived : {clock},
                  awaited : {q.awaited}]
        /\ g \in [client : {q.client}, number : {q.number}, later : {q.later},
                  nonce : {q.nonce}, sent : {q.sent}, answer : {q.answer},
                  arrived : {q.arrived}, awaited : {FALSE}]
    BY <1>1 DEF IsRequest
  <1>3. /\ requests' = (requests \ {q}) \cup kept \cup (IF q.awaited THEN {a} ELSE {})
        /\ kept \subseteq {g}
    OBVIOUS
  <1> HIDE DEF a, g
  <1>4. /\ IsRequest(a) /\ a.client = q.client /\ a.awaited = q.awaited
        /\ a.answer = x /\ a.arrived = clock /\ a.sent = q.sent
        /\ IsRequest(g) /\ g.client = q.client /\ ~g.awaited /\ g.answer = "none"
        /\ g.sent = q.sent
    BY <1>1, <1>2 DEF IsRequest
  <1>5. RequestTypes'
    <2>1. \A r \in requests' : IsRequest(r)
      BY <1>1, <1>3, <1>4
    <2>2. \A r \in requests' : IsRequest(r)'
      BY <2>1 DEF IsRequest, Nonce
    <2>3. QED
      BY <2>2 DEF RequestInv, RequestTypes
  <1>6. ASSUME NEW d \in Clients, d # c PROVE ClientInv(d)'
    <2>1. Awaited(d)' = Awaited(d) /\ Unanswered(d)' = Unanswered(d)
      BY <1>3, <1>4, <1>6 DEF Awaited, Unanswered
    <2>2. UNCHANGED newest \/ (newest' # <<>> /\ newest'.client # d)
      <3>1. ASSUME newest' = [nonce |-> q.nonce, client |-> q.client]
            PROVE  newest' # <<>> /\ newest'.client # d
        <4>1. newest'.client # d
          BY <1>6, <3>1
        <4>2. newest' # <<>>
          BY <3>1
        <4>3. QED
          BY <4>1, <4>2
      <3>2. QED
        BY <3>1
    <2>3. QED
      BY <2>1, <2>2, OtherClient DEF RequestInv
  <1>7. ClientInv(c)'
    <2>1. /\ Unanswered(c)' = (Unanswered(c) \ {q}) \cup kept /\ q \in Unanswered(c)
          /\ \A r \in Unanswered(c) : r.sent \in Nat /\ r.sent <= clock
      BY <1>1, <1>3, <1>4 DEF Unanswered, IsRequest
    <2>2. /\ q.awaited => q \in Awaited(c) /\ Awaited(c)' = (Awaited(c) \ {q}) \cup {a}
          /\ ~q.awaited => Awaited(c)' = Awaited(c) /\ kept = {}
      BY <1>3, <1>4 DEF Awaited
    <2> HIDE DEF c
    <2>3. CallInv(c)'
      BY <1>1, <2>2 DEF ClientInv, CallInv
    <2>4. ASSUME ~AtOnce(c) PROVE OneByOne(c)'
      <3>1. OneByOne(c)
        BY <1>1, <2>4 DEF ClientInv
      <3>2. q.awaited => Awaited(c) = {q} /\ Awaited(c)' = {a}
        BY <2>2, <3>1 DEF OneByOne
      <3>3. \A t \in Nat : Past(c, t) => Past(c, t)'
        BY <1>1, <1>4, <2>2, <3>2 DEF Past
      <3>4. Past(c, q.sent)'
        <4>1. CASE q.awaited
          BY <1>1, <1>4, <3>2, <4>1 DEF Past
        <4>2. CASE ~q.awaited
          BY <1>1, <2>1, <3>1, <3>3, <4>2 DEF OneByOne
        <4>3. QED
          BY <4>1, <4>2
      <3>5. \A r \in Unanswered(c)' : r.awaited \/ Past(c, r.sent)'
        BY <1>3, <1>4, <2>1, <3>1, <3>3, <3>4 DEF OneByOne
      <3>6. newest' # <<>> /\ newest'.client = c =>
              \E t \in 0..clock' : newest'.nonce = Nonce(t)' /\ Past(c, t)'
        <4>1. CASE UNCHANGED newest
          BY <1>1, <3>1, <3>3, <4>1 DEF OneByOne
        <4>2. CASE newest' = [nonce |-> q.nonce, client |-> q.client]
          <5>1. newest'.nonce = Nonce(q.sent)' /\ q.sent \in 0..clock'
            BY <1>1, <4>2
          <5>2. QED
            BY <3>4, <5>1
        <4>3. QED
          BY <4>1, <4>2
      <3>7. /\ clients'[c].todo > 0 => Awaited(c)' = {}
            /\ \A r, s \in Awaited(c)' : r = s
        BY <1>1, <2>2, <3>1, <3>2 DEF OneByOne
      <3>8. QED
        BY <3>1, <3>5, <3>6, <3>7 DEF OneByOne
    <2>5. ASSUME Pausing(c) PROVE Spaced(c)'
      <3>1. Spaced(c)
        BY <1>1, <2>5 DEF ClientInv
      <3>2. \A r \in Unanswered(c)' \ Unanswered(c) : r.sent = q.sent
        BY <1>3, <1>4, <2>1
      <3>3. \A r \in Unanswered(c)' : r.sent + Sleep <= clock' + clients'[c].pause
        BY <2>1, <3>1, <3>2 DEF Spaced
      <3>4. \A r, s \in Unanswered(c)' : r = s \/ SleepBetween(r.sent, s.sent)
        <4>1. \A r \in Unanswered(c) \ {q} :
                SleepBetween(r.sent, q.sent) /\ SleepBetween(q.sent, r.sent)
          BY <2>1, <3>1 DEF Spaced
        <4>2. \A r \in Unanswered(c)' : r \in Unanswered(c) \ {q} \/ r = g
          BY <1>3, <2>1
        <4>3. QED
          BY <1>4, <3>1, <4>1, <4>2 DEF Spaced
      <3>5. newest' # <<>> /\ newest'.client = c =>
              \E t \in 0..clock' : /\ newest'.nonce = Nonce(t)'
                                   /\ t + Sleep <= clock' + clients'[c].pause
                                   /\ \A r \in Unanswered(c)' : SleepBetween(t, r.sent)
        <4>1. CASE UNCHANGED newest
          <5> SUFFICES ASSUME newest # <<>>, newest.client = c
                       PROVE  \E t \in 0..clock : /\ newest.nonce = Nonce(t)
                                                  /\ t + Sleep <= clock + clients[c].pause
                                                  /\ \A r \in Unanswered(c)' : SleepBetween(t, r.sent)
            BY <1>1, <4>1
          <5>1. PICK t \in 0..clock : /\ newest.nonce = Nonce(t)
                                      /\ t + Sleep <= clock + clients[c].pause
                                      /\ \A r \in Unanswered(c) : SleepBetween(t, r.sent)
            BY <3>1 DEF Spaced
          <5>2. \A r \in Unanswered(c)' : SleepBetween(t, r.sent)
            BY <2>1, <3>2, <5>1
          <5>3. QED
            BY <5>1, <5>2
        <4>2. CASE newest' = [nonce |-> q.nonce, client |-> q.client] /\ kept = {}
          <5>1. newest'.nonce = Nonce(q.sent)' /\ q.sent \in 0..clock'
            BY <1>1, <4>2
          <5>2. q.sent + Sleep <= clock' + clients'[c].pause
            BY <2>1, <3>1 DEF Spaced
          <5>3. \A r \in Unanswered(c)' : SleepBetween(q.sent, r.sent)
            BY <2>1, <3>1, <4>2 DEF Spaced
          <5>4. QED
            BY <5>1, <5>2, <5>3
        <4>3. QED
          BY <4>1, <4>2
      <3>6. QED
        BY <3>3, <3>4, <3>5 DEF Spaced
    <2>6. (AtOnce(c)' <=> AtOnce(c)) /\ (Pausing(c)' <=> Pausing(c))
      BY DEF AtOnce, Pausing, c
    <2>7. QED
      BY <2>3, <2>4, <2>5, <2>6 DEF ClientInv
  <1>8. QED
    BY <1>5, <1>6, <1>7

\* By itself, a client is overtaken only where it makes several requests, and
\* only by one that it sent a pause later.
LEMMA NotByItself ==
  ASSUME RequestInv, NEW q \in requests, q.answer = "none", q.awaited, Overtaken(q),
         newest.client = q.client
  PROVE  AtOnce(q.client) /\ (Pausing(q.client) => clock - q.sent >= Sleep)
  <1> DEFINE c == q.client
  <1>1. /\ c \in Clients /\ q.sent \in Nat /\ q.sent <= clock /\ q.nonce = Nonce(q.sent)
        /\ keyOf \in Wrappers /\ clock \in Nat /\ ClientInv(c) /\ newest # <<>>
    BY DEF RequestInv, RequestTypes, IsRequest, Overtaken
  <1>2. q \in Unanswered(c) /\ q \in Awaited(c)
    BY DEF Unanswered, Awaited
  <1>3. ASSUME ~AtOnce(c) PROVE FALSE
    <2>1. PICK t \in 0..clock : newest.nonce = Nonce(t) /\ Past(c, t)
      BY <1>1, <1>3 DEF ClientInv, OneByOne
    <2>2. t \in Nat /\ t < q.sent
      BY <1>1, <1>2, <2>1 DEF Past
    <2>3. QED
      BY <1>1, <2>1, <2>2, NoncesOrdered DEF Overtaken
  <1>4. ASSUME Pausing(c) PROVE clock - q.sent >= Sleep
    <2>1. PICK t \in 0..clock : newest.nonce = Nonce(t) /\ SleepBetween(t, q.sent)
      BY <1>1, <1>2, <1>4 DEF ClientInv, Spaced
    <2>2. t \in Nat /\ t <= clock /\ Sleep \in Nat \ {0}
      BY <1>1, <2>1, RequestsAssumption
    <2>3. ~(t < q.sent)
      BY <1>1, <2>1, <2>2, NoncesOrdered DEF Overtaken
    <2>4. q.sent + Sleep <= t
      BY <1>1, <2>1, <2>2, <2>3 DEF SleepBetween
    <2>5. QED
      BY <1>1, <2>2, <2>4
  <1>5. QED
    BY <1>3, <1>4

LEMMA LoseStep ==
  ASSUME RequestInv, NEW q \in requests, Lose(q) \/ GiveUp(q) PROVE RequestInv'
  <1>1. q.answer = "none" /\ UNCHANGED <<keyOf, clock, clients, newest, refusal>>
    BY DEF Lose, GiveUp
  <1>2. PICK kept \in SUBSET {[q EXCEPT !.awaited = FALSE]} :
          /\ q.awaited \/ kept = {}
          /\ requests' = (requests \ {q}) \cup kept \cup
               (IF q.awaited THEN {[q EXCEPT !.answer = "failure", !.arrived = clock]} ELSE {})
    <2>1. CASE Lose(q)
      <3>1. requests' = (requests \ {q}) \cup {} \cup
              (IF q.awaited THEN {[q EXCEPT !.answer = "failure", !.arrived = clock]} ELSE {})
        BY <2>1 DEF Lose, Answer
      <3>2. {} \in SUBSET {[q EXCEPT !.awaited = FALSE]}
        OBVIOUS
      <3>3. QED
        BY <3>1, <3>2
    <2>2. CASE GiveUp(q)
      <3> DEFINE g == [q EXCEPT !.awaited = FALSE]
                 a == [q EXCEPT !.answer = "failure", !.arrived = clock]
      <3>1. q.awaited /\ requests' = (requests \ {q}) \cup {a, g}
        BY <2>2 DEF GiveUp
      <3> HIDE DEF a, g
      <3>2. requests' = (requests \ {q}) \cup {g} \cup (IF q.awaited THEN {a} ELSE {})
        BY <3>1
      <3>3. q.awaited /\ {g} \in SUBSET {g}
        BY <3>1
      <3>4. QED
        BY <3>2, <3>3 DEF a, g
    <2>3. QED
      BY <2>1, <2>2
  <1>3. RequestTypes' /\ \A d \in Clients : ClientInv(d)'
    BY <1>1, <1>2, AnsweredClients
  <1>4. QED
    BY <1>1, <1>3 DEF RequestInv, OvertakenOnly

LEMMA ArriveStep ==
  ASSUME RequestInv, NEW q \in requests, Arrive(q) PROVE RequestInv'
  <1>1. q.answer = "none" /\ UNCHANGED <<keyOf, clock, clients>> /\ q.client \in Clients
    BY DEF Arrive, RequestInv, RequestTypes, IsRequest
  <1>2. PICK x \in {"nonce", "data", "error", "failure"} : Answer(q, x)
    BY DEF Arrive
  <1>3. UNCHANGED newest \/ newest' = [nonce |-> q.nonce, client |-> q.client]
    BY DEF Arrive
  <1>4. RequestTypes' /\ \A d \in Clients : ClientInv(d)'
    BY <1>1, <1>2, <1>3, AnsweredClients DEF Answer
  <1>5. OvertakenOnly' /\ (keyOf' = "Coinbase" => refusal' = <<>>)
    <2>1. CASE Overtaken(q) /\ q.awaited
      <3>1. /\ refusal' = [client |-> q.client, by |-> newest.client, after |-> clock - q.sent]
            /\ keyOf # "Coinbase"
        BY <2>1 DEF Arrive, Overtaken
      <3>2. newest.client = q.client =>
              AtOnce(q.client) /\ (Pausing(q.client) => clock - q.sent >= Sleep)
        BY <1>1, <2>1, NotByItself
      <3>3. refusal'.by = newest.client /\ refusal'.client = q.client
            /\ refusal'.after = clock - q.sent
        BY <3>1
      <3>4. newest.client = q.client => OvertakenOnly'
        BY <1>1, <3>1, <3>2, <3>3 DEF OvertakenOnly, AtOnce, Pausing
      <3>5. QED
        BY <1>1, <3>1, <3>3, <3>4 DEF OvertakenOnly
    <2>2. CASE ~(Overtaken(q) /\ q.awaited)
      BY <1>1, <2>2 DEF Arrive, RequestInv, OvertakenOnly
    <2>3. QED
      BY <2>1, <2>2
  <1>6. QED
    BY <1>4, <1>5 DEF RequestInv

\* Nobody waits for what is abandoned; it is what was under way.
LEMMA AbandonedAre ==
  ASSUME \A q \in requests : IsRequest(q), NEW c \in Clients
  PROVE  /\ \A r \in Abandoned(c) : IsRequest(r)
         /\ \A r : r.client # c => (r \in Abandoned(c) <=> r \in requests)
         /\ \A r \in Abandoned(c) : r.client = c =>
              /\ ~r.awaited
              /\ \E q \in Unanswered(c) : r = [q EXCEPT !.awaited = FALSE] /\ r.sent = q.sent
  <1>1. ASSUME NEW q \in requests
        PROVE  LET a == [q EXCEPT !.awaited = FALSE]
               IN  /\ IsRequest(a) /\ a.client = q.client /\ ~a.awaited
                   /\ a.answer = q.answer /\ a.sent = q.sent
    <2> DEFINE a == [q EXCEPT !.awaited = FALSE]
    <2>1. a \in [client : {q.client}, number : {q.number}, later : {q.later}, nonce : {q.nonce},
                 sent : {q.sent}, answer : {q.answer}, arrived : {q.arrived}, awaited : {FALSE}]
      BY DEF IsRequest
    <2>2. IsRequest(q)
      OBVIOUS
    <2> HIDE DEF a
    <2>3. /\ IsRequest(a) /\ a.client = q.client /\ ~a.awaited
          /\ a.answer = q.answer /\ a.sent = q.sent
      BY <2>1, <2>2 DEF IsRequest
    <2>4. QED
      BY <2>3 DEF a
  <1>2. ASSUME NEW r \in Abandoned(c)
        PROVE  \/ r \in requests /\ r.client # c
               \/ /\ r.client = c /\ IsRequest(r) /\ ~r.awaited
                  /\ \E q \in Unanswered(c) : r = [q EXCEPT !.awaited = FALSE] /\ r.sent = q.sent
    <2>1. PICK q \in requests :
            /\ q.client # c \/ q.answer = "none"
            /\ r = IF q.client = c THEN [q EXCEPT !.awaited = FALSE] ELSE q
      BY DEF Abandoned
    <2>2. CASE q.client = c
      <3>1. q \in Unanswered(c)
        BY <2>1, <2>2 DEF Unanswered
      <3>2. QED
        BY <1>1, <2>1, <2>2, <3>1
    <2>3. CASE q.client # c
      BY <2>1, <2>3
    <2>4. QED
      BY <2>2, <2>3
  <1>3. ASSUME NEW r, r.client # c, r \in requests PROVE r \in Abandoned(c)
    BY <1>3 DEF Abandoned
  <1>4. \A r \in Abandoned(c) : IsRequest(r)
    BY <1>2
  <1>5. \A r : r.client # c => (r \in Abandoned(c) => r \in requests)
    BY <1>2
  <1>6. QED
    BY <1>2, <1>3, <1>4, <1>5

LEMMA ReadStep ==
  ASSUME RequestInv, NEW c \in Clients, Read(c) PROVE RequestInv'
  <1>1. PICK first \in Awaited(c) :
          /\ clients[c].todo = 0 /\ clients[c].pause = 0
          /\ first.answer # "none" /\ clock > first.arrived
          /\ \/ requests' = requests \ {first} /\ Awaited(c) # {first} /\ UNCHANGED clients
             \/ /\ requests' = Abandoned(c)
                /\ \E r \in {Resting, [todo |-> clients[c].size, size |-> clients[c].size,
                                      attempt |-> clients[c].attempt + 1, pause |-> Backoff]} :
                     clients' = [clients EXCEPT ![c] = r]
    BY DEF Read
  <1>2. UNCHANGED <<keyOf, clock, newest, refusal>>
    BY DEF Read
  <1>3. /\ clients[c] \in Client /\ clock \in Nat /\ \A q \in requests : IsRequest(q)
        /\ ClientInv(c) /\ \A t : Nonce(t)' = Nonce(t)
        /\ (AtOnce(c)' <=> AtOnce(c)) /\ (Pausing(c)' <=> Pausing(c))
    BY <1>2 DEF RequestInv, RequestTypes, AtOnce, Pausing, Nonce
  <1>4. first \in requests /\ first.client = c
    BY DEF Awaited
  <1>5. /\ \A r \in requests' : IsRequest(r)
        /\ \A r : r.client # c => (r \in requests' <=> r \in requests)
        /\ \A r \in Unanswered(c)' : \E q \in Unanswered(c) :
             /\ r.sent = q.sent
             /\ r = IF requests' = Abandoned(c) THEN [q EXCEPT !.awaited = FALSE] ELSE q
    <2>1. CASE requests' = Abandoned(c)
      BY <1>3, <2>1, AbandonedAre DEF Unanswered
    <2>2. CASE requests' # Abandoned(c)
      <3>1. requests' = requests \ {first}
        BY <1>1, <2>2
      <3>2. QED
        BY <1>3, <1>4, <2>2, <3>1 DEF Unanswered
    <2>3. QED
      BY <2>1, <2>2
  <1>6. /\ \/ clients'[c] = clients[c] \/ clients'[c] = Resting
           \/ clients'[c] = [todo |-> clients[c].size, size |-> clients[c].size,
                             attempt |-> clients[c].attempt + 1, pause |-> Backoff]
        /\ \A d \in Clients \ {c} : clients'[d] = clients[d]
        /\ DOMAIN clients' = Clients
    BY <1>1 DEF RequestInv, RequestTypes
  <1>7. /\ clients'[c] \in Client /\ clients'[c].pause \in Nat
        /\ clients'[c].todo <= clients'[c].size /\ clients'[c].size <= clients[c].size
    <2>1. clients[c].todo <= clients[c].size
      BY <1>3 DEF ClientInv, CallInv
    <2>2. QED
      BY <1>3, <1>6, <2>1, RequestsAssumption DEF Client, Resting
  <1>8. RequestTypes' /\ OvertakenOnly' /\ (keyOf' = "Coinbase" => refusal' = <<>>)
    <2>1. clients' \in [Clients -> Client]
      <3>1. clients' = [d \in Clients |-> clients'[d]]
        BY <1>1, <1>6 DEF RequestInv, RequestTypes
      <3>2. \A d \in Clients : clients'[d] \in Client
        BY <1>6, <1>7 DEF RequestInv, RequestTypes
      <3>3. QED
        BY <3>1, <3>2
    <2>2. \A q \in requests' : IsRequest(q)'
      BY <1>2, <1>5 DEF IsRequest, Nonce
    <2>3. QED
      BY <1>2, <2>1, <2>2 DEF RequestInv, RequestTypes, OvertakenOnly
  <1>9. ASSUME NEW d \in Clients, d # c PROVE ClientInv(d)'
    <2>1. clients'[d] = clients[d]
      BY <1>6, <1>9
    <2>2. Awaited(d)' = Awaited(d) /\ Unanswered(d)' = Unanswered(d)
      BY <1>5, <1>9 DEF Awaited, Unanswered
    <2>3. QED
      BY <1>2, <2>1, <2>2, OtherClient DEF RequestInv
  <1>10. CallInv(c)'
    <2>1. clients[c].size # 0
      BY <1>3 DEF ClientInv, CallInv
    <2>2. ASSUME clients'[c].size = 0
          PROVE  clients'[c] = Resting /\ requests' = Abandoned(c)
      BY <1>1, <1>6, <2>1, <2>2
    <2>3. \A r \in Abandoned(c) : r.client = c => ~r.awaited
      BY <1>3, AbandonedAre
    <2>4. QED
      BY <1>7, <2>2, <2>3 DEF CallInv, Awaited
  <1>11. ASSUME ~AtOnce(c) PROVE OneByOne(c)'
    <2>1. OneByOne(c) /\ Awaited(c) = {first} /\ first.arrived \in Nat
      BY <1>3, <1>4, <1>11 DEF ClientInv, OneByOne, IsRequest
    <2>2. requests' = Abandoned(c)
      BY <1>1, <2>1
    <2>3. Awaited(c)' = {}
      BY <1>3, <2>2, AbandonedAre DEF Awaited
    <2>4. \A t \in Nat : Past(c, t) => Past(c, t)'
      BY <1>1, <1>2, <1>3, <2>1, <2>3 DEF Past
    <2>5. \A q \in Unanswered(c) : ~q.awaited /\ q.sent \in Nat
      BY <1>1, <1>3, <2>1 DEF Unanswered, Awaited, IsRequest
    <2>6. \A r \in Unanswered(c)' : Past(c, r.sent)'
      BY <1>5, <2>1, <2>4, <2>5 DEF OneByOne
    <2>7. newest' # <<>> /\ newest'.client = c =>
            \E t \in 0..clock' : newest'.nonce = Nonce(t)' /\ Past(c, t)'
      BY <1>2, <1>3, <2>1, <2>4 DEF OneByOne
    <2>8. clients'[c].size <= 1
      BY <1>3, <1>7, <2>1 DEF OneByOne, Client
    <2>9. QED
      BY <2>3, <2>6, <2>7, <2>8 DEF OneByOne
  <1>12. ASSUME Pausing(c) PROVE Spaced(c)'
    <2>1. Spaced(c) /\ Sleep \in Nat /\ \A q \in Unanswered(c) : q.sent \in Nat
      BY <1>3, <1>12, RequestsAssumption DEF ClientInv, Unanswered, IsRequest
    <2>2. \A t \in Nat : t + Sleep <= clock + clients[c].pause =>
            t + Sleep <= clock' + clients'[c].pause
      BY <1>1, <1>2, <1>3, <1>7, <2>1
    <2>3. \A r \in Unanswered(c)' : r.sent + Sleep <= clock' + clients'[c].pause
      BY <1>5, <2>1, <2>2 DEF Spaced
    <2>4. ASSUME NEW r \in Unanswered(c)', NEW s \in Unanswered(c)'
          PROVE  r = s \/ SleepBetween(r.sent, s.sent)
      <3>1. PICK q \in Unanswered(c) :
              /\ r.sent = q.sent
              /\ r = IF requests' = Abandoned(c) THEN [q EXCEPT !.awaited = FALSE] ELSE q
        BY <1>5
      <3>2. PICK p \in Unanswered(c) :
              /\ s.sent = p.sent
              /\ s = IF requests' = Abandoned(c) THEN [p EXCEPT !.awaited = FALSE] ELSE p
        BY <1>5
      <3>3. CASE q = p
        BY <3>1, <3>2, <3>3
      <3>4. CASE q # p
        BY <2>1, <3>1, <3>2, <3>4 DEF Spaced
      <3>5. QED
        BY <3>3, <3>4
    <2>5. ASSUME newest # <<>>, newest.client = c
          PROVE  \E t \in 0..clock : /\ newest.nonce = Nonce(t)
                                     /\ t + Sleep <= clock' + clients'[c].pause
                                     /\ \A r \in Unanswered(c)' : SleepBetween(t, r.sent)
      BY <1>3, <1>5, <2>1, <2>2, <2>5 DEF Spaced
    <2>6. QED
      BY <1>2, <1>3, <2>3, <2>4, <2>5 DEF Spaced
  <1>13. QED
    BY <1>3, <1>8, <1>9, <1>10, <1>11, <1>12 DEF RequestInv, ClientInv

LEMMA PassStep ==
  ASSUME RequestInv, Pass PROVE RequestInv'
  <1>1. /\ clock' = clock + 1
        /\ clients' = [c \in Clients |->
                        [clients[c] EXCEPT !.pause = IF @ = 0 THEN 0 ELSE @ - 1]]
        /\ UNCHANGED <<keyOf, requests, newest, refusal>>
    BY DEF Pass
  <1>2. clock \in Nat /\ clients \in [Clients -> Client] /\ \A t : Nonce(t)' = Nonce(t)
    BY <1>1 DEF RequestInv, RequestTypes, Nonce
  <1>3. ASSUME NEW c \in Clients
        PROVE  /\ clients'[c] \in Client /\ clients'[c].todo = clients[c].todo
               /\ clients'[c].size = clients[c].size
               /\ clock' + clients'[c].pause >= clock + clients[c].pause
               /\ clients'[c].pause \in Nat /\ clients[c].pause \in Nat
               /\ clients[c] = Resting => clients'[c] = Resting
    <2> DEFINE p == IF clients[c].pause = 0 THEN 0 ELSE clients[c].pause - 1
    <2>1. clients[c] \in Client /\ clients'[c] = [clients[c] EXCEPT !.pause = p]
      BY <1>1, <1>2
    <2>2. p \in Nat /\ p + 1 >= clients[c].pause /\ clients[c].pause \in Nat
      BY <2>1 DEF Client
    <2>3. clients[c] = Resting => p = clients[c].pause
      BY DEF Resting
    <2> HIDE DEF p
    <2>4. /\ clients'[c] \in Client /\ clients'[c].todo = clients[c].todo
          /\ clients'[c].size = clients[c].size /\ clients'[c].pause = p
      BY <2>1, <2>2 DEF Client
    <2>5. p = clients[c].pause => clients'[c] = clients[c]
      BY <2>1 DEF Client
    <2>6. QED
      BY <1>1, <1>2, <2>2, <2>3, <2>4, <2>5
  <1>4. RequestTypes' /\ OvertakenOnly' /\ (keyOf' = "Coinbase" => refusal' = <<>>)
    <2>1. clients' \in [Clients -> Client]
      BY <1>1, <1>3
    <2>2. \A q \in requests' : IsRequest(q)'
      <3>1. \A q \in requests : IsRequest(q) /\ q.sent \in Nat /\ q.sent <= clock'
        BY <1>1, <1>2 DEF RequestInv, RequestTypes, IsRequest
      <3>2. QED
        BY <1>1, <3>1 DEF IsRequest, Nonce
    <2>3. QED
      BY <1>1, <1>2, <2>1, <2>2 DEF RequestInv, RequestTypes, OvertakenOnly
  <1>5. ASSUME NEW c \in Clients PROVE ClientInv(c)'
    <2>1. /\ ClientInv(c) /\ (AtOnce(c)' <=> AtOnce(c)) /\ (Pausing(c)' <=> Pausing(c))
          /\ Awaited(c)' = Awaited(c) /\ Unanswered(c)' = Unanswered(c)
          /\ \A q \in Unanswered(c) : q.sent \in Nat
      BY <1>1 DEF RequestInv, AtOnce, Pausing, Awaited, Unanswered, RequestTypes, IsRequest
    <2>2. CallInv(c)'
      BY <1>3, <2>1 DEF ClientInv, CallInv
    <2>3. ASSUME OneByOne(c) PROVE OneByOne(c)'
      <3>1. \A t \in Nat : Past(c, t) => Past(c, t)'
        BY <1>1, <1>2, <2>1 DEF Past
      <3>2. \A q \in Unanswered(c)' : q.awaited \/ Past(c, q.sent)'
        BY <2>1, <2>3, <3>1 DEF OneByOne
      <3>3. newest' # <<>> /\ newest'.client = c =>
              \E t \in 0..clock' : newest'.nonce = Nonce(t)' /\ Past(c, t)'
        BY <1>1, <1>2, <2>3, <3>1 DEF OneByOne
      <3>4. QED
        BY <1>3, <2>1, <2>3, <3>2, <3>3 DEF OneByOne
    <2>4. ASSUME Spaced(c) PROVE Spaced(c)'
      <3>1. \A t \in Nat : t + Sleep <= clock + clients[c].pause =>
              t + Sleep <= clock' + clients'[c].pause
        BY <1>1, <1>2, <1>3, RequestsAssumption
      <3>2. \A q \in Unanswered(c)' : q.sent + Sleep <= clock' + clients'[c].pause
        BY <2>1, <2>4, <3>1 DEF Spaced
      <3>3. newest' # <<>> /\ newest'.client = c =>
              \E t \in 0..clock' : /\ newest'.nonce = Nonce(t)'
                                   /\ t + Sleep <= clock' + clients'[c].pause
                                   /\ \A q \in Unanswered(c)' : SleepBetween(t, q.sent)
        BY <1>1, <1>2, <2>1, <2>4, <3>1 DEF Spaced
      <3>4. QED
        BY <2>1, <2>4, <3>2, <3>3 DEF Spaced
    <2>5. QED
      BY <2>1, <2>2, <2>3, <2>4 DEF ClientInv
  <1>6. QED
    BY <1>4, <1>5 DEF RequestInv

\* For requests that take any time: one that a process waits for is not refused
\* for its nonce because of another of the same process, by the session's ten
\* workers, retries, or within a millisecond (req, resp and exchange_retry); but
\* for the balances of Gemini's pairs, and for the details of several orders at
\* Quadriga when a request takes longer than the sleep.
THEOREM OnlyOthersOvertake == WrappersSpec => []OvertakenOnly
<1>1. RequestInv /\ [WrappersNext]_<<part, vars, requestVars>> => RequestInv'
  <2> SUFFICES ASSUME RequestInv, [WrappersNext]_<<part, vars, requestVars>>
               PROVE  RequestInv'
    OBVIOUS
  <2>1. UNCHANGED requestVars \/ RequestsNext
    BY DEF WrappersNext
  <2>2. CASE UNCHANGED requestVars
    <3>1. \A q : IsRequest(q)' <=> IsRequest(q)
      BY <2>2 DEF requestVars, IsRequest, Nonce
    <3>2. RequestTypes' /\ OvertakenOnly' /\ (keyOf' = "Coinbase" => refusal' = <<>>)
      BY <2>2, <3>1 DEF requestVars, RequestInv, RequestTypes, OvertakenOnly
    <3>3. ASSUME NEW c \in Clients PROVE ClientInv(c)'
      BY <2>2, OtherClient DEF requestVars, RequestInv, Awaited, Unanswered
    <3>4. QED
      BY <3>2, <3>3 DEF RequestInv
  <2>3. CASE \E c \in Clients : Call(c) \/ Send(c) \/ Read(c)
    BY <2>3, CallStep, SendStep, ReadStep
  <2>4. CASE \E q \in requests : Lose(q) \/ GiveUp(q) \/ Arrive(q)
    BY <2>4, LoseStep, ArriveStep
  <2>5. CASE Pass
    BY <2>5, PassStep
  <2>6. QED
    BY <2>1, <2>2, <2>3, <2>4, <2>5 DEF RequestsNext
<1>2. RequestInv => OvertakenOnly
  BY DEF RequestInv
<1>3. QED
  BY <1>1, <1>2, RequestInit, PTL DEF WrappersSpec

-----------------------------------------------------------------------------
(***************************************************************************)
(* The account.  Orders are placed in the order of their numbers, and an   *)
(* order that trades on both sides of an edge between trades was open at   *)
(* the edge: there are no more of these than orders can be open.           *)
(***************************************************************************)
Mine(o) == {i \in DOMAIN trades : trades[i] = o}

AccountInv ==
  /\ venue \in AllVenues \cap Venues /\ trades \in Seq(OrderIds)
  /\ state \in [OrderIds -> {"none", "open", "closed"}]
  /\ settled \in 0..Len(trades)
  /\ \E k \in 0..MaxOrders : Placed = 1..k
  /\ \A i \in DOMAIN trades : trades[i] \in Placed
  /\ \A o \in OrderIds :
       Traded(o) <= Volume /\ (state[o] = "open" => Traded(o) < Volume)

\* The orders that were open after the first e trades, as far as it matters.
Across(e) ==
  {o \in OrderIds :
     /\ \E i \in 1..e : trades[i] >= o
     /\ state[o] = "open" \/ \E i \in DOMAIN trades : i > e /\ trades[i] = o}

EdgeInv ==
  /\ Cardinality(Open) <= MaxOpen
  /\ \A e \in 0..Len(trades) : Cardinality(Across(e)) <= MaxOpen

\* A call that is under way.
IsList == call = [op |-> "closed", count |-> call.count, offset |-> call.offset, got |-> call.got]
IsAsking == call = [op |-> "details", ids |-> call.ids, since |-> call.since,
                    orders |-> call.orders, fills |-> call.fills]

\* Kraken's list of closed orders, read from its newest on while it grows.
ClosedInv ==
  venue = "KRAKEN" =>
    /\ closed \in Seq(OrderIds)
    /\ \A i \in DOMAIN closed : state[closed[i]] = "closed"
    /\ \A i, j \in DOMAIN closed : closed[i] = closed[j] => i = j

ListInv ==
  call.op = "closed" =>
    /\ IsList /\ venue = "KRAKEN" /\ call.count \in 0..Len(closed) /\ call.offset \in 0..Len(closed)
    /\ \A i \in 1..call.count : i > Len(closed) - call.offset => closed[i] \in call.got

\* What is known of the orders whose details are being asked for.
Known(o) ==
  LET since == call.since[o]
  IN  /\ since.traded \in 0..Traded(o)
      /\ since.settled => Cardinality({i \in Mine(o) : i <= settled}) >= since.traded
      /\ venue = "QUADRIGA" /\ o \in DOMAIN call.fills =>
           /\ call.fills[o].total = call.fills[o].trades
           /\ OnPage(o) => call.fills[o].total \in since.traded..Traded(o)
      /\ venue = "KRAKEN" /\ call.orders # <<>> /\ o \notin DOMAIN call.orders =>
           Traded(o) = 0 /\ state[o] = "closed"
      /\ venue = "KRAKEN" /\ o \in DOMAIN call.orders =>
           /\ call.orders[o] \subseteq Mine(o)
           /\ Cardinality(call.orders[o]) >= since.traded
      /\ venue = "KRAKEN" /\ o \in DOMAIN call.fills =>
           call.fills[o] \in since.traded..Traded(o)
      /\ venue = "COINBASE" /\ o \in DOMAIN call.orders =>
           /\ call.orders[o].filled \in since.traded..Traded(o)
           /\ call.orders[o].found \/ since.traded = 0
      /\ venue = "COINBASE" /\ o \in DOMAIN call.fills =>
           /\ call.fills[o] \in 0..Traded(o)
           /\ since.settled /\ Volume <= Page => call.fills[o] >= since.traded

DetailsInv ==
  call.op = "details" =>
    /\ IsAsking /\ venue \in {"COINBASE", "KRAKEN", "QUADRIGA"}
    /\ call.ids \subseteq OrderIds /\ call.ids \subseteq DOMAIN call.since
    /\ \A o \in call.ids : Known(o)

CallsInv == AccountInv /\ EdgeInv /\ ClosedInv /\ ListInv /\ DetailsInv

\* Subsets of a finite set.
LEMMA SmallerSet ==
  ASSUME NEW S, IsFiniteSet(S), NEW T, T \subseteq S
  PROVE  /\ IsFiniteSet(T) /\ Cardinality(T) \in Nat /\ Cardinality(S) \in Nat
         /\ Cardinality(T) <= Cardinality(S)
  <1>1. T \in SUBSET S
    BY Zenon
  <1>2. IsFiniteSet(T) /\ Cardinality(T) <= Cardinality(S)
    BY <1>1, FS_Subset, Zenon
  <1> QED
    BY <1>2, FS_CardinalityType, Zenon

\* One element more.
LEMMA OneMore ==
  ASSUME NEW S, IsFiniteSet(S), NEW x, x \notin S
  PROVE  /\ IsFiniteSet(S \cup {x}) /\ Cardinality(S) \in Nat
         /\ Cardinality(S \cup {x}) = Cardinality(S) + 1
  <1>1. /\ IsFiniteSet(S \cup {x})
        /\ Cardinality(S \cup {x}) = IF x \in S THEN Cardinality(S) ELSE Cardinality(S) + 1
    BY FS_AddElement, Zenon
  <1>2. Cardinality(S) \in Nat
    BY FS_CardinalityType, Zenon
  <1> QED
    BY <1>1, <1>2

\* The first natural numbers.
LEMMA FirstNumbers ==
  ASSUME NEW n \in Nat
  PROVE  IsFiniteSet(1..n) /\ Cardinality(1..n) = n
  <1>1. /\ IsFiniteSet(1..n)
        /\ Cardinality(1..n) = IF 1 > n THEN 0 ELSE n - 1 + 1
    <2>1. 1 \in Int /\ n \in Int
      OBVIOUS
    <2> QED
      BY <2>1, FS_Interval, Zenon
  <1> QED
    BY <1>1

\* Finite sets of positions.
LEMMA PositionsFinite ==
  ASSUME NEW n \in Nat, NEW P \in SUBSET (1..n)
  PROVE  IsFiniteSet(P) /\ Cardinality(P) \in Nat /\ Cardinality(P) <= n
  <1>1. IsFiniteSet(1..n) /\ Cardinality(1..n) = n
    BY FirstNumbers
  <1>2. P \subseteq 1..n
    OBVIOUS
  <1> QED
    BY <1>1, <1>2, SmallerSet, Zenon

LEMMA NumbersFinite ==
  ASSUME NEW S \in SUBSET OrderIds
  PROVE  IsFiniteSet(S) /\ Cardinality(S) \in Nat
  BY PositionsFinite, WrapperAssumption DEF OrderIds

LEMMA TradedType ==
  ASSUME AccountInv, NEW o
  PROVE  /\ Traded(o) = Cardinality(Mine(o)) /\ Traded(o) \in Nat
         /\ IsFiniteSet(Mine(o)) /\ Mine(o) \subseteq 1..Len(trades)
  <1>1. Mine(o) \in SUBSET (1..Len(trades)) /\ Len(trades) \in Nat
    BY DEF Mine, AccountInv
  <1>2. Traded(o) = Cardinality(Mine(o))
    BY DEF Traded, Count, Mine
  <1> QED
    BY <1>1, <1>2, PositionsFinite

LEMMA TradedTypeThen == ASSUME AccountInv', NEW o PROVE Traded(o)' \in Nat /\ IsFiniteSet(Mine(o)')
  <1>1. Mine(o)' \in SUBSET (1..Len(trades')) /\ Len(trades') \in Nat
    BY DEF Mine, AccountInv
  <1>2. Traded(o)' = Cardinality(Mine(o)')
    BY DEF Traded, Count, Mine
  <1> QED
    BY <1>1, <1>2, PositionsFinite

\* What a trade adds.
LEMMA TradeAdds ==
  ASSUME AccountInv, NEW o \in OrderIds, Trade(o)
  PROVE  /\ trades' \in Seq(OrderIds) /\ Len(trades') = Len(trades) + 1
         /\ \A i \in 1..Len(trades) : trades'[i] = trades[i]
         /\ trades'[Len(trades) + 1] = o
         /\ Mine(o)' = Mine(o) \cup {Len(trades) + 1}
         /\ Traded(o)' = Traded(o) + 1
         /\ \A q \in OrderIds \ {o} : Mine(q)' = Mine(q) /\ Traded(q)' = Traded(q)
  <1>1. trades' = Append(trades, o) /\ trades \in Seq(OrderIds)
    BY DEF Trade, AccountInv
  <1>2. /\ trades' \in Seq(OrderIds) /\ Len(trades') = Len(trades) + 1
        /\ \A i \in 1..Len(trades) : trades'[i] = trades[i]
        /\ trades'[Len(trades) + 1] = o
    BY <1>1
  <1>3. Len(trades) \in Nat /\ DOMAIN trades = 1..Len(trades) /\ DOMAIN trades' = 1..(Len(trades) + 1)
    BY <1>1, <1>2
  <1>4. Mine(o)' = Mine(o) \cup {Len(trades) + 1}
    BY <1>2, <1>3 DEF Mine
  <1>5. \A q \in OrderIds \ {o} : Mine(q)' = Mine(q)
    BY <1>2, <1>3 DEF Mine
  <1>6. Traded(o)' = Cardinality(Mine(o)') /\ \A q \in OrderIds : Traded(q)' = Cardinality(Mine(q)')
    BY DEF Traded, Count, Mine
  <1>7. Len(trades) + 1 \notin Mine(o)
    BY <1>3 DEF Mine
  <1>8. Traded(o)' = Traded(o) + 1
    BY <1>4, <1>6, <1>7, TradedType, OneMore
  <1>9. \A q \in OrderIds \ {o} : Traded(q)' = Traded(q)
    BY <1>5, <1>6, TradedType
  <1> QED
    BY <1>2, <1>4, <1>5, <1>8, <1>9

LEMMA TradedSame == ASSUME UNCHANGED trades, NEW o PROVE Traded(o)' = Traded(o) /\ Mine(o)' = Mine(o)
  BY DEF Traded, Count, Mine

\* Nothing happens at the exchange.
AccountSame == UNCHANGED <<venue, state, trades, closed, settled>>

LEMMA AccountKept ==
  ASSUME AccountInv, EdgeInv, ClosedInv, AccountSame
  PROVE  AccountInv' /\ EdgeInv' /\ ClosedInv'
  <1>1. AccountInv'
    BY TradedSame DEF AccountSame, AccountInv, Placed
  <1>2. Open' = Open /\ \A e \in Nat : Across(e)' = Across(e)
    BY DEF AccountSame, Open, Across
  <1>3. EdgeInv'
    <2>1. Len(trades) \in Nat /\ Len(trades)' = Len(trades)
      BY DEF AccountInv, AccountSame
    <2>2. \A e \in 0..Len(trades) : Cardinality(Across(e)') <= MaxOpen
      BY <1>2, <2>1 DEF EdgeInv
    <2> QED
      BY <1>2, <2>1, <2>2 DEF EdgeInv
  <1>4. ClosedInv'
    BY DEF AccountSame, ClosedInv
  <1> QED
    BY <1>1, <1>3, <1>4

\* The edges before what is new: none has more orders across it.
LEMMA EdgesKept ==
  ASSUME AccountInv, EdgeInv, Cardinality(Open') <= MaxOpen,
         NEW n \in 0..Len(trades),
         \A e \in 0..n : Across(e)' \subseteq Across(e),
         Len(trades') = n \/ (Len(trades') = n + 1 /\ Across(n + 1)' \subseteq Open)
  PROVE  EdgeInv'
  <1>1. Len(trades) \in Nat
    BY DEF AccountInv
  <1>2. MaxOpen \in Nat /\ \A e \in Int : IsFiniteSet(Across(e)) /\ Cardinality(Across(e)) \in Nat
    BY NumbersFinite, WrapperAssumption DEF Across
  <1>3. IsFiniteSet(Open) /\ Cardinality(Open) \in Nat
    BY NumbersFinite DEF Open
  <1>4. ASSUME NEW e \in 0..n PROVE Cardinality(Across(e)') <= MaxOpen
    <2>1. Cardinality(Across(e)') <= Cardinality(Across(e)) /\ Cardinality(Across(e)') \in Nat
      <3>1. e \in Int
        BY <1>1
      <3>2. IsFiniteSet(Across(e)) /\ Across(e)' \subseteq Across(e)
        BY <1>2, <3>1, Zenon
      <3> QED
        BY <3>2, SmallerSet, Zenon
    <2>2. Cardinality(Across(e)) <= MaxOpen
      BY <1>1 DEF EdgeInv
    <2> QED
      BY <1>2, <2>1, <2>2
  <1>5. ASSUME Across(n + 1)' \subseteq Open PROVE Cardinality(Across(n + 1)') <= MaxOpen
    <2>1. /\ Cardinality(Across(n + 1)') <= Cardinality(Open)
          /\ Cardinality(Across(n + 1)') \in Nat
      BY <1>3, <1>5, SmallerSet, Zenon
    <2> QED
      BY <1>2, <1>3, <2>1 DEF EdgeInv
  <1>6. \A e \in 0..Len(trades') : Cardinality(Across(e)') <= MaxOpen
    BY <1>1, <1>4, <1>5
  <1> QED
    BY <1>6 DEF EdgeInv

LEMMA PlaceInv ==
  ASSUME AccountInv, EdgeInv, ClosedInv, PlaceOrder
  PROVE  AccountInv' /\ EdgeInv' /\ ClosedInv'
  <1> DEFINE o == Cardinality(Placed) + 1
  <1>1. PICK k \in 0..MaxOrders : Placed = 1..k
    BY DEF AccountInv
  <1>2. MaxOrders \in Nat /\ MaxOpen \in Nat
    BY WrapperAssumption
  <1>3. o = k + 1
    BY <1>1, <1>2, FirstNumbers
  <1>4. /\ o \in OrderIds /\ Cardinality(Open) < MaxOpen /\ state' = [state EXCEPT ![o] = "open"]
        /\ UNCHANGED <<venue, trades, closed, settled, call>>
    BY DEF PlaceOrder
  <1> HIDE DEF o
  <1>5. state[o] = "none" /\ state' \in [OrderIds -> {"none", "open", "closed"}]
    <2>1. o \notin Placed
      BY <1>1, <1>2, <1>3
    <2> QED
      BY <1>4, <2>1 DEF Placed, AccountInv
  <1>6. Placed' = Placed \cup {o} /\ Open' = Open \cup {o}
    BY <1>4, <1>5 DEF Placed, Open, AccountInv
  <1>7. Traded(o) = 0
    <2>1. Mine(o) = {}
      BY <1>5 DEF Mine, AccountInv, Placed
    <2> QED
      BY <2>1, TradedType, FS_EmptySet
  <1>8. AccountInv'
    <2>1. Placed' = 1..(k + 1) /\ k + 1 \in 0..MaxOrders
      BY <1>1, <1>2, <1>3, <1>4, <1>6 DEF OrderIds
    <2>2. \A q \in OrderIds : Traded(q)' <= Volume /\ (state'[q] = "open" => Traded(q)' < Volume)
      <3>1. Volume \in Nat \ {0}
        BY WrapperAssumption
      <3> QED
        BY <1>4, <1>7, <3>1, TradedSame DEF AccountInv
    <2>3. \A i \in DOMAIN trades' : trades'[i] \in Placed'
      BY <1>4, <1>6 DEF AccountInv
    <2>4. venue' \in AllVenues \cap Venues /\ trades' \in Seq(OrderIds) /\ settled' \in 0..Len(trades')
      BY <1>4 DEF AccountInv
    <2> QED
      BY <1>5, <2>1, <2>2, <2>3, <2>4 DEF AccountInv
  <1>9. EdgeInv'
    <2>1. Cardinality(Open') <= MaxOpen
      <3>1. IsFiniteSet(Open) /\ Cardinality(Open) \in Nat /\ o \notin Open
        BY <1>5, NumbersFinite DEF Open
      <3>2. Cardinality(Open') = Cardinality(Open) + 1
        BY <1>6, <3>1, OneMore
      <3> QED
        BY <1>2, <1>4, <3>1, <3>2
    <2>2. ASSUME NEW e \in 0..Len(trades) PROVE Across(e)' \subseteq Across(e)
      <3>1. Len(trades) \in Nat /\ DOMAIN trades = 1..Len(trades)
        BY DEF AccountInv
      <3>2. \A i \in 1..e : trades[i] < o
        BY <1>1, <1>2, <1>3, <3>1 DEF AccountInv
      <3>3. o \notin Across(e)'
        <4>1. \A i \in 1..e : ~(trades[i] >= o)
          BY <1>1, <1>2, <1>3, <3>1, <3>2 DEF AccountInv
        <4> QED
          BY <1>4, <4>1 DEF Across
      <3>4. \A q \in OrderIds \ {o} : q \in Across(e)' => q \in Across(e)
        BY <1>4 DEF Across, AccountInv
      <3> QED
        BY <3>3, <3>4 DEF Across
    <2>3. Len(trades) \in Nat /\ Len(trades') = Len(trades)
      BY <1>4 DEF AccountInv
    <2> QED
      BY <2>1, <2>2, <2>3, EdgesKept
  <1>10. ClosedInv'
    BY <1>4, <1>5 DEF ClosedInv, AccountInv
  <1> QED
    BY <1>8, <1>9, <1>10

\* Orders close, trades settle.
LEMMA ClosingKeeps ==
  ASSUME AccountInv, EdgeInv, UNCHANGED <<venue, trades>>, settled' \in 0..Len(trades),
         state' \in [OrderIds -> {"none", "open", "closed"}],
         \A q \in OrderIds : \/ state'[q] = state[q]
                             \/ state[q] = "open" /\ state'[q] = "closed"
  PROVE  AccountInv' /\ EdgeInv'
  <1>1. Placed' = Placed /\ Open' \subseteq Open
    BY DEF Placed, Open
  <1>2. AccountInv'
    BY <1>1, TradedSame DEF AccountInv
  <1>3. EdgeInv'
    <2>1. Len(trades) \in Nat /\ Len(trades') = Len(trades)
      BY DEF AccountInv
    <2>2. Cardinality(Open') <= MaxOpen
      <3>1. Open \in SUBSET OrderIds
        BY DEF Open
      <3>2. IsFiniteSet(Open) /\ Cardinality(Open) \in Nat
        BY <3>1, NumbersFinite, Zenon
      <3>3. Cardinality(Open') <= Cardinality(Open) /\ Cardinality(Open') \in Nat
        BY <1>1, <3>2, SmallerSet, Zenon
      <3>4. MaxOpen \in Nat
        BY WrapperAssumption
      <3> QED
        BY <3>2, <3>3, <3>4 DEF EdgeInv
    <2>3. ASSUME NEW e \in 0..Len(trades) PROVE Across(e)' \subseteq Across(e)
      BY DEF Across
    <2> QED
      BY <2>1, <2>2, <2>3, EdgesKept
  <1> QED
    BY <1>2, <1>3

LEMMA SettleInv ==
  ASSUME AccountInv, EdgeInv, ClosedInv, Settle
  PROVE  AccountInv' /\ EdgeInv' /\ ClosedInv'
  <1>1. /\ settled' \in 0..Len(trades) /\ UNCHANGED <<venue, trades, state, closed>>
        /\ state \in [OrderIds -> {"none", "open", "closed"}]
    BY DEF Settle, AccountInv
  <1>2. AccountInv' /\ EdgeInv'
    BY <1>1, ClosingKeeps
  <1> QED
    BY <1>1, <1>2 DEF ClosedInv

\* An order that closes goes to the end of the list, where it was not before.
LEMMA CloseListed ==
  ASSUME ClosedInv, AccountInv, NEW o \in OrderIds, state[o] = "open", Close(o), venue' = venue
  PROVE  /\ ClosedInv'
         /\ state' \in [OrderIds -> {"none", "open", "closed"}]
         /\ \A q \in OrderIds : IF q = o THEN state'[q] = "closed" ELSE state'[q] = state[q]
         /\ venue = "KRAKEN" =>
              /\ Len(closed') = Len(closed) + 1
              /\ \A i \in 1..Len(closed) : closed'[i] = closed[i]
  <1>1. state' = [state EXCEPT ![o] = "closed"] /\ closed' = Append(closed, o)
    BY DEF Close
  <1>2. /\ state' \in [OrderIds -> {"none", "open", "closed"}]
        /\ \A q \in OrderIds : IF q = o THEN state'[q] = "closed" ELSE state'[q] = state[q]
    BY <1>1 DEF AccountInv
  <1>3. ASSUME venue = "KRAKEN"
        PROVE  /\ ClosedInv' /\ Len(closed') = Len(closed) + 1
               /\ \A i \in 1..Len(closed) : closed'[i] = closed[i]
    <2>1. /\ closed \in Seq(OrderIds)
          /\ \A i \in 1..Len(closed) : closed[i] \in OrderIds /\ state[closed[i]] = "closed"
          /\ \A i, j \in 1..Len(closed) : closed[i] = closed[j] => i = j
      BY <1>3 DEF ClosedInv
    <2>2. /\ closed' \in Seq(OrderIds) /\ Len(closed') = Len(closed) + 1
          /\ DOMAIN closed' = 1..(Len(closed) + 1)
          /\ \A i \in 1..Len(closed) : closed'[i] = closed[i]
          /\ closed'[Len(closed) + 1] = o
      BY <1>1, <2>1
    <2>3. \A i \in 1..Len(closed) : closed[i] # o
      BY <2>1
    <2>4. \A i \in DOMAIN closed' : i \in 1..Len(closed) \/ i = Len(closed) + 1
      BY <2>1, <2>2
    <2>5. \A i \in DOMAIN closed' : state'[closed'[i]] = "closed"
      BY <1>2, <2>1, <2>2, <2>3, <2>4
    <2>6. \A i, j \in DOMAIN closed' : closed'[i] = closed'[j] => i = j
      BY <2>1, <2>2, <2>3, <2>4
    <2> QED
      BY <2>2, <2>5, <2>6 DEF ClosedInv
  <1> QED
    BY <1>2, <1>3 DEF ClosedInv

LEMMA CancelInv ==
  ASSUME AccountInv, EdgeInv, ClosedInv, NEW o \in OrderIds, CancelOrder(o)
  PROVE  AccountInv' /\ EdgeInv' /\ ClosedInv'
  <1>1. UNCHANGED <<venue, trades, settled>> /\ settled' \in 0..Len(trades)
    BY DEF CancelOrder, AccountInv
  <1>2. CASE state[o] = "open" /\ Close(o)
    <2>1. /\ ClosedInv' /\ state' \in [OrderIds -> {"none", "open", "closed"}]
          /\ \A q \in OrderIds : IF q = o THEN state'[q] = "closed" ELSE state'[q] = state[q]
      BY <1>1, <1>2, CloseListed
    <2> QED
      BY <1>1, <1>2, <2>1, ClosingKeeps
  <1>3. CASE UNCHANGED <<state, closed>>
    <2>1. state' \in [OrderIds -> {"none", "open", "closed"}]
      BY <1>3 DEF AccountInv
    <2>2. AccountInv' /\ EdgeInv'
      BY <1>1, <1>3, <2>1, ClosingKeeps
    <2> QED
      BY <1>1, <1>3, <2>2 DEF ClosedInv
  <1> QED
    BY <1>2, <1>3 DEF CancelOrder

LEMMA CancelAllInv ==
  ASSUME AccountInv, EdgeInv, CancelAllOpenOrders
  PROVE  AccountInv' /\ EdgeInv' /\ ClosedInv'
  <1>1. /\ UNCHANGED <<venue, trades, settled>> /\ settled' \in 0..Len(trades)
        /\ venue = "GEMINI"
        /\ state' = [o \in OrderIds |-> IF o \in Open THEN "closed" ELSE state[o]]
    BY DEF CancelAllOpenOrders, AccountInv
  <1>2. /\ state' \in [OrderIds -> {"none", "open", "closed"}]
        /\ \A q \in OrderIds : \/ state'[q] = state[q]
                               \/ state[q] = "open" /\ state'[q] = "closed"
    BY <1>1 DEF AccountInv, Open
  <1> QED
    BY <1>1, <1>2, ClosingKeeps DEF ClosedInv

LEMMA TradeInv ==
  ASSUME AccountInv, EdgeInv, ClosedInv, NEW o \in OrderIds, Trade(o)
  PROVE  AccountInv' /\ EdgeInv' /\ ClosedInv'
  <1>1. /\ trades' \in Seq(OrderIds) /\ Len(trades') = Len(trades) + 1
        /\ \A i \in 1..Len(trades) : trades'[i] = trades[i]
        /\ trades'[Len(trades) + 1] = o
        /\ Traded(o)' = Traded(o) + 1
        /\ \A q \in OrderIds \ {o} : Traded(q)' = Traded(q)
    BY TradeAdds
  <1>2. state[o] = "open" /\ venue' = venue
    BY DEF Trade
  <1>3. /\ state' \in [OrderIds -> {"none", "open", "closed"}]
        /\ \A q \in OrderIds \ {o} : state'[q] = state[q]
        /\ IF Traded(o) + 1 = Volume THEN state'[o] = "closed" ELSE state'[o] = "open"
        /\ ClosedInv'
    <2>1. CASE Traded(o) + 1 = Volume
      <3>1. Close(o)
        BY <2>1 DEF Trade
      <3> QED
        BY <1>2, <2>1, <3>1, CloseListed
    <2>2. CASE Traded(o) + 1 # Volume
      <3>1. UNCHANGED <<state, closed>>
        BY <2>2 DEF Trade
      <3> QED
        BY <1>2, <2>2, <3>1 DEF AccountInv, ClosedInv
    <2> QED
      BY <2>1, <2>2
  <1>4. Placed' = Placed /\ Open' \subseteq Open /\ o \in Placed
    BY <1>2, <1>3 DEF Placed, Open
  <1>5. /\ Len(trades) \in Nat /\ DOMAIN trades = 1..Len(trades)
        /\ DOMAIN trades' = 1..(Len(trades) + 1)
    BY <1>1 DEF AccountInv
  <1>6. AccountInv'
    <2>1. settled' \in 0..Len(trades')
      <3>1. settled' = settled \/ settled' = Len(trades')
        BY DEF Trade
      <3> QED
        BY <1>1, <1>5, <3>1 DEF AccountInv
    <2>2. \A i \in DOMAIN trades' : trades'[i] \in Placed'
      BY <1>1, <1>4, <1>5 DEF AccountInv
    <2>3. Volume \in Nat \ {0} /\ Traded(o) \in Nat /\ Traded(o) < Volume
      BY <1>2, WrapperAssumption, TradedType DEF AccountInv
    <2>4. Traded(o)' <= Volume /\ (state'[o] = "open" => Traded(o)' < Volume)
      BY <1>1, <1>3, <2>3
    <2>5. \A q \in OrderIds \ {o} :
            Traded(q)' <= Volume /\ (state'[q] = "open" => Traded(q)' < Volume)
      BY <1>1, <1>3 DEF AccountInv
    <2>6. (\E k \in 0..MaxOrders : Placed' = 1..k) /\ venue' \in AllVenues \cap Venues
      BY <1>2, <1>4 DEF AccountInv
    <2> QED
      BY <1>1, <1>3, <2>1, <2>2, <2>4, <2>5, <2>6 DEF AccountInv
  <1>7. EdgeInv'
    <2>1. Cardinality(Open') <= MaxOpen
      <3>1. Open \in SUBSET OrderIds
        BY DEF Open
      <3>2. IsFiniteSet(Open) /\ Cardinality(Open) \in Nat
        BY <3>1, NumbersFinite, Zenon
      <3>3. Cardinality(Open') <= Cardinality(Open) /\ Cardinality(Open') \in Nat
        BY <1>4, <3>2, SmallerSet, Zenon
      <3>4. MaxOpen \in Nat
        BY WrapperAssumption
      <3> QED
        BY <3>2, <3>3, <3>4 DEF EdgeInv
    <2>2. ASSUME NEW e \in 0..Len(trades) PROVE Across(e)' \subseteq Across(e)
      <3>1. \A q \in OrderIds : (\E i \in 1..e : trades'[i] >= q) => (\E i \in 1..e : trades[i] >= q)
        BY <1>1, <1>5
      <3>2. \A q \in OrderIds : state'[q] = "open" => state[q] = "open"
        BY <1>2, <1>3
      <3>3. \A q \in OrderIds, i \in DOMAIN trades' :
              i > e /\ trades'[i] = q =>
                state[q] = "open" \/ (\E j \in DOMAIN trades : j > e /\ trades[j] = q)
        BY <1>1, <1>2, <1>5
      <3> QED
        BY <3>1, <3>2, <3>3 DEF Across
    <2>3. PICK n \in Nat : n = Len(trades)
      BY <1>5
    <2>4. Across(n + 1)' \subseteq Open
      <3>1. \A q \in OrderIds : state'[q] = "open" => state[q] = "open"
        BY <1>2, <1>3
      <3>2. \A i \in DOMAIN trades' : ~(i > n + 1)
        BY <1>5, <2>3
      <3> QED
        BY <3>1, <3>2 DEF Across, Open
    <2>5. n \in 0..Len(trades) /\ Len(trades') = n + 1 /\ \A e \in 0..n : Across(e)' \subseteq Across(e)
      BY <1>1, <1>5, <2>2, <2>3
    <2> QED
      BY <2>1, <2>4, <2>5, EdgesKept
  <1> QED
    BY <1>3, <1>6, <1>7

(* The calls of the wrapper.                                               *)

\* What the exchange does between two requests leaves true what is known of an
\* order.
LEMMA KnownStays ==
  ASSUME AccountInv, UNCHANGED <<venue, call>>, NEW q \in OrderIds, Known(q),
         IsFiniteSet(Mine(q)'), Mine(q) \subseteq Mine(q)',
         Traded(q)' \in Nat, Traded(q) <= Traded(q)',
         state[q] = "closed" => state'[q] = "closed" /\ Traded(q)' = Traded(q),
         settled' \in Int, settled <= settled',
         OnPage(q)' => OnPage(q)
  PROVE  Known(q)'
  <1>1. Traded(q) \in Nat /\ settled \in Nat /\ Mine(q) \subseteq Int
    <2>1. Len(trades) \in Nat /\ settled \in 0..Len(trades)
      BY DEF AccountInv
    <2>2. Traded(q) \in Nat /\ Mine(q) \subseteq 1..Len(trades)
      BY TradedType
    <2> QED
      BY <2>1, <2>2
  <1> DEFINE paid == {i \in Mine(q) : i <= settled}
             later == {i \in Mine(q)' : i <= settled'}
  <1>2. Cardinality(paid) <= Cardinality(later) /\ {Cardinality(paid), Cardinality(later)} \subseteq Nat
    <2>1. paid \subseteq later /\ later \subseteq Mine(q)'
      BY <1>1
    <2>2. IsFiniteSet(later)
      BY <2>1, SmallerSet, Zenon
    <2>3. Cardinality(paid) <= Cardinality(later) /\ Cardinality(paid) \in Nat /\ Cardinality(later) \in Nat
      BY <2>1, <2>2, SmallerSet, Zenon
    <2> QED
      BY <2>3
  <1> HIDE DEF paid, later
  <1>3. /\ call.since[q].traded \in 0..Traded(q)
        /\ call.since[q].settled => Cardinality(paid) >= call.since[q].traded
    BY DEF Known, paid
  <1>4. /\ call.since[q].traded \in 0..Traded(q)'
        /\ call.since[q].settled => Cardinality(later) >= call.since[q].traded
    BY <1>1, <1>2, <1>3
  <1>5. \A n \in Int : n \in call.since[q].traded..Traded(q) => n \in call.since[q].traded..Traded(q)'
    BY <1>1, <1>3
  <1>6. \A n \in Int : n \in 0..Traded(q) => n \in 0..Traded(q)'
    BY <1>1
  <1>7. ASSUME venue = "QUADRIGA", q \in DOMAIN call.fills
        PROVE  /\ call.fills[q].total = call.fills[q].trades
               /\ OnPage(q)' => call.fills[q].total \in call.since[q].traded..Traded(q)'
    BY <1>1, <1>3, <1>5, <1>7 DEF Known
  <1>8. ASSUME venue = "KRAKEN", call.orders # <<>>, q \notin DOMAIN call.orders
        PROVE  Traded(q)' = 0 /\ state'[q] = "closed"
    BY <1>8 DEF Known
  <1>9. ASSUME venue = "KRAKEN", q \in DOMAIN call.orders
        PROVE  /\ call.orders[q] \subseteq Mine(q)'
               /\ Cardinality(call.orders[q]) >= call.since[q].traded
    BY <1>9 DEF Known
  <1>10. ASSUME venue = "KRAKEN", q \in DOMAIN call.fills
         PROVE  call.fills[q] \in call.since[q].traded..Traded(q)'
    BY <1>1, <1>3, <1>5, <1>10 DEF Known
  <1>11. ASSUME venue = "COINBASE", q \in DOMAIN call.orders
         PROVE  /\ call.orders[q].filled \in call.since[q].traded..Traded(q)'
                /\ call.orders[q].found \/ call.since[q].traded = 0
    BY <1>1, <1>3, <1>5, <1>11 DEF Known
  <1>12. ASSUME venue = "COINBASE", q \in DOMAIN call.fills
         PROVE  /\ call.fills[q] \in 0..Traded(q)'
                /\ call.since[q].settled /\ Volume <= Page => call.fills[q] >= call.since[q].traded
    BY <1>1, <1>6, <1>12 DEF Known
  <1>13. venue' = venue /\ call' = call /\ later = {i \in Mine(q)' : i <= settled'}
    BY DEF later
  <1> QED
    BY <1>4, <1>7, <1>8, <1>9, <1>10, <1>11, <1>12, <1>13 DEF Known

LEMMA WorldKeeps ==
  ASSUME CallsInv, World
  PROVE  CallsInv'
  <1> USE DEF CallsInv
  <1>1. UNCHANGED <<venue, call>>
    BY DEF World, PlaceOrder, Settle, Trade
  <1>2. AccountInv' /\ EdgeInv' /\ ClosedInv'
    BY PlaceInv, SettleInv, TradeInv DEF World
  <1>3. /\ Len(trades) \in Nat /\ DOMAIN trades = 1..Len(trades) /\ settled \in 0..Len(trades)
        /\ Len(trades') \in Nat /\ settled' \in 0..Len(trades')
    BY <1>2 DEF AccountInv
  <1>4. settled <= settled'
    <2>1. CASE PlaceOrder \/ Settle
      BY <1>3, <2>1 DEF PlaceOrder, Settle
    <2>2. ASSUME NEW o \in OrderIds, Trade(o) PROVE settled <= settled'
      <3>1. Len(trades') = Len(trades) + 1
        BY <2>2, TradeAdds
      <3>2. settled' = settled \/ settled' = Len(trades')
        BY <2>2 DEF Trade
      <3> QED
        BY <1>3, <3>1, <3>2
    <2> QED
      BY <2>1, <2>2 DEF World
  <1>5. ASSUME NEW q \in OrderIds
        PROVE  /\ Mine(q) \subseteq Mine(q)' /\ Traded(q) <= Traded(q)'
               /\ state[q] = "closed" => state'[q] = "closed" /\ Traded(q)' = Traded(q)
               /\ OnPage(q)' => OnPage(q)
    <2>1. Traded(q) \in Nat
      BY TradedType
    <2>2. CASE PlaceOrder \/ Settle
      <3>1. UNCHANGED trades
        BY <2>2 DEF PlaceOrder, Settle
      <3>2. Mine(q)' = Mine(q) /\ Traded(q)' = Traded(q) /\ (OnPage(q)' <=> OnPage(q))
        BY <3>1, TradedSame DEF OnPage, Newest
      <3>3. state[q] = "closed" => state'[q] = "closed"
        <4>1. CASE Settle
          BY <4>1 DEF Settle
        <4>2. CASE PlaceOrder
          <5>1. PICK o \in OrderIds : o = Cardinality(Placed) + 1
            BY <4>2 DEF PlaceOrder
          <5>2. state' = [state EXCEPT ![o] = "open"]
            BY <4>2, <5>1 DEF PlaceOrder
          <5>3. PICK k \in 0..MaxOrders : Placed = 1..k
            BY DEF AccountInv
          <5>4. Cardinality(Placed) = k
            BY <5>3, FirstNumbers, WrapperAssumption
          <5>5. o \notin Placed
            BY <5>1, <5>3, <5>4 DEF OrderIds
          <5> QED
            BY <5>2, <5>5 DEF Placed, AccountInv
        <4> QED
          BY <2>2, <4>1, <4>2
      <3> QED
        BY <2>1, <3>2, <3>3
    <2>3. ASSUME NEW o \in OrderIds, Trade(o)
          PROVE  /\ Mine(q) \subseteq Mine(q)' /\ Traded(q) <= Traded(q)'
                 /\ state[q] = "closed" => state'[q] = "closed" /\ Traded(q)' = Traded(q)
                 /\ OnPage(q)' => OnPage(q)
      <3>1. /\ Len(trades') = Len(trades) + 1 /\ trades' \in Seq(OrderIds)
            /\ \A i \in 1..Len(trades) : trades'[i] = trades[i]
            /\ Mine(o)' = Mine(o) \cup {Len(trades) + 1}
            /\ Traded(o)' = Traded(o) + 1
            /\ q # o => Mine(q)' = Mine(q) /\ Traded(q)' = Traded(q)
        BY <2>3, TradeAdds
      <3>2. Mine(q) \subseteq Mine(q)' /\ Traded(q) <= Traded(q)'
        BY <2>1, <3>1
      <3>3. state[q] = "closed" => q # o /\ state'[q] = "closed"
        BY <2>3 DEF Trade, Close, AccountInv
      <3>4. ASSUME OnPage(q)' PROVE OnPage(q)
        <4>1. Page \in Nat
          BY WrapperAssumption
        <4>2. DOMAIN trades' = 1..(Len(trades) + 1)
          BY <1>3, <3>1
        <4>3. ASSUME NEW i \in 1..Len(trades), trades[i] = q PROVE i > Len(trades) - Page
          <5>1. i \in DOMAIN trades' /\ trades'[i] = q
            BY <1>3, <3>1, <4>2, <4>3
          <5>2. i > Len(trades') - Page
            BY <3>4, <5>1 DEF OnPage, Newest
          <5> QED
            BY <1>3, <3>1, <4>1, <5>2
        <4> QED
          BY <1>3, <4>3 DEF OnPage, Newest
      <3> QED
        BY <3>1, <3>2, <3>3, <3>4
    <2> QED
      BY <2>2, <2>3 DEF World
  <1>6. ListInv'
    <2> SUFFICES ASSUME call.op = "closed", venue = "KRAKEN" PROVE ListInv'
      BY <1>1 DEF ListInv
    <2>1. /\ closed \in Seq(OrderIds) /\ closed' \in Seq(OrderIds) /\ Len(closed) \in Nat
          /\ Len(closed') \in Nat
      BY <1>1, <1>2 DEF ClosedInv
    <2>2. /\ Len(closed) <= Len(closed')
          /\ \A i \in 1..Len(closed) : closed'[i] = closed[i]
      <3>1. CASE UNCHANGED closed
        BY <2>1, <3>1
      <3>2. ASSUME NEW o \in OrderIds, Trade(o), Close(o)
            PROVE  /\ Len(closed) <= Len(closed')
                   /\ \A i \in 1..Len(closed) : closed'[i] = closed[i]
        <4>1. closed' = Append(closed, o)
          BY <3>2 DEF Close
        <4> QED
          BY <2>1, <4>1
      <3> QED
        BY <3>1, <3>2 DEF World, PlaceOrder, Settle, Trade
    <2>3. /\ call.count \in 0..Len(closed) /\ call.offset \in 0..Len(closed)
          /\ \A i \in 1..call.count : i > Len(closed) - call.offset => closed[i] \in call.got
      BY DEF ListInv
    <2>4. call.count \in 0..Len(closed') /\ call.offset \in 0..Len(closed')
      BY <2>1, <2>2, <2>3
    <2>5. ASSUME NEW i \in 1..call.count, i > Len(closed') - call.offset
          PROVE  closed'[i] \in call.got
      BY <2>1, <2>2, <2>3, <2>5
    <2>6. IsList'
      BY <1>1 DEF ListInv, IsList
    <2> QED
      BY <1>1, <2>4, <2>5, <2>6 DEF ListInv
  <1>7. DetailsInv'
    <2> SUFFICES ASSUME call.op = "details" PROVE DetailsInv'
      BY <1>1 DEF DetailsInv
    <2>1. /\ IsAsking' /\ venue \in {"COINBASE", "KRAKEN", "QUADRIGA"}
          /\ call.ids \subseteq OrderIds /\ call.ids \subseteq DOMAIN call.since
          /\ \A o \in call.ids : Known(o)
      BY <1>1 DEF DetailsInv, IsAsking
    <2>2. ASSUME NEW q \in call.ids PROVE Known(q)'
      <3>1. q \in OrderIds /\ Known(q)
        BY <2>1
      <3>2. IsFiniteSet(Mine(q)') /\ Traded(q)' \in Nat
        BY <1>2, TradedTypeThen
      <3>3. settled' \in Int
        BY <1>3
      <3> QED
        BY <1>1, <1>4, <1>5, <3>1, <3>2, <3>3, KnownStays
    <2> QED
      BY <1>1, <2>1, <2>2 DEF DetailsInv
  <1> QED
    BY <1>2, <1>6, <1>7

\* A call that has returned, or has not begun.
LEMMA AtRest == ASSUME call' = Idle PROVE ListInv' /\ DetailsInv'
  BY DEF Idle, ListInv, DetailsInv

\* What is known of the other orders stays as it is when one request is made.
LEMMA OneAnswer ==
  ASSUME DetailsInv, AccountSame, call.op = "details",
         call' \in [op : {"details"}, ids : {call.ids}, since : {call.since},
                    orders : {call'.orders}, fills : {call'.fills}],
         \A q \in call.ids : Known(q)'
  PROVE  ListInv' /\ DetailsInv'
  <1>1. IsAsking' /\ call'.op = "details" /\ call'.ids = call.ids /\ call'.since = call.since
    BY DEF IsAsking
  <1>2. /\ venue' \in {"COINBASE", "KRAKEN", "QUADRIGA"}
        /\ call.ids \subseteq OrderIds /\ call.ids \subseteq DOMAIN call.since
    BY DEF DetailsInv, AccountSame
  <1> QED
    BY <1>1, <1>2 DEF DetailsInv, ListInv

LEMMA CoinbaseOrderInv ==
  ASSUME CallsInv, NEW o \in OrderIds, CoinbaseOrder(o)
  PROVE  ListInv' /\ DetailsInv'
  <1> DEFINE v == [found |-> state[o] = "open" \/ Traded(o) > 0, filled |-> Traded(o)]
  <1>1. /\ DetailsInv /\ AccountSame /\ call.op = "details" /\ venue = "COINBASE"
        /\ call' = [call EXCEPT !.orders = Add(@, o, v)]
    BY DEF CoinbaseOrder, Asking, CallsInv, AccountSame
  <1>2. /\ IsAsking /\ \A q \in call.ids : Known(q) /\ q \in OrderIds
    BY <1>1 DEF DetailsInv
  <1>3. /\ call'.op = "details" /\ call'.ids = call.ids /\ call'.since = call.since
        /\ call'.orders = Add(call.orders, o, v) /\ call'.fills = call.fills
        /\ call' \in [op : {"details"}, ids : {call.ids}, since : {call.since},
                      orders : {call'.orders}, fills : {call'.fills}]
    BY <1>1, <1>2 DEF IsAsking
  <1>4. ASSUME NEW q \in call.ids PROVE Known(q)'
    <2>1. Traded(q)' = Traded(q) /\ Mine(q)' = Mine(q) /\ Traded(q) \in Nat
      BY <1>1, TradedSame, TradedType DEF AccountSame, CallsInv
    <2>2. UNCHANGED <<venue, settled, state>> /\ venue = "COINBASE"
      BY <1>1 DEF AccountSame
    <2>3. Known(q)
      BY <1>2
    <2>4. ASSUME q \in DOMAIN call'.orders
          PROVE  /\ call'.orders[q].filled \in call.since[q].traded..Traded(q)
                 /\ call'.orders[q].found \/ call.since[q].traded = 0
      <3>1. CASE q = o
        <4>1. call'.orders[q] = v
          BY <1>3, <3>1 DEF Add
        <4>2. call.since[q].traded \in 0..Traded(q)
          BY <2>3 DEF Known
        <4>3. v.filled = Traded(o) /\ (v.found \/ ~(Traded(o) > 0))
          OBVIOUS
        <4> HIDE DEF v
        <4> QED
          BY <2>1, <3>1, <4>1, <4>2, <4>3
      <3>2. CASE q # o
        <4>1. q \in DOMAIN call.orders /\ call'.orders[q] = call.orders[q]
          BY <1>3, <2>4, <3>2 DEF Add
        <4> QED
          BY <2>2, <2>3, <4>1 DEF Known
      <3> QED
        BY <3>1, <3>2
    <2> QED
      BY <1>3, <2>1, <2>2, <2>3, <2>4 DEF Known
  <1> HIDE DEF v
  <1> QED
    BY <1>1, <1>3, <1>4, OneAnswer

LEMMA CountOf ==
  ASSUME AccountInv, NEW P, P \subseteq DOMAIN trades, NEW o
  PROVE  Count(P, o) \in 0..Traded(o)
  <1>1. IsFiniteSet(Mine(o)) /\ Traded(o) = Cardinality(Mine(o))
    BY TradedType
  <1>2. {i \in P : trades[i] = o} \subseteq Mine(o)
    BY DEF Mine
  <1>3. /\ Cardinality({i \in P : trades[i] = o}) <= Cardinality(Mine(o))
        /\ Cardinality({i \in P : trades[i] = o}) \in Nat /\ Cardinality(Mine(o)) \in Nat
    BY <1>1, <1>2, SmallerSet, Zenon
  <1> QED
    BY <1>1, <1>3 DEF Count

LEMMA AllOnPage ==
  ASSUME AccountInv, NEW o, OnPage(o)
  PROVE  Count(Newest, o) = Traded(o)
  BY DEF OnPage, Newest, Count, Traded

\* Coinbase's fills of an order come on one page, so that only unsettled ones are
\* left out.
LEMMA FillsOnOnePage ==
  ASSUME AccountInv, NEW o \in OrderIds
  PROVE  /\ Cardinality(CoinbaseFills(o)) \in 0..Traded(o)
         /\ Volume <= Page =>
              Cardinality(CoinbaseFills(o)) >= Cardinality({i \in Mine(o) : i <= settled})
         /\ Cardinality({i \in Mine(o) : i <= settled}) \in Nat
  <1> DEFINE mine == {i \in DOMAIN trades : trades[i] = o}
             page(k) == {i \in mine : (Cardinality({j \in mine : j > i}) \div Page) + 1 = k}
             paid(k) == {i \in page(k) : i <= settled}
             pages == {k \in 1..Volume : \A j \in 1..(k - 1) : Cardinality(paid(j)) >= Page}
             settledOnes == {i \in Mine(o) : i <= settled}
  <1>1. CoinbaseFills(o) = UNION {paid(k) : k \in pages} /\ mine = Mine(o)
    BY DEF CoinbaseFills, Mine
  <1>2. /\ IsFiniteSet(mine) /\ Traded(o) = Cardinality(mine) /\ Traded(o) \in Nat
        /\ mine \subseteq Int /\ Traded(o) <= Volume /\ Volume \in Nat \ {0} /\ Page \in Nat \ {0}
    <2>1. Len(trades) \in Nat /\ Traded(o) <= Volume
      BY DEF AccountInv
    <2>2. mine \subseteq 1..Len(trades)
      BY <1>1, TradedType
    <2>3. mine \subseteq Int
      BY <2>1, <2>2
    <2> QED
      BY <1>1, <2>1, <2>3, TradedType, WrapperAssumption
  <1>3. ASSUME Volume <= Page, NEW i \in mine
        PROVE  (Cardinality({j \in mine : j > i}) \div Page) + 1 = 1
    <2> DEFINE newer == {j \in mine : j > i}
    <2>1. newer \subseteq mine \ {i}
      BY <1>2
    <2>2. IsFiniteSet(mine \ {i}) /\ Cardinality(mine \ {i}) = Cardinality(mine) - 1
      BY <1>2, <1>3, FS_RemoveElement
    <2>3. /\ Cardinality(newer) \in Nat /\ Cardinality(newer) <= Cardinality(mine \ {i})
      BY <2>1, <2>2, SmallerSet, Zenon
    <2> HIDE DEF newer, mine
    <2>4. 0 <= Cardinality(newer) /\ Cardinality(newer) < Page /\ Cardinality(newer) \in Int
      BY <1>2, <1>3, <2>2, <2>3
    <2>5. Cardinality(newer) \div Page = 0
      BY <1>2, <2>4
    <2> QED
      BY <2>5 DEF newer
  <1>4. Volume <= Page => paid(1) = settledOnes
    BY <1>1, <1>3
  <1>5. 1 \in pages
    BY <1>2
  <1>6. Volume <= Page => settledOnes \subseteq CoinbaseFills(o)
    <2> HIDE DEF paid, pages, settledOnes
    <2> QED
      BY <1>1, <1>4, <1>5
  <1>7. CoinbaseFills(o) \subseteq mine
    BY <1>1
  <1> HIDE DEF mine, page, paid, pages, settledOnes
  <1>8. /\ IsFiniteSet(CoinbaseFills(o)) /\ Cardinality(CoinbaseFills(o)) \in Nat
        /\ Cardinality(CoinbaseFills(o)) <= Cardinality(mine)
    BY <1>2, <1>7, SmallerSet, Zenon
  <1>9. ASSUME Volume <= Page PROVE Cardinality(settledOnes) <= Cardinality(CoinbaseFills(o))
    BY <1>6, <1>8, <1>9, SmallerSet, Zenon
  <1>10. Cardinality(CoinbaseFills(o)) \in 0..Traded(o)
    BY <1>2, <1>8
  <1>11. Cardinality(settledOnes) \in Nat
    <2>1. settledOnes \subseteq mine
      BY <1>1 DEF settledOnes
    <2> QED
      BY <1>2, <2>1, SmallerSet, Zenon
  <1>12. Volume <= Page => Cardinality(CoinbaseFills(o)) >= Cardinality(settledOnes)
    BY <1>8, <1>9, <1>11
  <1> QED
    BY <1>10, <1>11, <1>12 DEF settledOnes

LEMMA CoinbaseTradesInv ==
  ASSUME CallsInv, NEW o \in OrderIds, CoinbaseTrades(o)
  PROVE  ListInv' /\ DetailsInv'
  <1> DEFINE v == Cardinality(CoinbaseFills(o))
  <1>1. /\ DetailsInv /\ AccountSame /\ call.op = "details" /\ venue = "COINBASE"
        /\ call' = [call EXCEPT !.fills = Add(@, o, v)]
    BY DEF CoinbaseTrades, Asking, CallsInv, AccountSame
  <1>2. /\ IsAsking /\ \A q \in call.ids : Known(q) /\ q \in OrderIds
    BY <1>1 DEF DetailsInv
  <1>3. /\ call'.op = "details" /\ call'.ids = call.ids /\ call'.since = call.since
        /\ call'.fills = Add(call.fills, o, v) /\ call'.orders = call.orders
        /\ call' \in [op : {"details"}, ids : {call.ids}, since : {call.since},
                      orders : {call'.orders}, fills : {call'.fills}]
    BY <1>1, <1>2 DEF IsAsking
  <1>4. ASSUME NEW q \in call.ids PROVE Known(q)'
    <2>1. Traded(q)' = Traded(q) /\ Mine(q)' = Mine(q) /\ Traded(q) \in Nat
      BY <1>1, TradedSame, TradedType DEF AccountSame, CallsInv
    <2>2. UNCHANGED <<venue, settled, state>> /\ venue = "COINBASE"
      BY <1>1 DEF AccountSame
    <2>3. Known(q)
      BY <1>2
    <2>4. ASSUME q \in DOMAIN call'.fills
          PROVE  /\ call'.fills[q] \in 0..Traded(q)
                 /\ call.since[q].settled /\ Volume <= Page =>
                      call'.fills[q] >= call.since[q].traded
      <3>1. CASE q = o
        <4>1. call'.fills[q] = v
          BY <1>3, <3>1 DEF Add
        <4>2. /\ call.since[q].traded \in 0..Traded(q)
              /\ call.since[q].settled =>
                   Cardinality({i \in Mine(q) : i <= settled}) >= call.since[q].traded
          BY <2>3 DEF Known
        <4>3. /\ v \in 0..Traded(o)
              /\ Volume <= Page => v >= Cardinality({i \in Mine(o) : i <= settled})
              /\ Cardinality({i \in Mine(o) : i <= settled}) \in Nat
          BY <2>2, FillsOnOnePage DEF CallsInv
        <4> HIDE DEF v
        <4> QED
          BY <2>1, <3>1, <4>1, <4>2, <4>3
      <3>2. CASE q # o
        <4>1. q \in DOMAIN call.fills /\ call'.fills[q] = call.fills[q]
          BY <1>3, <2>4, <3>2 DEF Add
        <4> QED
          BY <2>2, <2>3, <4>1 DEF Known
      <3> QED
        BY <3>1, <3>2
    <2> QED
      BY <1>3, <2>1, <2>2, <2>3, <2>4 DEF Known
  <1> HIDE DEF v
  <1> QED
    BY <1>1, <1>3, <1>4, OneAnswer

LEMMA QuadrigaTradesInv ==
  ASSUME CallsInv, NEW o \in OrderIds, QuadrigaTrades(o)
  PROVE  ListInv' /\ DetailsInv'
  <1> DEFINE v == FromPage({o})[o]
  <1>1. /\ DetailsInv /\ AccountSame /\ call.op = "details" /\ venue = "QUADRIGA"
        /\ call' = [call EXCEPT !.fills = Add(@, o, v)]
    BY DEF QuadrigaTrades, Asking, CallsInv, AccountSame
  <1>2. /\ IsAsking /\ \A q \in call.ids : Known(q) /\ q \in OrderIds
    BY <1>1 DEF DetailsInv
  <1>3. /\ call'.op = "details" /\ call'.ids = call.ids /\ call'.since = call.since
        /\ call'.fills = Add(call.fills, o, v) /\ call'.orders = call.orders
        /\ call' \in [op : {"details"}, ids : {call.ids}, since : {call.since},
                      orders : {call'.orders}, fills : {call'.fills}]
    BY <1>1, <1>2 DEF IsAsking
  <1>4. v.total = Count(Newest, o) /\ v.trades = Count(Newest, o)
    BY DEF FromPage
  <1> HIDE DEF v
  <1>5. ASSUME NEW q \in call.ids PROVE Known(q)'
    <2>1. Traded(q)' = Traded(q) /\ Mine(q)' = Mine(q) /\ Traded(q) \in Nat
      BY <1>1, TradedSame, TradedType DEF AccountSame, CallsInv
    <2>2. UNCHANGED <<venue, settled, state>> /\ venue = "QUADRIGA" /\ (OnPage(q)' <=> OnPage(q))
      BY <1>1 DEF AccountSame, OnPage, Newest
    <2>3. Known(q)
      BY <1>2
    <2>4. ASSUME q \in DOMAIN call'.fills
          PROVE  /\ call'.fills[q].total = call'.fills[q].trades
                 /\ OnPage(q) => call'.fills[q].total \in call.since[q].traded..Traded(q)
      <3>1. CASE q = o
        <4>1. call'.fills[q] = v
          BY <1>3, <3>1 DEF Add
        <4>2. call.since[q].traded \in 0..Traded(q)
          BY <2>3 DEF Known
        <4>3. OnPage(q) => v.total = Traded(q)
          BY <1>4, <3>1, AllOnPage DEF CallsInv
        <4> QED
          BY <1>4, <2>1, <4>1, <4>2, <4>3
      <3>2. CASE q # o
        <4>1. q \in DOMAIN call.fills /\ call'.fills[q] = call.fills[q]
          BY <1>3, <2>4, <3>2 DEF Add
        <4> QED
          BY <2>2, <2>3, <4>1 DEF Known
      <3> QED
        BY <3>1, <3>2
    <2> QED
      BY <1>3, <2>1, <2>2, <2>3, <2>4 DEF Known
  <1> QED
    BY <1>1, <1>3, <1>5, OneAnswer

LEMMA KrakenLedgerInv ==
  ASSUME CallsInv, NEW o \in OrderIds, KrakenLedger(o)
  PROVE  ListInv' /\ DetailsInv'
  <1> DEFINE v == Cardinality(call.orders[o])
  <1>1. /\ DetailsInv /\ AccountSame /\ call.op = "details" /\ venue = "KRAKEN"
        /\ o \in DOMAIN call.orders
        /\ call' = Idle \/ call' = [call EXCEPT !.fills = Add(@, o, v)]
    BY DEF KrakenLedger, Asking, CallsInv, AccountSame, Return
  <1>2. CASE call' = Idle
    BY <1>2, AtRest
  <1>3. CASE call' = [call EXCEPT !.fills = Add(@, o, v)]
    <2>1. /\ IsAsking /\ \A q \in call.ids : Known(q) /\ q \in OrderIds
      BY <1>1 DEF DetailsInv
    <2>2. /\ call'.op = "details" /\ call'.ids = call.ids /\ call'.since = call.since
          /\ call'.fills = Add(call.fills, o, v) /\ call'.orders = call.orders
          /\ call' \in [op : {"details"}, ids : {call.ids}, since : {call.since},
                        orders : {call'.orders}, fills : {call'.fills}]
      BY <1>3, <2>1 DEF IsAsking
    <2>3. ASSUME NEW q \in call.ids PROVE Known(q)'
      <3>1. Traded(q)' = Traded(q) /\ Mine(q)' = Mine(q) /\ Traded(q) \in Nat
        BY <1>1, TradedSame, TradedType DEF AccountSame, CallsInv
      <3>2. UNCHANGED <<venue, settled, state>> /\ venue = "KRAKEN"
        BY <1>1 DEF AccountSame
      <3>3. Known(q)
        BY <2>1
      <3>4. ASSUME q \in DOMAIN call'.fills
            PROVE  call'.fills[q] \in call.since[q].traded..Traded(q)
        <4>1. CASE q = o
          <5>1. call'.fills[q] = v
            BY <2>2, <4>1 DEF Add
          <5>2. /\ call.since[q].traded \in 0..Traded(q)
                /\ call.orders[q] \subseteq Mine(q) /\ v >= call.since[q].traded
            BY <1>1, <3>3, <4>1 DEF Known
          <5>3. IsFiniteSet(Mine(q)) /\ Traded(q) = Cardinality(Mine(q))
            BY TradedType DEF CallsInv
          <5>4. Cardinality(call.orders[q]) \in Nat /\ Cardinality(call.orders[q]) <= Cardinality(Mine(q))
            BY <5>2, <5>3, SmallerSet, Zenon
          <5>5. v \in Nat /\ v <= Traded(q)
            BY <4>1, <5>3, <5>4
          <5> HIDE DEF v
          <5> QED
            BY <3>1, <5>1, <5>2, <5>5
        <4>2. CASE q # o
          <5>1. q \in DOMAIN call.fills /\ call'.fills[q] = call.fills[q]
            BY <2>2, <3>4, <4>2 DEF Add
          <5> QED
            BY <3>2, <3>3, <5>1 DEF Known
        <4> QED
          BY <4>1, <4>2
      <3> HIDE DEF v
      <3> QED
        BY <2>2, <3>1, <3>2, <3>3, <3>4 DEF Known
    <2> HIDE DEF v
    <2> QED
      BY <1>1, <2>2, <2>3, OneAnswer
  <1> QED
    BY <1>1, <1>2, <1>3

LEMMA KrakenOrdersInv ==
  ASSUME CallsInv, KrakenOrders
  PROVE  ListInv' /\ DetailsInv'
  <1>1. /\ DetailsInv /\ AccountSame /\ call.op = "details" /\ venue = "KRAKEN"
    BY DEF KrakenOrders, Asking, CallsInv, AccountSame
  <1>2. PICK missing \in SUBSET {o \in call.ids : state[o] = "closed" /\ Traded(o) = 0} :
          call' = [call EXCEPT !.orders = [o \in call.ids \ missing |->
                                            {i \in DOMAIN trades : trades[i] = o}],
                               !.ids = IF missing = call.ids THEN {} ELSE @]
    BY DEF KrakenOrders
  <1>3. /\ IsAsking /\ call.ids \subseteq OrderIds /\ call.ids \subseteq DOMAIN call.since
        /\ \A q \in call.ids : Known(q) /\ q \in OrderIds
    BY <1>1 DEF DetailsInv
  <1>4. /\ call'.op = "details" /\ call'.since = call.since
        /\ call'.ids = (IF missing = call.ids THEN {} ELSE call.ids)
        /\ call'.fills = call.fills
        /\ call'.orders = [o \in call.ids \ missing |-> Mine(o)]
        /\ call' \in [op : {"details"}, ids : {call'.ids}, since : {call.since},
                      orders : {call'.orders}, fills : {call'.fills}]
    <2> DEFINE found == [o \in call.ids \ missing |-> {i \in DOMAIN trades : trades[i] = o}]
               asked == IF missing = call.ids THEN {} ELSE call.ids
    <2>1. call' = [call EXCEPT !.orders = found, !.ids = asked]
      BY <1>2
    <2>2. found = [o \in call.ids \ missing |-> Mine(o)]
      BY DEF Mine
    <2> HIDE DEF found
    <2>3. call'.orders = found /\ call'.ids = asked
      <3> HIDE DEF asked
      <3> QED
        BY <1>3, <2>1 DEF IsAsking
    <2>4. /\ call'.op = "details" /\ call'.since = call.since /\ call'.fills = call.fills
          /\ call' \in [op : {"details"}, ids : {call'.ids}, since : {call.since},
                        orders : {call'.orders}, fills : {call'.fills}]
      <3> HIDE DEF asked
      <3> QED
        BY <1>1, <1>3, <2>1 DEF IsAsking
    <2> QED
      BY <2>2, <2>3, <2>4
  <1>5. ASSUME NEW q \in call'.ids PROVE Known(q)'
    <2>1. q \in call.ids
      BY <1>4
    <2>2. /\ Traded(q)' = Traded(q) /\ Mine(q)' = Mine(q) /\ Traded(q) \in Nat
          /\ Traded(q) = Cardinality(Mine(q))
      BY <1>1, TradedSame, TradedType DEF AccountSame, CallsInv
    <2>3. UNCHANGED <<venue, settled, state>> /\ venue = "KRAKEN"
      BY <1>1 DEF AccountSame
    <2>4. Known(q)
      BY <1>3, <2>1
    <2>5. ASSUME q \notin DOMAIN call'.orders PROVE Traded(q) = 0 /\ state[q] = "closed"
      BY <1>4, <2>1, <2>5
    <2>6. ASSUME q \in DOMAIN call'.orders
          PROVE  /\ call'.orders[q] \subseteq Mine(q)
                 /\ Cardinality(call'.orders[q]) >= call.since[q].traded
      <3>1. call'.orders[q] = Mine(q)
        BY <1>4, <2>6
      <3>2. call.since[q].traded \in 0..Traded(q)
        BY <2>4 DEF Known
      <3> QED
        BY <2>2, <3>1, <3>2
    <2> QED
      BY <1>4, <2>2, <2>3, <2>4, <2>5, <2>6 DEF Known
  <1>6. IsAsking'
    BY <1>4 DEF IsAsking
  <1>7. venue' \in {"COINBASE", "KRAKEN", "QUADRIGA"} /\ call'.ids \subseteq call.ids
    BY <1>1, <1>4 DEF AccountSame
  <1> QED
    BY <1>3, <1>4, <1>5, <1>6, <1>7 DEF DetailsInv, ListInv

LEMMA AskInv ==
  ASSUME CallsInv, NEW S \in SUBSET Placed, GetMultiOrderDetails(S)
  PROVE  ListInv' /\ DetailsInv'
  <1> DEFINE since == [o \in S |-> Now(o)]
  <1>1. AccountSame /\ AccountInv
    BY DEF GetMultiOrderDetails, CallsInv, AccountSame
  <1>2. CASE venue \in {"BITSTAMP", "GEMINI", "ITBIT"}
    <2>1. call' = Idle
      BY <1>2 DEF GetMultiOrderDetails, Return
    <2> QED
      BY <2>1, AtRest
  <1>3. CASE venue \notin {"BITSTAMP", "GEMINI", "ITBIT"}
    <2>1. call' = [op |-> "details", ids |-> S, since |-> since, orders |-> <<>>, fills |-> <<>>]
      BY <1>3 DEF GetMultiOrderDetails
    <2>2. /\ call'.op = "details" /\ call'.ids = S /\ call'.since = since
          /\ call'.orders = <<>> /\ call'.fills = <<>> /\ IsAsking'
      BY <2>1 DEF IsAsking
    <2>3. ASSUME NEW q \in S PROVE Known(q)'
      <3>1. /\ Traded(q)' = Traded(q) /\ Mine(q)' = Mine(q) /\ Traded(q) \in Nat
            /\ Traded(q) = Cardinality(Mine(q))
        BY <1>1, TradedSame, TradedType DEF AccountSame
      <3>2. settled' = settled
        BY <1>1 DEF AccountSame
      <3>3. since[q].traded = Traded(q) /\ (since[q].settled => \A i \in Mine(q) : i <= settled)
        BY DEF Now, InLedger, Mine
      <3>4. since[q].settled => {i \in Mine(q) : i <= settled} = Mine(q)
        BY <3>3
      <3>5. DOMAIN call'.orders = {} /\ DOMAIN call'.fills = {}
        BY <2>2
      <3> HIDE DEF since
      <3>6. /\ call'.since[q].traded \in 0..Traded(q)'
            /\ call'.since[q].settled =>
                 Cardinality({i \in Mine(q)' : i <= settled'}) >= call'.since[q].traded
        <4>1. {i \in Mine(q)' : i <= settled'} = {i \in Mine(q) : i <= settled}
          BY <3>1, <3>2
        <4>2. since[q].settled => Cardinality({i \in Mine(q)' : i <= settled'}) = Traded(q)
          BY <3>1, <3>4, <4>1
        <4> QED
          BY <2>2, <3>1, <3>3, <4>2
      <3> QED
        BY <2>2, <3>5, <3>6 DEF Known
    <2>4. venue' \in {"COINBASE", "KRAKEN", "QUADRIGA"} /\ S \subseteq OrderIds
      BY <1>1, <1>3 DEF AccountInv, AccountSame, AllVenues, Placed
    <2>5. S \subseteq DOMAIN since
      OBVIOUS
    <2> HIDE DEF since
    <2> QED
      BY <2>2, <2>3, <2>4, <2>5 DEF DetailsInv, ListInv
  <1> QED
    BY <1>2, <1>3

\* A request for closed orders gets those from its offset on.
LEMMA KrakenClosedOrdersInv ==
  ASSUME CallsInv, KrakenClosedOrders
  PROVE  /\ ListInv' /\ DetailsInv'
         /\ answer'.op = "audit" =>
              /\ venue = "KRAKEN" /\ answer'.since \in 0..Len(closed)
              /\ \E all \in SUBSET OrderIds, lo \in 0..(Len(closed) - answer'.since) :
                   /\ answer'.of = [o \in {q \in all : Traded(q) > 0} |-> Traded(o)]
                   /\ \A i \in 1..answer'.since : i > lo => closed[i] \in all
  <1> USE DEF CallsInv
  <1> DEFINE n == Len(closed)
             P == {j \in 1..n : n - j >= call.offset /\ n - j < call.offset + Chunk}
             chunk == {closed[i] : i \in P}
             got == call.got \cup chunk
             offset == call.offset + Cardinality(chunk)
             lo == IF n - call.offset > Chunk THEN n - call.offset - Chunk ELSE 0
  <1>1. /\ call.op = "closed" /\ AccountSame
        /\ IF offset < call.count
           THEN call' = [call EXCEPT !.offset = offset, !.got = got] /\ answer' = None
           ELSE Return(Audited([o \in {q \in got : Traded(q) > 0} |-> Traded(o)], call.count))
    BY DEF KrakenClosedOrders, AccountSame
  <1>2. /\ IsList /\ venue = "KRAKEN" /\ call.count \in 0..n /\ call.offset \in 0..n
        /\ \A i \in 1..call.count : i > n - call.offset => closed[i] \in call.got
    BY <1>1 DEF ListInv
  <1>3. /\ closed \in Seq(OrderIds) /\ n \in Nat /\ DOMAIN closed = 1..n
        /\ \A i, j \in 1..n : closed[i] = closed[j] => i = j
    BY <1>2 DEF ClosedInv
  <1>4. Chunk \in Nat \ {0}
    BY WrapperAssumption
  <1>5. lo \in 0..n /\ lo <= n - call.offset
    BY <1>2, <1>3, <1>4
  <1>6. \A j \in 1..n : j \in P <=> j > lo /\ j <= n - call.offset
    BY <1>2, <1>3, <1>4
  <1>7. Cardinality(chunk) = n - call.offset - lo
    <2> DEFINE hi == n - call.offset
               step == [j \in 1..(hi - lo) |-> closed[j + lo]]
    <2>1. hi - lo \in Nat /\ hi <= n /\ hi \in Nat
      BY <1>2, <1>3, <1>5
    <2> HIDE DEF lo, n
    <2>2. \A j \in 1..(hi - lo) : j + lo \in 1..n /\ j + lo \in P
      BY <1>3, <1>5, <1>6, <2>1
    <2>3. \A j \in P : j \in 1..n /\ j - lo \in 1..(hi - lo) /\ (j - lo) + lo = j
      BY <1>3, <1>5, <1>6, <2>1
    <2> HIDE DEF hi, P
    <2>4. step \in [1..(hi - lo) -> chunk]
      BY <2>2
    <2>5. \A x \in chunk : \E j \in 1..(hi - lo) : step[j] = x
      BY <2>3
    <2>6. \A i, j \in 1..(hi - lo) : step[i] = step[j] => i = j
      <3> SUFFICES ASSUME NEW i \in 1..(hi - lo), NEW j \in 1..(hi - lo), step[i] = step[j]
                   PROVE  i = j
        OBVIOUS
      <3>1. closed[i + lo] = closed[j + lo] /\ i + lo \in 1..n /\ j + lo \in 1..n
        BY <2>2
      <3>2. i + lo = j + lo
        BY <1>3, <3>1
      <3> QED
        BY <1>5, <3>2
    <2> HIDE DEF step, chunk
    <2>7. step \in Bijection(1..(hi - lo), chunk)
      BY <2>4, <2>5, <2>6 DEF Bijection, Injection, Surjection, IsInjective
    <2>8. ExistsBijection(1..(hi - lo), chunk)
      BY <2>7, Zenon DEF ExistsBijection
    <2>9. IsFiniteSet(1..(hi - lo)) /\ Cardinality(1..(hi - lo)) = hi - lo
      BY <2>1, FirstNumbers
    <2>10. Cardinality(chunk) = Cardinality(1..(hi - lo))
      BY <2>8, <2>9, FS_Bijection, Zenon
    <2> QED
      BY <2>9, <2>10 DEF hi
  <1>8. offset = n - lo
    <2> HIDE DEF chunk, lo, n
    <2> QED
      BY <1>2, <1>3, <1>5, <1>7
  <1>9. ASSUME NEW i \in 1..call.count, i > lo PROVE closed[i] \in got
    <2>1. CASE i > n - call.offset
      BY <1>2, <2>1
    <2>2. CASE i <= n - call.offset
      <3>1. i \in P
        <4>1. i \in 1..n
          BY <1>2, <1>3
        <4> HIDE DEF P, lo, n
        <4> QED
          BY <1>6, <1>9, <2>2, <4>1
      <3> HIDE DEF P
      <3> QED
        BY <3>1
    <2> QED
      BY <1>2, <1>3, <2>1, <2>2
  <1>10. CASE offset < call.count
    <2>1. call' = [call EXCEPT !.offset = offset, !.got = got] /\ answer'.op = "none"
      BY <1>1, <1>10 DEF None
    <2> HIDE DEF offset, got, lo, n
    <2>2. /\ call'.op = "closed" /\ call'.count = call.count /\ call'.offset = offset
          /\ call'.got = got /\ IsList'
      BY <1>1, <1>2, <2>1 DEF IsList
    <2>3. venue' = venue /\ closed' = closed
      BY <1>1 DEF AccountSame
    <2>4. offset \in 0..n /\ n - offset = lo
      BY <1>3, <1>5, <1>8
    <2>5. ListInv'
      BY <1>2, <1>9, <2>2, <2>3, <2>4 DEF ListInv, n
    <2>6. DetailsInv'
      BY <2>2 DEF DetailsInv
    <2> QED
      BY <2>1, <2>5, <2>6
  <1>11. CASE ~(offset < call.count)
    <2>1. /\ call' = Idle
          /\ answer' = Audited([o \in {q \in got : Traded(q) > 0} |-> Traded(o)], call.count)
      BY <1>1, <1>11 DEF Return
    <2>2. /\ answer'.since = call.count
          /\ answer'.of = [o \in {q \in got : Traded(q) > 0} |-> Traded(o)]
      BY <2>1 DEF Audited
    <2>3. lo \in 0..(n - call.count)
      BY <1>2, <1>3, <1>5, <1>8, <1>11
    <2>4. [o \in {q \in got : Traded(q) > 0} |-> Traded(o)]
            = [o \in {q \in got \cap OrderIds : Traded(q) > 0} |-> Traded(o)]
      <3>1. ASSUME NEW q, Traded(q) > 0 PROVE q \in OrderIds
        <4>1. IsFiniteSet(Mine(q)) /\ Traded(q) = Cardinality(Mine(q))
          BY TradedType
        <4>2. Mine(q) # {}
          BY <3>1, <4>1, FS_EmptySet
        <4> QED
          BY <4>2 DEF Mine, AccountInv
      <3>2. {q \in got : Traded(q) > 0} = {q \in got \cap OrderIds : Traded(q) > 0}
        BY <3>1
      <3> QED
        BY <3>2
    <2> HIDE DEF got, lo, offset
    <2>5. got \cap OrderIds \in SUBSET OrderIds
      OBVIOUS
    <2>6. \A i \in 1..call.count : i > lo => closed[i] \in got \cap OrderIds
      BY <1>2, <1>3, <1>9
    <2> QED
      BY <1>2, <2>1, <2>2, <2>3, <2>4, <2>5, <2>6, AtRest
  <1> QED
    BY <1>10, <1>11

\* A step of the account and its calls.
LEMMA CallsNext ==
  ASSUME CallsInv, Next
  PROVE  CallsInv'
  <1>1. CASE World
    BY <1>1, WorldKeeps
  <1>2. CASE CancelAllOpenOrders
    <2>1. call' = Idle
      BY <1>2 DEF CancelAllOpenOrders
    <2> QED
      BY <1>2, <2>1, CancelAllInv, AtRest DEF CallsInv
  <1>3. ASSUME NEW o \in OrderIds, CancelOrder(o) PROVE CallsInv'
    <2>1. call' = Idle
      BY <1>3 DEF CancelOrder
    <2> QED
      BY <1>3, <2>1, CancelInv, AtRest DEF CallsInv
  <1>4. CASE AccountSame /\ ListInv' /\ DetailsInv'
    BY <1>4, AccountKept DEF CallsInv
  <1>5. CASE GetOpenOrders \/ GetBalance
    <2>1. AccountSame /\ call' = Idle
      BY <1>5 DEF GetOpenOrders, GetBalance, AccountSame
    <2> QED
      BY <1>4, <2>1, AtRest
  <1>6. CASE CoinbaseDetails \/ KrakenDetails \/ KrakenNothing \/ QuadrigaDetails
    <2>1. AccountSame /\ call' = Idle
      BY <1>6 DEF CoinbaseDetails, KrakenDetails, KrakenNothing, QuadrigaDetails, AccountSame, Return
    <2> QED
      BY <1>4, <2>1, AtRest
  <1>7. CASE GetOrderAuditData
    <2>1. AccountSame
      BY <1>7 DEF GetOrderAuditData, AccountSame
    <2>2. CASE venue = "KRAKEN"
      <3>1. call' = [op |-> "closed", count |-> Len(closed), offset |-> 0, got |-> {}]
        BY <1>7, <2>2 DEF GetOrderAuditData
      <3>2. /\ call'.op = "closed" /\ call'.count = Len(closed) /\ call'.offset = 0 /\ IsList'
        BY <3>1 DEF IsList
      <3>3. Len(closed) \in Nat /\ Len(closed') = Len(closed) /\ venue' = "KRAKEN"
        BY <2>1, <2>2 DEF CallsInv, ClosedInv, AccountSame
      <3>4. \A i \in 1..Len(closed) : ~(i > Len(closed) - 0)
        BY <3>3
      <3>5. ListInv' /\ DetailsInv'
        BY <3>2, <3>3, <3>4 DEF ListInv, DetailsInv
      <3> QED
        BY <1>4, <2>1, <3>5
    <2>3. CASE venue # "KRAKEN"
      <3>1. call' = Idle
        BY <1>7, <2>3 DEF GetOrderAuditData, Return
      <3> QED
        BY <1>4, <2>1, <3>1, AtRest
    <2> QED
      BY <2>2, <2>3
  <1>8. CASE KrakenClosedOrders
    <2>1. AccountSame
      BY <1>8 DEF KrakenClosedOrders, AccountSame
    <2> QED
      BY <1>4, <1>8, <2>1, KrakenClosedOrdersInv
  <1>9. ASSUME NEW S \in SUBSET Placed, GetMultiOrderDetails(S) PROVE CallsInv'
    <2>1. AccountSame
      BY <1>9 DEF GetMultiOrderDetails, AccountSame
    <2> QED
      BY <1>4, <1>9, <2>1, AskInv
  <1>10. ASSUME NEW o \in OrderIds,
                CoinbaseOrder(o) \/ CoinbaseTrades(o) \/ KrakenLedger(o) \/ QuadrigaTrades(o)
         PROVE  CallsInv'
    <2>1. AccountSame
      BY <1>10 DEF CoinbaseOrder, CoinbaseTrades, KrakenLedger, QuadrigaTrades, AccountSame
    <2>2. ListInv' /\ DetailsInv'
      BY <1>10, CoinbaseOrderInv, CoinbaseTradesInv, KrakenLedgerInv, QuadrigaTradesInv
    <2> QED
      BY <1>4, <2>1, <2>2
  <1>11. CASE KrakenOrders
    <2>1. AccountSame
      BY <1>11 DEF KrakenOrders, AccountSame
    <2> QED
      BY <1>4, <1>11, <2>1, KrakenOrdersInv
  <1> QED
    BY <1>1, <1>2, <1>3, <1>5, <1>6, <1>7, <1>8, <1>9, <1>10, <1>11 DEF Next, Calls

LEMMA CallsInit == WrappersInit => CallsInv
  <1> SUFFICES ASSUME WrappersInit PROVE CallsInv
    OBVIOUS
  <1>1. /\ venue \in AllVenues \cap Venues /\ state = [o \in OrderIds |-> "none"]
        /\ trades = <<>> /\ closed = <<>> /\ settled = 0 /\ call = Idle
    BY WrapperAssumption DEF WrappersInit, Init
  <1>2. Placed = {} /\ Open = {} /\ \A e \in Int : Across(e) = {}
    BY <1>1 DEF Placed, Open, Across
  <1>3. AccountInv
    <2>1. \A o : Mine(o) = {} /\ Traded(o) = 0
      BY <1>1, FS_EmptySet DEF Mine, Traded, Count
    <2>2. Volume \in Nat \ {0} /\ MaxOrders \in Nat
      BY WrapperAssumption
    <2>3. Placed = 1..0 /\ 0 \in 0..MaxOrders
      BY <1>2, <2>2
    <2>4. trades \in Seq(OrderIds) /\ Len(trades) = 0 /\ DOMAIN trades = {}
      BY <1>1
    <2> QED
      BY <1>1, <2>1, <2>2, <2>3, <2>4 DEF AccountInv
  <1>4. EdgeInv
    <2>1. Cardinality({}) = 0 /\ MaxOpen \in Nat /\ Len(trades) = 0
      BY <1>1, FS_EmptySet, WrapperAssumption
    <2>2. \A e \in 0..Len(trades) : Across(e) = {}
      BY <1>2, <2>1
    <2>3. Cardinality(Open) = 0 /\ \A e \in 0..Len(trades) : Cardinality(Across(e)) = 0
      BY <1>2, <2>1, <2>2, Zenon
    <2>4. 0 <= MaxOpen
      BY <2>1
    <2> QED
      BY <2>3, <2>4, Zenon DEF EdgeInv
  <1>5. ClosedInv /\ ListInv /\ DetailsInv
    BY <1>1 DEF ClosedInv, ListInv, DetailsInv, Idle
  <1> QED
    BY <1>3, <1>4, <1>5 DEF CallsInv

LEMMA CallsSame == ASSUME CallsInv, UNCHANGED vars PROVE CallsInv'
  <1>1. AccountSame /\ call' = call
    BY DEF vars, AccountSame
  <1>2. AccountInv' /\ EdgeInv' /\ ClosedInv'
    BY <1>1, AccountKept DEF CallsInv
  <1>3. ListInv'
    BY <1>1 DEF CallsInv, ListInv, IsList, AccountSame
  <1>4. DetailsInv'
    <2>1. \A o : Known(o)' = Known(o)
      BY <1>1 DEF Known, AccountSame, Mine, Traded, Count, OnPage, Newest
    <2> QED
      BY <1>1, <2>1 DEF CallsInv, DetailsInv, IsAsking, AccountSame
  <1> QED
    BY <1>2, <1>3, <1>4 DEF CallsInv

-----------------------------------------------------------------------------
(* What open orders hold: more than nothing, for each has volume left.      *)

Leftover == [o \in Open |-> Volume - Traded(o)]

LEMMA LeftoverType ==
  ASSUME AccountInv
  PROVE  IsFiniteSet(Open) /\ \A o \in Open : Leftover[o] \in Nat \ {0}
  <1>1. Open \in SUBSET OrderIds
    BY DEF Open
  <1>2. ASSUME NEW o \in Open PROVE Volume - Traded(o) \in Nat \ {0}
    <2>1. o \in OrderIds /\ state[o] = "open"
      BY DEF Open
    <2>2. Traded(o) < Volume /\ Traded(o) \in Nat /\ Volume \in Nat
      BY <2>1, TradedType, WrapperAssumption DEF AccountInv
    <2> QED
      BY <2>2
  <1>3. IsFiniteSet(Open)
    BY <1>1, NumbersFinite, Zenon
  <1> QED
    BY <1>2, <1>3 DEF Leftover

LEMMA HeldIs == ASSUME AccountInv PROVE Held = Total(Leftover, Open)
  <1> DEFINE Q(g) == g = [T \in SUBSET Open |-> IF T = {} THEN 0
                           ELSE (Volume - Traded(Pick(T))) + g[T \ {Pick(T)}]]
  <1>1. \A T \in SUBSET Open : T # {} => Volume - Traded(Pick(T)) = Leftover[Pick(T)]
    <2>1. \A T \in SUBSET Open : T # {} => Pick(T) \in Open
      BY DEF Pick
    <2> QED
      BY <2>1 DEF Leftover
  <1>2. \A g : Q(g) <=> Sums(g, Leftover, SUBSET Open)
    BY <1>1 DEF Sums
  <1>3. Summands(Leftover, Open)
    BY LeftoverType DEF Summands
  <1>4. \E g : Q(g)
    BY <1>2, <1>3, SumsExist
  <1> DEFINE s == CHOOSE g : Q(g)
  <1>5. Q(s)
    BY <1>4
  <1> HIDE DEF s, Q
  <1>6. Sums(s, Leftover, SUBSET Open)
    BY <1>2, <1>5
  <1>7. s[Open] = Total(Leftover, Open)
    BY <1>3, <1>6, TotalIs
  <1> QED
    BY <1>7 DEF Held, MapThenSumSet, MapThenFoldSet, Pick, s, Q

LEMMA HeldSign ==
  ASSUME AccountInv
  PROVE  /\ Held \in Nat
         /\ Open = {} => Held = 0
         /\ Open # {} => Held > 0
  <1>1. /\ Total(Leftover, Open) \in Nat
        /\ \A o \in Open : Leftover[o] <= Total(Leftover, Open)
    BY LeftoverType, TotalSign
  <1>2. Open = {} => Total(Leftover, Open) = 0
    BY LeftoverType, TotalStep DEF Summands
  <1>3. Open # {} => Total(Leftover, Open) > 0
    BY <1>1, LeftoverType
  <1> QED
    BY <1>1, <1>2, <1>3, HeldIs

-----------------------------------------------------------------------------
(* What the calls return.                                                  *)

LEMMA ListedThen == ASSUME AccountInv, GetOpenOrders PROVE AnswersOfTheMoment'
  <1>1. /\ AccountSame /\ answer'.op = "listed" /\ venue \in AllVenues
        /\ answer'.of = [o \in Open |-> Volume - Traded(o)]
    <2>1. AccountSame /\ answer'.op = "listed" /\ venue \in AllVenues
      BY DEF GetOpenOrders, AccountSame, AccountInv
    <2>2. \A o : Row(o).remaining = Volume - Traded(o) /\ Row(o).size = Volume
                 /\ Row(o).filled = Traded(o) /\ Row(o).status = state[o]
      BY DEF Row
    <2>3. {o \in Placed : state[o] = "open"} = Open
      BY DEF Placed, Open
    <2>4. /\ BitstampOpen = [o \in Open |-> Volume - Traded(o)]
          /\ CoinbaseOpen = [o \in Open |-> Volume - Traded(o)]
          /\ GeminiOpen = [o \in Open |-> Volume - Traded(o)]
          /\ KrakenOpen = [o \in Open |-> Volume - Traded(o)]
          /\ QuadrigaOpen = [o \in Open |-> Volume - Traded(o)]
      BY <2>2 DEF BitstampOpen, CoinbaseOpen, GeminiOpen, KrakenOpen, QuadrigaOpen
    <2>5. ItbitOpen = [o \in Open |-> Volume - Traded(o)]
      BY <2>2, <2>3 DEF ItbitOpen
    <2> QED
      BY <2>1, <2>4, <2>5 DEF GetOpenOrders, AllVenues
  <1>2. Open' = Open /\ \A o : Traded(o)' = Traded(o)
    BY <1>1, TradedSame DEF AccountSame, Open
  <1>3. ListedSo'
    <2>1. \A o \in Open : Traded(o) \in Nat /\ Volume \in Nat
      BY TradedType, WrapperAssumption
    <2>2. \A o \in Open : (Volume - Traded(o)) + Traded(o) = Volume
      BY <2>1
    <2> QED
      BY <1>1, <1>2, <2>2 DEF ListedSo
  <1> QED
    BY <1>1, <1>3 DEF AnswersOfTheMoment

LEMMA BalanceThen == ASSUME AccountInv, GetBalance PROVE AnswersOfTheMoment'
  <1>1. /\ AccountSame /\ answer'.op = "balance" /\ venue \in AllVenues
        /\ answer'.amount = IF venue \in {"KRAKEN", "QUADRIGA"} THEN -Len(trades)
                            ELSE -Len(trades) - Held
    <2>1. AccountSame /\ answer'.op = "balance" /\ venue \in AllVenues
      BY DEF GetBalance, AccountSame, AccountInv
    <2> QED
      BY <2>1 DEF GetBalance, AllVenues, BitstampBalance, CoinbaseBalance, GeminiBalance,
                  ItbitBalance, KrakenBalance, QuadrigaBalance
  <1>2. Len(trades) \in Nat /\ Open' = Open /\ trades' = trades /\ venue' = venue
    BY <1>1 DEF AccountInv, AccountSame, Open
  <1>3. BalanceSo'
    <2>1. Held \in Nat /\ (Open = {} => Held = 0) /\ (Open # {} => Held > 0)
      BY HeldSign
    <2> QED
      BY <1>1, <1>2, <2>1 DEF BalanceSo
  <1> QED
    BY <1>1, <1>3 DEF AnswersOfTheMoment

LEMMA CancelThen ==
  ASSUME AccountInv, CancelAllOpenOrders \/ \E o \in OrderIds : CancelOrder(o)
  PROVE  AnswersOfTheMoment'
  <1>1. venue' = venue /\ venue \in AllVenues
    BY DEF AccountInv, CancelAllOpenOrders, CancelOrder
  <1>2. ASSUME NEW o PROVE venue # "GEMINI" => CancelRaises(CancelError(o)) = "CancelOrderNotFoundError"
    BY <1>1 DEF CancelRaises, CancelError, Raises, BitstampRaises, CoinbaseRaises, ItbitRaises,
                KrakenRaises, QuadrigaRaises, AllVenues
  <1>3. CancelSo' /\ answer'.op = "cancel"
    <2>1. CASE CancelAllOpenOrders
      BY <2>1 DEF CancelAllOpenOrders, CancelSo
    <2>2. ASSUME NEW o \in OrderIds, CancelOrder(o) PROVE CancelSo' /\ answer'.op = "cancel"
      <3>1. \/ answer' = [op |-> "cancel", result |-> "success"]
            \/ answer' = [op |-> "cancel", result |-> CancelRaises(CancelError(o))]
        BY <2>2 DEF CancelOrder
      <3> QED
        BY <1>1, <1>2, <3>1 DEF CancelSo
    <2> QED
      BY <2>1, <2>2
  <1> QED
    BY <1>3 DEF AnswersOfTheMoment

\* Details that one request of trades gives.
LEMMA PageThen ==
  ASSUME AccountInv, NEW S \in SUBSET Placed, GetMultiOrderDetails(S)
  PROVE  AnswersOfTheMoment'
  <1>1. AccountSame
    BY DEF GetMultiOrderDetails, AccountSame
  <1>2. CASE venue \notin {"BITSTAMP", "GEMINI", "ITBIT"}
    <2>1. answer'.op = "none"
      BY <1>2 DEF GetMultiOrderDetails, None
    <2> QED
      BY <2>1 DEF AnswersOfTheMoment
  <1>3. CASE venue \in {"BITSTAMP", "GEMINI", "ITBIT"}
    <2>1. answer' = Details(FromPage(S), [o \in S |-> Now(o)])
      BY <1>3 DEF GetMultiOrderDetails, Return, BitstampDetails, GeminiDetails, ItbitDetails
    <2>2. /\ answer'.op = "details" /\ answer'.of = FromPage(S)
          /\ answer'.since = [o \in S |-> Now(o)]
      BY <2>1 DEF Details
    <2>3. ASSUME NEW o \in S
          PROVE  /\ answer'.of[o].total = Count(Newest, o) /\ answer'.of[o].trades = Count(Newest, o)
                 /\ answer'.since[o].traded = Traded(o)
      BY <2>2 DEF FromPage, Now
    <2>4. DOMAIN answer'.of = S
      BY <2>2 DEF FromPage
    <2>5. ASSUME NEW o \in S, OnPage(o)' \/ venue \in {"COINBASE", "KRAKEN"}
          PROVE  /\ answer'.of[o].total \in answer'.since[o].traded..Traded(o)'
                 /\ answer'.of[o].trades \in answer'.since[o].traded..Traded(o)'
      <3>1. OnPage(o)
        BY <1>1, <1>3, <2>5 DEF OnPage, Newest, AccountSame
      <3>2. Count(Newest, o) = Traded(o) /\ Traded(o) \in Nat /\ Traded(o)' = Traded(o)
        BY <1>1, <3>1, AllOnPage, TradedType, TradedSame DEF AccountSame
      <3> QED
        BY <2>3, <3>2
    <2>6. DetailsSo'
      BY <1>1, <2>4, <2>5 DEF DetailsSo, AccountSame
    <2> QED
      BY <2>2, <2>6 DEF AnswersOfTheMoment
  <1> QED
    BY <1>2, <1>3

\* Details that are put together from several answers.
LEMMA DetailsThen ==
  ASSUME CallsInv, venue = "COINBASE" => Volume <= Page,
         CoinbaseDetails \/ KrakenDetails \/ QuadrigaDetails
  PROVE  AnswersOfTheMoment'
  <1>1. AccountSame /\ AccountInv /\ DetailsInv /\ call.op = "details"
    BY DEF CoinbaseDetails, KrakenDetails, QuadrigaDetails, Asking, AccountSame, CallsInv
  <1>2. \A o \in call.ids : Known(o)
    BY <1>1 DEF DetailsInv
  <1>3. ASSUME NEW o
        PROVE  /\ Traded(o)' = Traded(o) /\ Traded(o) \in Nat /\ (OnPage(o)' <=> OnPage(o))
    BY <1>1, TradedSame, TradedType DEF AccountSame, OnPage, Newest
  <1>4. ASSUME answer'.op = "details", DOMAIN answer'.of = call.ids, answer'.since = call.since,
               \A o \in call.ids :
                 LET moments == call.since[o].traded..Traded(o)
                 IN  OnPage(o) \/ venue \in {"COINBASE", "KRAKEN"} =>
                       /\ answer'.of[o].total \in moments
                       /\ \/ venue = "COINBASE" /\ ~call.since[o].settled
                          \/ answer'.of[o].trades \in moments
        PROVE  AnswersOfTheMoment'
    <2>1. DetailsSo'
      BY <1>1, <1>3, <1>4 DEF DetailsSo, AccountSame
    <2> QED
      BY <1>4, <2>1 DEF AnswersOfTheMoment
  <1>5. CASE CoinbaseDetails
    <2>1. /\ venue = "COINBASE" /\ DOMAIN call.orders = call.ids /\ DOMAIN call.fills = call.ids
          /\ answer' = Details([o \in call.ids |->
               [total |-> call.orders[o].filled,
                trades |-> IF call.orders[o].found THEN call.fills[o] ELSE 0]], call.since)
      BY <1>5 DEF CoinbaseDetails, Asking, Return
    <2>2. /\ answer'.op = "details" /\ DOMAIN answer'.of = call.ids /\ answer'.since = call.since
          /\ \A o \in call.ids :
               /\ answer'.of[o].total = call.orders[o].filled
               /\ answer'.of[o].trades = IF call.orders[o].found THEN call.fills[o] ELSE 0
      BY <2>1 DEF Details
    <2>3. ASSUME NEW o \in call.ids
          PROVE  /\ answer'.of[o].total \in call.since[o].traded..Traded(o)
                 /\ call.since[o].settled =>
                      answer'.of[o].trades \in call.since[o].traded..Traded(o)
      <3>1. /\ call.since[o].traded \in 0..Traded(o)
            /\ call.orders[o].filled \in call.since[o].traded..Traded(o)
            /\ call.orders[o].found \/ call.since[o].traded = 0
            /\ call.fills[o] \in 0..Traded(o)
            /\ call.since[o].settled => call.fills[o] >= call.since[o].traded
        BY <1>2, <2>1 DEF Known
      <3> QED
        BY <1>3, <2>2, <3>1
    <2> QED
      BY <1>4, <2>1, <2>2, <2>3
  <1>6. CASE KrakenDetails
    <2>1. /\ venue = "KRAKEN" /\ call.orders # <<>> /\ DOMAIN call.fills = DOMAIN call.orders
      BY <1>6 DEF KrakenDetails, Asking
    <2> DEFINE n(o) == IF o \in call.ids \ DOMAIN call.orders THEN 0 ELSE call.fills[o]
    <2>2. \/ answer'.op = "raised"
          \/ answer' = Details([o \in call.ids |-> [total |-> n(o), trades |-> n(o)]], call.since)
      BY <1>6 DEF KrakenDetails, Return, Raise
    <2>3. CASE answer'.op = "raised"
      BY <2>3 DEF AnswersOfTheMoment
    <2>4. CASE answer' = Details([o \in call.ids |-> [total |-> n(o), trades |-> n(o)]], call.since)
      <3>1. ASSUME NEW o \in call.ids PROVE n(o) \in call.since[o].traded..Traded(o)
        <4>1. call.since[o].traded \in 0..Traded(o) /\ Known(o)
          BY <1>2 DEF Known
        <4>2. CASE o \notin DOMAIN call.orders
          <5>1. n(o) = 0 /\ Traded(o) = 0
            BY <2>1, <4>1, <4>2 DEF Known
          <5> QED
            BY <4>1, <5>1
        <4>3. CASE o \in DOMAIN call.orders
          BY <2>1, <4>1, <4>3 DEF Known
        <4> QED
          BY <4>2, <4>3
      <3> HIDE DEF n
      <3>2. /\ answer'.op = "details" /\ DOMAIN answer'.of = call.ids /\ answer'.since = call.since
            /\ \A o \in call.ids : answer'.of[o].total = n(o) /\ answer'.of[o].trades = n(o)
        BY <2>4 DEF Details
      <3> QED
        BY <1>4, <2>1, <3>1, <3>2
    <2> QED
      BY <2>2, <2>3, <2>4
  <1>7. CASE QuadrigaDetails
    <2>1. /\ venue = "QUADRIGA" /\ DOMAIN call.fills = call.ids
          /\ answer' = Details(call.fills, call.since)
      BY <1>7 DEF QuadrigaDetails, Asking, Return
    <2>2. /\ answer'.op = "details" /\ answer'.of = call.fills /\ answer'.since = call.since
      BY <2>1 DEF Details
    <2>3. ASSUME NEW o \in call.ids, OnPage(o)
          PROVE  /\ call.fills[o].total \in call.since[o].traded..Traded(o)
                 /\ call.fills[o].trades \in call.since[o].traded..Traded(o)
      BY <1>2, <2>1, <2>3 DEF Known
    <2> QED
      BY <1>4, <2>1, <2>2, <2>3
  <1> QED
    BY <1>5, <1>6, <1>7

\* The other steps return nothing of this kind.
Other ==
  \/ World \/ KrakenOrders \/ KrakenNothing
  \/ \E o \in OrderIds : CoinbaseOrder(o) \/ CoinbaseTrades(o) \/ KrakenLedger(o) \/ QuadrigaTrades(o)

LEMMA OtherThen == ASSUME Other PROVE answer'.op \in {"none", "raised"}
  <1>1. CASE World
    <2>1. answer' = None
      BY <1>1, Zenon DEF World, PlaceOrder, Settle, Trade
    <2> QED
      BY <2>1 DEF None
  <1>2. CASE KrakenOrders \/ KrakenNothing
    <2>1. answer' = None \/ answer' = Raise("UnboundLocalError")
      BY <1>2, Zenon DEF KrakenOrders, KrakenNothing, Return
    <2> QED
      BY <2>1 DEF None, Raise
  <1>3. ASSUME NEW o \in OrderIds,
               CoinbaseOrder(o) \/ CoinbaseTrades(o) \/ KrakenLedger(o) \/ QuadrigaTrades(o)
        PROVE  answer'.op \in {"none", "raised"}
    <2>1. CASE CoinbaseOrder(o) \/ CoinbaseTrades(o) \/ QuadrigaTrades(o)
      <3>1. answer' = None
        BY <2>1, Zenon DEF CoinbaseOrder, CoinbaseTrades, QuadrigaTrades
      <3> QED
        BY <3>1 DEF None
    <2>2. CASE KrakenLedger(o)
      <3>1. answer' = None \/ answer' = Raise("KeyError")
        BY <2>2, Zenon DEF KrakenLedger, Return
      <3> QED
        BY <3>1 DEF None, Raise
    <2> QED
      BY <1>3, <2>1, <2>2
  <1> QED
    BY <1>1, <1>2, <1>3 DEF Other

LEMMA AuditAsks ==
  ASSUME GetOrderAuditData \/ KrakenClosedOrders
  PROVE  answer'.op \in {"none", "audit"}
  BY DEF GetOrderAuditData, KrakenClosedOrders, Return, Audited, None

LEMMA AnswersThen ==
  ASSUME CallsInv, venue = "COINBASE" => Volume <= Page, Next
  PROVE  AnswersOfTheMoment'
  <1>1. AccountInv
    BY DEF CallsInv
  <1>2. CASE Other \/ GetOrderAuditData \/ KrakenClosedOrders
    <2>1. answer'.op \in {"none", "raised", "audit"}
      BY <1>2, OtherThen, AuditAsks
    <2> QED
      BY <2>1 DEF AnswersOfTheMoment
  <1>3. CASE GetOpenOrders \/ GetBalance
    BY <1>1, <1>3, ListedThen, BalanceThen
  <1>4. CASE CancelAllOpenOrders \/ \E o \in OrderIds : CancelOrder(o)
    BY <1>1, <1>4, CancelThen
  <1>5. ASSUME NEW S \in SUBSET Placed, GetMultiOrderDetails(S) PROVE AnswersOfTheMoment'
    BY <1>1, <1>5, PageThen
  <1>6. CASE CoinbaseDetails \/ KrakenDetails \/ QuadrigaDetails
    BY <1>6, DetailsThen
  <1> QED
    BY <1>2, <1>3, <1>4, <1>5, <1>6 DEF Next, Calls, Other

-----------------------------------------------------------------------------
(* The data of the audit.                                                  *)

\* Three elements of a set.
LEMMA ThreeOf ==
  ASSUME NEW S, IsFiniteSet(S), ~(Cardinality(S) <= 2)
  PROVE  \E a, b, c \in S : a # b /\ b # c /\ a # c
  <1>1. Cardinality(S) \in Nat /\ Cardinality({}) = 0
    BY FS_CardinalityType, FS_EmptySet
  <1>2. PICK a \in S : TRUE
    <2>1. S # {}
      BY <1>1
    <2> QED
      BY <2>1
  <1>3. IsFiniteSet(S \ {a}) /\ Cardinality(S \ {a}) = Cardinality(S) - 1
    BY <1>2, FS_RemoveElement
  <1>4. PICK b \in S \ {a} : TRUE
    <2>1. S \ {a} # {}
      BY <1>1, <1>3
    <2> QED
      BY <2>1
  <1>5. IsFiniteSet((S \ {a}) \ {b}) /\ Cardinality((S \ {a}) \ {b}) = Cardinality(S \ {a}) - 1
    BY <1>3, <1>4, FS_RemoveElement
  <1>6. PICK c \in (S \ {a}) \ {b} : TRUE
    <2>1. (S \ {a}) \ {b} # {}
      BY <1>1, <1>3, <1>5
    <2> QED
      BY <2>1
  <1> QED
    BY <1>2, <1>4, <1>6

\* A set with n elements that differ has at least so many.
LEMMA TwoIn ==
  ASSUME NEW S, IsFiniteSet(S), NEW a \in S, NEW b \in S, a # b
  PROVE  Cardinality(S) >= 2
  <1>1. IsFiniteSet(S \ {a}) /\ Cardinality(S \ {a}) = Cardinality(S) - 1 /\ Cardinality(S) \in Nat
    BY FS_RemoveElement, FS_CardinalityType
  <1>2. Cardinality(S \ {a}) # 0 /\ Cardinality(S \ {a}) \in Nat
    <2>1. S \ {a} # {}
      OBVIOUS
    <2> QED
      BY <1>1, <2>1, FS_EmptySet, FS_CardinalityType
  <1> QED
    BY <1>1, <1>2

LEMMA ThreeIn ==
  ASSUME NEW S, IsFiniteSet(S), NEW a \in S, NEW b \in S, NEW c \in S, a # b, a # c, b # c
  PROVE  Cardinality(S) >= 3
  <1>1. IsFiniteSet(S \ {a}) /\ Cardinality(S \ {a}) = Cardinality(S) - 1 /\ Cardinality(S) \in Nat
    BY FS_RemoveElement, FS_CardinalityType
  <1>2. b \in S \ {a} /\ c \in S \ {a}
    OBVIOUS
  <1>3. Cardinality(S \ {a}) >= 2
    BY <1>1, <1>2, TwoIn
  <1> QED
    BY <1>1, <1>3

\* Without the oldest: at most two orders are removed, whatever tells their age.
LEMMA RemovesTwo ==
  ASSUME NEW S, IsFiniteSet(S), NEW key \in [S -> Int],
         \A o, q \in S : key[o] = key[q] => o = q
  PROVE  Cardinality(S \ WithoutOldest(S, key)) <= 2
  <1> DEFINE gone == S \ WithoutOldest(S, key)
             before(o) == {q \in S : key[q] < key[o]}
  <1>1. ASSUME ~(Cardinality(gone) <= 2) PROVE FALSE
    <2>1. IsFiniteSet(gone)
      <3>1. gone \subseteq S
        OBVIOUS
      <3> QED
        BY <3>1, SmallerSet, Zenon
    <2>2. PICK a, b, c \in gone : a # b /\ b # c /\ a # c
      <3> HIDE DEF gone
      <3> QED
        BY <1>1, <2>1, ThreeOf
    <2>3. \A o \in gone : o \in S /\ ~(Cardinality(before(o)) >= 2)
      BY DEF WithoutOldest
    <2>4. ASSUME NEW o \in gone, NEW p \in S, NEW q \in S, p # q, key[p] < key[o], key[q] < key[o]
          PROVE  FALSE
      <3>1. p \in before(o) /\ q \in before(o)
        BY <2>4
      <3>2. IsFiniteSet(before(o))
        <4>1. before(o) \subseteq S
          OBVIOUS
        <4> QED
          BY <4>1, SmallerSet, Zenon
      <3>3. Cardinality(before(o)) >= 2
        <4> HIDE DEF before
        <4> QED
          BY <2>4, <3>1, <3>2, TwoIn
      <3> QED
        BY <2>3, <3>3
    <2>5. {a, b, c} \subseteq S /\ key[a] \in Int /\ key[b] \in Int /\ key[c] \in Int
      BY <2>2, <2>3
    <2>6. key[a] # key[b] /\ key[b] # key[c] /\ key[a] # key[c]
      BY <2>2, <2>5
    <2> HIDE DEF gone
    <2>7. CASE key[a] > key[b] /\ key[a] > key[c]
      BY <2>2, <2>4, <2>5, <2>7
    <2>8. CASE key[b] > key[a] /\ key[b] > key[c]
      BY <2>2, <2>4, <2>5, <2>8
    <2>9. CASE key[c] > key[a] /\ key[c] > key[b]
      BY <2>2, <2>4, <2>5, <2>9
    <2> QED
      BY <2>5, <2>6, <2>7, <2>8, <2>9
  <1> QED
    BY <1>1

LEMMA NewestOrders ==
  ASSUME AccountInv
  PROVE  /\ Newest \subseteq 1..Len(trades) /\ Len(trades) \in Nat
         /\ OrdersOf(Newest) \subseteq OrderIds /\ IsFiniteSet(OrdersOf(Newest))
         /\ \A o \in OrdersOf(Newest) : \E i \in Newest : trades[i] = o
  <1>1. Newest \subseteq 1..Len(trades) /\ Len(trades) \in Nat
    BY DEF Newest, AccountInv
  <1>2. OrdersOf(Newest) \subseteq OrderIds
    BY <1>1 DEF OrdersOf, AccountInv
  <1>3. IsFiniteSet(OrdersOf(Newest))
    BY <1>2, NumbersFinite, Zenon
  <1> QED
    BY <1>1, <1>2, <1>3 DEF OrdersOf

\* The place of the newest trade tells orders apart.
LEMMA LastTradeKeys ==
  ASSUME AccountInv
  PROVE  /\ LastTrade(Newest) \in [OrdersOf(Newest) -> Int]
         /\ \A o, q \in OrdersOf(Newest) :
              LastTrade(Newest)[o] = LastTrade(Newest)[q] => o = q
  <1>1. ASSUME NEW o \in OrdersOf(Newest)
        PROVE  LastTrade(Newest)[o] \in Newest /\ trades[LastTrade(Newest)[o]] = o
    <2> DEFINE mine == {i \in Newest : trades[i] = o}
    <2>1. mine \in SUBSET (1..Len(trades)) /\ mine # {} /\ Len(trades) \in Nat
      BY <1>1, NewestOrders
    <2>2. Max(mine) \in mine
      <3> HIDE DEF mine
      <3> QED
        BY <2>1, MaxFound
    <2>3. LastTrade(Newest)[o] = Max(mine)
      BY <1>1 DEF LastTrade
    <2> QED
      BY <2>2, <2>3
  <1>2. \A o \in OrdersOf(Newest) : LastTrade(Newest)[o] \in Int
    BY <1>1, NewestOrders
  <1>3. LastTrade(Newest) \in [OrdersOf(Newest) -> Int]
    BY <1>2 DEF LastTrade
  <1> QED
    BY <1>1, <1>3

\* An order that reaches over the edge of the page is one of the two oldest: the
\* older ones on the page were open at the edge as well.
LEMMA OverTheEdge ==
  ASSUME AccountInv, EdgeInv, MaxOpen <= 2,
         NEW o \in WithoutOldest(OrdersOf(Newest), [q \in OrdersOf(Newest) |-> q])
  PROVE  Count(Newest, o) = Traded(o)
  <1> DEFINE S == OrdersOf(Newest)
             older == {q \in S : q < o}
  <1>1. o \in S /\ Cardinality(older) >= 2
    <2>1. o \in S
      BY DEF WithoutOldest
    <2>2. {q \in S : [p \in S |-> p][q] < [p \in S |-> p][o]} = older
      BY <2>1
    <2>3. Cardinality({q \in S : [p \in S |-> p][q] < [p \in S |-> p][o]}) >= 2
      BY DEF WithoutOldest
    <2> QED
      BY <2>1, <2>2, <2>3
  <1>2. ASSUME ~OnPage(o) PROVE FALSE
    <2>1. PICK i \in DOMAIN trades : trades[i] = o /\ i \notin Newest
      BY <1>2 DEF OnPage
    <2>2. Page \in Nat /\ Len(trades) \in Nat /\ DOMAIN trades = 1..Len(trades) /\ MaxOpen \in Nat
      BY WrapperAssumption DEF AccountInv
    <2>3. PICK e \in 0..Len(trades) : e = Len(trades) - Page /\ i <= e
      <3>1. ~(i > Len(trades) - Page)
        BY <2>1 DEF Newest
      <3>2. Len(trades) - Page \in 0..Len(trades) /\ i <= Len(trades) - Page
        BY <2>1, <2>2, <3>1
      <3> QED
        BY <3>2
    <2>4. ASSUME NEW q \in S, q <= o PROVE q \in Across(e)
      <3>1. q \in OrderIds /\ o \in OrderIds
        BY <1>1, NewestOrders
      <3>2. PICK j \in Newest : trades[j] = q
        BY NewestOrders
      <3>3. j \in DOMAIN trades /\ j > e
        BY <2>3, <3>2 DEF Newest
      <3>4. trades[i] >= q /\ i \in 1..e
        BY <2>1, <2>2, <2>3, <2>4, <3>1 DEF OrderIds
      <3> QED
        BY <3>1, <3>2, <3>3, <3>4 DEF Across
    <2>5. IsFiniteSet(older) /\ Cardinality(older) \in Nat
      <3>1. older \in SUBSET OrderIds
        BY NewestOrders
      <3> QED
        BY <3>1, NumbersFinite, Zenon
    <2>6. o \notin older
      BY <1>1, NewestOrders DEF OrderIds
    <2>7. IsFiniteSet(older \cup {o}) /\ Cardinality(older \cup {o}) = Cardinality(older) + 1
      <3> HIDE DEF older
      <3> QED
        BY <2>5, <2>6, OneMore
    <2>8. older \cup {o} \subseteq Across(e)
      <3>1. \A q \in older : q \in S /\ q <= o
        <4>1. S \subseteq Int
          BY NewestOrders DEF OrderIds
        <4> HIDE DEF S
        <4> QED
          BY <1>1, <4>1
      <3>2. o \in OrderIds /\ o <= o
        BY <1>1, NewestOrders DEF OrderIds
      <3> HIDE DEF older
      <3> QED
        BY <1>1, <2>4, <3>1, <3>2
    <2>9. IsFiniteSet(Across(e)) /\ Cardinality(Across(e)) \in Nat
      <3>1. Across(e) \in SUBSET OrderIds
        BY DEF Across
      <3> QED
        BY <3>1, NumbersFinite, Zenon
    <2> HIDE DEF older
    <2>10. Cardinality(older \cup {o}) <= Cardinality(Across(e))
      BY <2>8, <2>9, SmallerSet, Zenon
    <2>11. Cardinality(Across(e)) <= MaxOpen
      BY DEF EdgeInv
    <2> QED
      BY <1>1, <2>2, <2>5, <2>7, <2>9, <2>10, <2>11
  <1> QED
    BY <1>2, AllOnPage

LEMMA AuditThen ==
  ASSUME AccountInv, EdgeInv, MaxOpen <= 2, GetOrderAuditData, venue # "KRAKEN"
  PROVE  AuditDataExact'
  <1>1. AccountSame /\ venue \in AllVenues
    BY DEF GetOrderAuditData, AccountSame, AccountInv
  <1>2. /\ answer'.op = "audit"
        /\ answer'.of = CASE venue = "BITSTAMP" -> BitstampAudit(Newest)
                          [] venue = "COINBASE" -> CoinbaseAudit(Newest)
                          [] venue = "GEMINI" -> GeminiAudit(Newest)
                          [] venue = "ITBIT" -> ItbitAudit(Newest)
                          [] venue = "QUADRIGA" -> QuadrigaAudit(Newest)
    <2>1. answer' = Audited(CASE venue = "BITSTAMP" -> BitstampAudit(Newest)
                              [] venue = "COINBASE" -> CoinbaseAudit(Newest)
                              [] venue = "GEMINI" -> GeminiAudit(Newest)
                              [] venue = "ITBIT" -> ItbitAudit(Newest)
                              [] venue = "QUADRIGA" -> QuadrigaAudit(Newest), 0)
      BY Zenon DEF GetOrderAuditData, Return
    <2> QED
      BY <2>1 DEF Audited
  <1> DEFINE S == OrdersOf(Newest)
             ids == [o \in S |-> o]
  <1>3. VolumesExact'
    <2>1. CASE venue = "GEMINI"
      <3>1. answer'.of = [o \in WithoutOldest(S, ids) |-> Count(Newest, o)]
        BY <1>2, <2>1 DEF GeminiAudit, Volumes
      <3>2. \A o \in WithoutOldest(S, ids) : Count(Newest, o) = Traded(o)
        BY OverTheEdge
      <3>3. \A o : Traded(o)' = Traded(o)
        BY <1>1, TradedSame DEF AccountSame
      <3> HIDE DEF S, ids
      <3> QED
        BY <3>1, <3>2, <3>3 DEF VolumesExact
    <2>2. CASE venue = "BITSTAMP"
      BY <1>2, <2>2 DEF BitstampAudit, VolumesExact
    <2>3. CASE venue \notin {"GEMINI", "BITSTAMP", "KRAKEN"}
      BY <1>1, <2>3 DEF AccountSame, VolumesExact
    <2> QED
      BY <2>1, <2>2, <2>3
  <1>4. MissesFew'
    <2>1. ASSUME NEW key \in [S -> Int], \A o, q \in S : key[o] = key[q] => o = q,
                 DOMAIN answer'.of = WithoutOldest(S, key)
          PROVE  Cardinality(({o \in OrderIds : Traded(o)' > 0} \ DOMAIN answer'.of) \cap S) <= 2
      <3>1. IsFiniteSet(S)
        BY NewestOrders
      <3>2. Cardinality(S \ WithoutOldest(S, key)) <= 2
        <4> HIDE DEF S
        <4> QED
          BY <2>1, <3>1, RemovesTwo
      <3> DEFINE some == ({o \in OrderIds : Traded(o)' > 0} \ DOMAIN answer'.of) \cap S
                 gone == S \ WithoutOldest(S, key)
      <3>3. some \subseteq gone /\ gone \subseteq S
        BY <2>1
      <3> HIDE DEF some, gone, S
      <3>4. IsFiniteSet(gone)
        BY <3>1, <3>3, SmallerSet, Zenon
      <3>5. /\ Cardinality(some) <= Cardinality(gone)
            /\ Cardinality(some) \in Nat /\ Cardinality(gone) \in Nat
        BY <3>3, <3>4, SmallerSet, Zenon
      <3>6. Cardinality(some) <= 2
        BY <3>2, <3>5 DEF gone
      <3> QED
        BY <3>6 DEF some
    <2>2. OrdersOf(Newest)' = S /\ venue' = venue
      BY <1>1 DEF AccountSame, OrdersOf, Newest
    <2>3. CASE venue = "GEMINI"
      <3>1. ids \in [S -> Int] /\ \A o, q \in S : ids[o] = ids[q] => o = q
        BY NewestOrders DEF OrderIds
      <3>2. DOMAIN answer'.of = WithoutOldest(S, ids)
        BY <1>2, <2>3 DEF GeminiAudit, Volumes
      <3> HIDE DEF ids, S
      <3>3. Cardinality(({o \in OrderIds : Traded(o)' > 0} \ DOMAIN answer'.of) \cap S) <= 2
        BY <2>1, <3>1, <3>2
      <3> QED
        BY <2>2, <2>3, <3>3 DEF MissesFew
    <2>4. CASE venue \in {"ITBIT", "QUADRIGA"}
      <3>1. /\ LastTrade(Newest) \in [S -> Int]
            /\ \A o, q \in S : LastTrade(Newest)[o] = LastTrade(Newest)[q] => o = q
        BY LastTradeKeys
      <3>2. DOMAIN answer'.of = WithoutOldest(S, LastTrade(Newest))
        BY <1>2, <2>4 DEF ItbitAudit, QuadrigaAudit, Volumes
      <3> HIDE DEF S
      <3>3. Cardinality(({o \in OrderIds : Traded(o)' > 0} \ DOMAIN answer'.of) \cap S) <= 2
        BY <2>1, <3>1, <3>2
      <3> QED
        BY <2>2, <2>4, <3>3 DEF MissesFew
    <2>5. CASE venue \in {"BITSTAMP", "COINBASE"}
      BY <2>2, <2>5 DEF MissesFew
    <2> QED
      BY <1>1, <2>3, <2>4, <2>5 DEF AllVenues
  <1> QED
    BY <1>3, <1>4 DEF AuditDataExact

LEMMA KrakenAuditThen == ASSUME CallsInv, KrakenClosedOrders PROVE AuditDataExact'
  <1> SUFFICES ASSUME answer'.op = "audit" PROVE AuditDataExact'
    BY DEF AuditDataExact
  <1>1. /\ AccountSame /\ AccountInv /\ ClosedInv
    BY DEF KrakenClosedOrders, AccountSame, CallsInv
  <1>2. venue = "KRAKEN" /\ answer'.since \in 0..Len(closed)
    BY KrakenClosedOrdersInv
  <1>3. PICK all \in SUBSET OrderIds, lo \in 0..(Len(closed) - answer'.since) :
          /\ answer'.of = [o \in {q \in all : Traded(q) > 0} |-> Traded(o)]
          /\ \A i \in 1..answer'.since : i > lo => closed[i] \in all
    BY KrakenClosedOrdersInv
  <1>4. \A o : Traded(o)' = Traded(o)
    BY <1>1, TradedSame DEF AccountSame
  <1>5. VolumesExact'
    BY <1>3, <1>4 DEF VolumesExact
  <1> DEFINE left == {o \in OrderIds : Traded(o)' > 0} \ DOMAIN answer'.of
             missed == left \cap {closed[i] : i \in 1..answer'.since}
             T == {closed[i] : i \in 1..lo}
             place == [i \in 1..lo |-> closed[i]]
  <1>6. Len(closed) \in Nat /\ lo \in Nat
    BY <1>1, <1>2, <1>3 DEF ClosedInv
  <1>7. missed \subseteq T
    <2>1. ASSUME NEW i \in 1..answer'.since, closed[i] \in left PROVE i <= lo
      <3>1. closed[i] \notin all
        BY <1>3, <1>4, <2>1
      <3>2. ~(i > lo)
        BY <1>3, <3>1
      <3> QED
        BY <1>2, <1>6, <3>2
    <2> HIDE DEF left
    <2>2. \A i \in 1..answer'.since : closed[i] \in left => i \in 1..lo
      BY <1>2, <1>6, <2>1
    <2> QED
      BY <2>2
  <1>8. IsFiniteSet(T) /\ Cardinality(T) <= lo
    <2>1. place \in Surjection(1..lo, T)
      <3>1. place \in [1..lo -> T]
        OBVIOUS
      <3>2. \A x \in T : \E i \in 1..lo : place[i] = x
        OBVIOUS
      <3> HIDE DEF place, T
      <3> QED
        BY <3>1, <3>2 DEF Surjection
    <2>2. IsFiniteSet(1..lo) /\ Cardinality(1..lo) = lo
      BY <1>6, FirstNumbers
    <2> HIDE DEF place, T
    <2>3. IsFiniteSet(T) /\ Cardinality(T) <= Cardinality(1..lo)
      BY <2>1, <2>2, FS_Surjection
    <2> QED
      BY <2>2, <2>3
  <1>9. Cardinality(missed) <= Len(closed) - answer'.since
    <2> HIDE DEF missed, T
    <2>1. /\ Cardinality(missed) <= Cardinality(T)
          /\ Cardinality(missed) \in Nat /\ Cardinality(T) \in Nat
      BY <1>7, <1>8, SmallerSet, Zenon
    <2> QED
      BY <1>2, <1>3, <1>6, <1>8, <2>1
  <1>10. MissesFew'
    <2>1. closed' = closed /\ venue' = "KRAKEN"
      BY <1>1, <1>2 DEF AccountSame
    <2> QED
      BY <1>9, <2>1 DEF MissesFew
  <1> QED
    BY <1>5, <1>10 DEF AuditDataExact

\* The other steps return no audit data.
LEMMA NoAudit ==
  ASSUME Next, ~GetOrderAuditData, ~KrakenClosedOrders
  PROVE  answer'.op # "audit"
  <1>1. CASE Other
    BY <1>1, OtherThen
  <1>2. CASE GetOpenOrders \/ GetBalance
    BY <1>2 DEF GetOpenOrders, GetBalance
  <1>3. CASE CancelAllOpenOrders \/ \E o \in OrderIds : CancelOrder(o)
    BY <1>3 DEF CancelAllOpenOrders, CancelOrder
  <1>4. ASSUME NEW S \in SUBSET Placed, GetMultiOrderDetails(S) PROVE answer'.op # "audit"
    <2>1. answer' = None \/ \E d, since : answer' = Details(d, since)
      BY <1>4, Zenon DEF GetMultiOrderDetails, Return
    <2> QED
      BY <2>1 DEF None, Details
  <1>5. CASE CoinbaseDetails \/ KrakenDetails \/ QuadrigaDetails
    <2>1. answer' = Raise("UnboundLocalError") \/ \E d, since : answer' = Details(d, since)
      BY <1>5, Zenon DEF CoinbaseDetails, KrakenDetails, QuadrigaDetails, Return
    <2> QED
      BY <2>1 DEF Raise, Details
  <1> QED
    BY <1>1, <1>2, <1>3, <1>4, <1>5 DEF Next, Calls, Other

LEMMA AuditAlways ==
  ASSUME CallsInv, MaxOpen <= 2, Next
  PROVE  AuditDataExact'
  <1>1. CASE GetOrderAuditData /\ venue = "KRAKEN"
    <2>1. answer' = None
      BY <1>1 DEF GetOrderAuditData
    <2> QED
      BY <2>1 DEF None, AuditDataExact
  <1>2. CASE GetOrderAuditData /\ venue # "KRAKEN"
    BY <1>2, AuditThen DEF CallsInv
  <1>3. CASE KrakenClosedOrders
    BY <1>3, KrakenAuditThen
  <1>4. CASE ~GetOrderAuditData /\ ~KrakenClosedOrders
    <2>1. answer'.op # "audit"
      BY <1>4, NoAudit
    <2> QED
      BY <2>1 DEF AuditDataExact
  <1> QED
    BY <1>1, <1>2, <1>3, <1>4

-----------------------------------------------------------------------------
\* A behaviour is one part at work; the account rests in the others.
LEMMA CallsAlways == WrappersSpec => []CallsInv
  <1>1. CallsInv /\ [WrappersNext]_<<part, vars, requestVars>> => CallsInv'
    <2> SUFFICES ASSUME CallsInv, [WrappersNext]_<<part, vars, requestVars>> PROVE CallsInv'
      OBVIOUS
    <2>1. Next \/ UNCHANGED vars
      BY Zenon DEF WrappersNext
    <2> QED
      BY <2>1, CallsNext, CallsSame
  <1> QED
    BY <1>1, CallsInit, PTL DEF WrappersSpec

\* What the engine's audit compares its orders with has their whole volumes, and
\* leaves out at most two orders, whatever is traded, cancelled and placed between
\* the requests: as long as no more than two orders are open at once, which is what
\* the code relies on where it removes two (gemini_btc_usd.py:388).
THEOREM AuditDataExactAlways == ASSUME MaxOpen <= 2 PROVE WrappersSpec => []AuditDataExact
  <1>1. WrappersInit => AuditDataExact
    BY DEF WrappersInit, Init, None, AuditDataExact
  <1>2. CallsInv /\ AuditDataExact /\ [WrappersNext]_<<part, vars, requestVars>> => AuditDataExact'
    <2> SUFFICES ASSUME CallsInv, AuditDataExact, [WrappersNext]_<<part, vars, requestVars>>
                 PROVE  AuditDataExact'
      OBVIOUS
    <2>1. Next \/ UNCHANGED vars
      BY Zenon DEF WrappersNext
    <2>2. CASE UNCHANGED vars
      BY <2>2 DEF vars, AuditDataExact, VolumesExact, MissesFew, Traded, Count, OrdersOf, Newest
    <2> QED
      BY <2>1, <2>2, AuditAlways, MaxOpen <= 2
  <1> QED
    BY <1>1, <1>2, CallsAlways, PTL DEF WrappersSpec

\* Details, open orders, balances and cancellations are what was so at some moment
\* of the call: for all orders and trades, where the fills of an order fit on one
\* of Coinbase's pages.
THEOREM AnswersAlways ==
  ASSUME "COINBASE" \in Venues => Volume <= Page
  PROVE  WrappersSpec => []AnswersOfTheMoment
  <1>1. WrappersInit => AnswersOfTheMoment
    BY DEF WrappersInit, Init, None, AnswersOfTheMoment
  <1>2. CallsInv /\ AnswersOfTheMoment /\ [WrappersNext]_<<part, vars, requestVars>>
          => AnswersOfTheMoment'
    <2> SUFFICES ASSUME CallsInv, AnswersOfTheMoment, [WrappersNext]_<<part, vars, requestVars>>
                 PROVE  AnswersOfTheMoment'
      OBVIOUS
    <2>1. Next \/ UNCHANGED vars
      BY Zenon DEF WrappersNext
    <2>2. CASE UNCHANGED vars
      BY <2>2 DEF vars, AnswersOfTheMoment, DetailsSo, ListedSo, BalanceSo, CancelSo, Traded,
                  Count, OnPage, Newest, Open
    <2>3. venue = "COINBASE" => Volume <= Page
      BY DEF CallsInv, AccountInv
    <2> QED
      BY <2>1, <2>2, <2>3, AnswersThen
  <1> QED
    BY <1>1, <1>2, CallsAlways, PTL DEF WrappersSpec

=============================================================================
