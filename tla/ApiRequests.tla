----------------------------- MODULE ApiRequests -----------------------------
(***************************************************************************)
(* What goes from an exchange wrapper to the exchange: the order as it is  *)
(* rounded on its way, and the authenticated requests of two processes     *)
(* that use one API key, with their nonces.                                *)
(*                                                                         *)
(* A request is handed to one of the session's ten workers and has no      *)
(* timeout: requests made one after another may arrive in another order,   *)
(* as late as they like.                                                   *)
(***************************************************************************)
EXTENDS Integers, FiniteSets

CONSTANTS
  MaxClock,      \* bound: the time; two requests of a moment have one time stamp
  MaxUnderWay,   \* bound: requests that are under way or whose answer is awaited
  MaxAttempts,   \* attempts of exchange_retry, 7 in the code
  Sleep,         \* how long req() sleeps at Quadriga and Kraken
  Backoff        \* how long exchange_retry waits

ASSUME RequestsAssumption ==
  /\ {MaxClock, MaxUnderWay, Backoff} \subseteq Nat
  /\ {MaxAttempts, Sleep} \subseteq Nat \ {0}

VARIABLES
  keyOf,      \* the venue whose key it is
  clock,
  clients,    \* [todo, size, attempt, pause] of the processes
  requests,   \* [client, number, later, nonce, sent, answer, arrived, awaited]: the
              \* number tells a client's requests of one moment apart, and this
              \* many later ones of the same call follow
  newest,     \* [nonce, client] of the request the exchange last accepted for the key
  refusal     \* [client, by, after] of the last request that was refused for its nonce
              \* while it was awaited: its client, that of the one that had overtaken
              \* it, and for how long it had been under way; history

requestVars == <<keyOf, clock, clients, requests, newest, refusal>>

Wrappers == {"Bitstamp", "Coinbase", "Gemini", "ItBit", "Kraken", "Quadriga"}

-----------------------------------------------------------------------------
(* Orders.  Prices are in quarters of a cent, volumes in quarters of a     *)
(* satoshi.                                                                *)

RoundedDown(n, unit) == n - (n % unit)
RoundedUp(n, unit) == n + ((-n) % unit)
\* What '%.2f' and '%.8f' make of a number: of a half, one or the other.
Formatted(n, unit) ==
  {m \in {RoundedDown(n, unit), RoundedUp(n, unit)} :
     2 * (IF m > n THEN m - n ELSE n - m) <= unit}

PriceUnit(wrapper) == IF wrapper = "Kraken" THEN 40 ELSE 4
\* None, for the others.
VolumeUnit == [w \in {"Bitstamp", "Gemini"} |-> 4]

\* What the coordinator rounds an order to, and records.

\* A bug: the directions swapped.
RecordedPrice_Swapped(wrapper, mode, price) ==
  IF mode = "BID" THEN RoundedUp(price, PriceUnit(wrapper))
                  ELSE RoundedDown(price, PriceUnit(wrapper))
RecordedPrice(wrapper, mode, price) ==
  IF mode = "BID" THEN RoundedDown(price, PriceUnit(wrapper))
                  ELSE RoundedUp(price, PriceUnit(wrapper))

RecordedVolume(wrapper, volume) ==
  IF wrapper \in DOMAIN VolumeUnit THEN RoundedDown(volume, VolumeUnit[wrapper])
                                   ELSE volume

\* What place_order_req of a wrapper puts into the request for it.
SentByBitstamp(mode, price, volume) ==
  [price : {RecordedPrice("Bitstamp", mode, price)}, volume : {RoundedDown(volume, 4)}]
SentByGemini(mode, price, volume) ==
  [price : {RecordedPrice("Gemini", mode, price)}, volume : {RoundedDown(volume, 4)}]
SentByItBit(price, volume) ==
  [price : Formatted(price, 4), volume : {RoundedDown(volume, 4)}]
SentByCoinbase(price, volume) ==
  [price : Formatted(price, 4), volume : Formatted(volume, 4)]
SentByQuadriga(price, volume) ==
  [price : Formatted(price, 4), volume : Formatted(volume, 4)]
SentByKraken(price, volume) == [price : {price}, volume : {volume}]

Sent(wrapper, mode, price, volume) ==
  CASE wrapper = "Bitstamp" -> SentByBitstamp(mode, price, volume)
    [] wrapper = "Gemini" -> SentByGemini(mode, price, volume)
    [] wrapper = "ItBit" -> SentByItBit(price, volume)
    [] wrapper = "Coinbase" -> SentByCoinbase(price, volume)
    [] wrapper = "Quadriga" -> SentByQuadriga(price, volume)
    [] wrapper = "Kraken" -> SentByKraken(price, volume)

-----------------------------------------------------------------------------
(* Requests.                                                               *)

Clients == {"engine", "owner"}

\* auth_request: the time in milliseconds, which Gemini's stretches and ItBit's
\* sends with a nonce that is always 1.  Coinbase has only the time.
BitstampNonce(time) == time
KrakenNonce(time) == time
QuadrigaNonce(time) == time
GeminiNonce(time) == time * 1000 + 1000000000
ItBitNonce(time) == <<1, time>>
CoinbaseTimestamp(time) == time

Nonce(time) ==
  CASE keyOf = "Bitstamp" -> BitstampNonce(time)
    [] keyOf = "Kraken" -> KrakenNonce(time)
    [] keyOf = "Quadriga" -> QuadrigaNonce(time)
    [] keyOf = "Gemini" -> GeminiNonce(time)
    [] keyOf = "ItBit" -> ItBitNonce(time)
    [] keyOf = "Coinbase" -> CoinbaseTimestamp(time)

\* Requests a function makes before it reads the first answer: the details of
\* several orders; the balances of all pairs, which on Gemini share a key.
DetailsBatch == IF keyOf \in {"Coinbase", "Quadriga"} THEN 2 ELSE 1
BalanceBatch == IF keyOf = "Gemini" THEN 2 ELSE 1
Batches(c) == IF c = "engine" THEN {1, DetailsBatch} ELSE {BalanceBatch}

Resting == [todo |-> 0, size |-> 0, attempt |-> 0, pause |-> 0]

RequestsInit ==
  /\ keyOf \in Wrappers /\ clock = 0
  /\ clients = [c \in Clients |-> Resting]
  /\ requests = {} /\ newest = <<>> /\ refusal = <<>>

Awaited(c) == {q \in requests : q.client = c /\ q.awaited}

Call(c) ==
  /\ clients[c].size = 0
  /\ \E n \in Batches(c) :
       clients' = [clients EXCEPT ![c] = [Resting EXCEPT !.todo = n, !.size = n, !.attempt = 1]]
  /\ UNCHANGED <<keyOf, clock, requests, newest, refusal>>

\* A bug: no sleep.
RequestPause_None == 0
RequestPause == IF keyOf \in {"Quadriga", "Kraken"} THEN Sleep ELSE 0

Send(c) ==
  LET me == clients[c]
      later == me.todo - 1
      alike == {q \in requests : q.client = c /\ q.later = later /\ q.sent = clock}
      number == CHOOSE n \in 1..MaxUnderWay : \A q \in alike : q.number # n
  IN  /\ me.todo > 0 /\ me.pause = 0 /\ Cardinality(requests) < MaxUnderWay
      /\ requests' = requests \cup
           {[client |-> c, number |-> number, later |-> later, nonce |-> Nonce(clock),
             sent |-> clock, answer |-> "none", arrived |-> 0, awaited |-> TRUE]}
      /\ clients' = [clients EXCEPT ![c].todo = later, ![c].pause = RequestPause]
      /\ UNCHANGED <<keyOf, clock, newest, refusal>>

\* The exchange has accepted a request before that makes it refuse this one.
Overtaken(request) ==
  /\ keyOf # "Coinbase" /\ newest # <<>>
  /\ IF keyOf = "ItBit" THEN newest.nonce = request.nonce
                        ELSE newest.nonce >= request.nonce

Answer(q, answer) ==
  requests' = (requests \ {q}) \cup
    (IF q.awaited THEN {[q EXCEPT !.answer = answer, !.arrived = clock]} ELSE {})

\* Lost on the way, or turned away by a Coinbase "under heavy load".
Lose(q) ==
  /\ q.answer = "none"
  /\ Answer(q, "failure")
  /\ UNCHANGED <<keyOf, clock, clients, newest, refusal>>

\* Something in between gives up on it, but it is on its way still.
GiveUp(q) ==
  /\ q.answer = "none" /\ q.awaited /\ Cardinality(requests) < MaxUnderWay
  /\ requests' = (requests \ {q}) \cup
       {[q EXCEPT !.answer = "failure", !.arrived = clock], [q EXCEPT !.awaited = FALSE]}
  /\ UNCHANGED <<keyOf, clock, clients, newest, refusal>>

\* "error": the exchange refuses what was asked for; "failure": its answer is
\* lost.
Arrive(q) ==
  /\ q.answer = "none"
  /\ IF Overtaken(q)
     THEN /\ Answer(q, "nonce")
          /\ refusal' = IF q.awaited
                        THEN [client |-> q.client, by |-> newest.client,
                              after |-> clock - q.sent]
                        ELSE refusal
          /\ UNCHANGED newest
     ELSE /\ \E answer \in {"data", "error", "failure"} : Answer(q, answer)
          /\ newest' = [nonce |-> q.nonce, client |-> q.client]
          /\ UNCHANGED refusal
  /\ UNCHANGED <<keyOf, clock, clients>>

\* The exception that resp() raises for an answer.
BitstampError(answer) == IF answer = "nonce" THEN "NonceError" ELSE answer
KrakenError(answer) == IF answer = "nonce" THEN "NonceError" ELSE answer
QuadrigaError(answer) == IF answer = "nonce" THEN "NonceError" ELSE answer
ItBitError(answer) == IF answer = "nonce" THEN "NonceError" ELSE answer
GeminiError(answer) == IF answer = "nonce" THEN "InsufficientFundsError" ELSE answer

Raised(answer) ==
  CASE keyOf = "Bitstamp" -> BitstampError(answer)
    [] keyOf = "Kraken" -> KrakenError(answer)
    [] keyOf = "Quadriga" -> QuadrigaError(answer)
    [] keyOf = "ItBit" -> ItBitError(answer)
    [] keyOf = "Gemini" -> GeminiError(answer)
    [] OTHER -> answer

\* retry_if_exchange_exception
TriedAgain(c, raised) ==
  c = "engine" /\ raised \in {"failure", "NonceError"} /\ clients[c].attempt < MaxAttempts

\* The requests of c that nobody waits for any more; the answered ones go.
Abandoned(c) ==
  {IF q.client = c THEN [q EXCEPT !.awaited = FALSE] ELSE q :
     q \in {r \in requests : r.client # c \/ r.answer = "none"}}

\* The function reads its answers in turn; the first that is not one ends it,
\* and the others are not waited for.
Read(c) ==
  \E first \in Awaited(c) :
    LET me == clients[c]
        raised == Raised(first.answer)
    IN  /\ \A q \in Awaited(c) : q.later <= first.later
        /\ me.todo = 0 /\ me.pause = 0
        /\ first.answer # "none" /\ clock > first.arrived
        /\ IF raised = "data" /\ Awaited(c) # {first}
           THEN requests' = requests \ {first} /\ UNCHANGED clients
           ELSE /\ requests' = Abandoned(c)
                /\ clients' = [clients EXCEPT ![c] =
                     IF TriedAgain(c, raised)
                     THEN [todo |-> me.size, size |-> me.size,
                           attempt |-> me.attempt + 1, pause |-> Backoff]
                     ELSE Resting]
        /\ UNCHANGED <<keyOf, clock, newest, refusal>>

Pass ==
  /\ clock < MaxClock
  /\ clock' = clock + 1
  /\ clients' = [c \in Clients |->
       [clients[c] EXCEPT !.pause = IF @ = 0 THEN 0 ELSE @ - 1]]
  /\ UNCHANGED <<keyOf, requests, newest, refusal>>

RequestsNext ==
  \/ \E c \in Clients : Call(c) \/ Send(c) \/ Read(c)
  \/ \E q \in requests : Lose(q) \/ GiveUp(q) \/ Arrive(q)
  \/ Pass
=============================================================================
