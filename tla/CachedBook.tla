----------------------------- MODULE CachedBook -----------------------------
(***************************************************************************)
(* The polled orderbook on its way to a strategy: RequestPoller asks the   *)
(* exchange in a LoopingCall, OrderbookPoller stamps the answer and writes *)
(* it to Redis, get_orderbook of a wrapper that uses cached orderbooks     *)
(* reads it there.  The queue gets what Redis gets, in the same order.     *)
(*                                                                         *)
(* A book is the time of the exchange at which it was true.  One tick of   *)
(* the clock is 5 seconds.                                                 *)
(***************************************************************************)
EXTENDS Integers, Sequences, SequencesExt

CONSTANTS
  MaxTime,     \* bound: the clock
  MaxWait,     \* bound: how long the exchange may take to answer
  MaxPending   \* bound: requests at once

ASSUME CacheAssumption ==
  MaxTime \in Nat /\ MaxWait \in Nat /\ MaxPending \in Nat \ {0}

VARIABLES
  now,
  looping,   \* the LoopingCall waits for the request it has made
  asking,    \* requests at the exchange, as the time they were made
  storing,   \* parsed books whose write waits for Redis: [book, stamp]
  cache,     \* the entry in Redis, or NoEntry
  beat,      \* the heartbeat in Redis
  used       \* the book get_orderbook returned last: [book, stamp, at]

cacheVars == <<now, looping, asking, storing, cache, beat, used>>

NoEntry == <<>>
MaxAge == 2        \* 10 seconds
Unused == [book |-> 0, stamp |-> 0, at |-> 0]

CacheInit ==
  /\ now = 0 /\ looping = FALSE /\ asking = <<>> /\ storing = <<>>
  /\ cache = NoEntry /\ beat = 0 /\ used = Unused

-----------------------------------------------------------------------------
\* Time passes, but no request takes longer than MaxWait and Redis answers.
Tick ==
  /\ now < MaxTime /\ storing = <<>>
  /\ \A i \in DOMAIN asking : now - asking[i] < MaxWait
  /\ now' = now + 1
  /\ UNCHANGED <<looping, asking, storing, cache, beat, used>>

\* A bug: get_request does not return its deferred, the loop does not wait.
Waits_Not == FALSE

\* LoopingCall calls again when the deferred it was given has fired.
Waits == looping

GetRequest ==
  /\ ~Waits /\ Len(asking) + Len(storing) < MaxPending
  /\ looping' = TRUE
  /\ asking' = Append(asking, now)
  /\ UNCHANGED <<now, storing, cache, beat, used>>

\* The exchange answered with its book of some moment since the request.
\* parse_response stamps it with the time it is read, and asks Redis for the
\* entry that is there.
BookParsed(i, book) ==
  /\ i \in DOMAIN asking /\ book \in asking[i]..now
  /\ asking' = RemoveAt(asking, i)
  /\ storing' = Append(storing, [book |-> book, stamp |-> now])
  /\ UNCHANGED <<now, looping, cache, beat, used>>

\* Redis has answered: the stamp makes every entry a new one.
Write ==
  /\ storing # <<>>
  /\ cache' = Head(storing)
  /\ storing' = Tail(storing)
  /\ beat' = now /\ looping' = FALSE
  /\ UNCHANGED <<now, asking, used>>

\* The answer cannot be parsed: log_response_error swallows the error, the
\* heartbeat comes all the same.
BadResponse(i) ==
  /\ i \in DOMAIN asking /\ asking' = RemoveAt(asking, i)
  /\ beat' = now /\ looping' = FALSE
  /\ UNCHANGED <<now, storing, cache, used>>

\* There is no answer: log_request_error.
NoResponse(i) ==
  /\ i \in DOMAIN asking /\ asking' = RemoveAt(asking, i)
  /\ looping' = FALSE
  /\ UNCHANGED <<now, storing, cache, beat, used>>

-----------------------------------------------------------------------------
\* A bug: any entry will do.
Expired_Never == cache = NoEntry

\* CachedOrderbookFailure: no entry, or one of 10 seconds ago.
Expired == cache = NoEntry \/ now - cache.stamp >= MaxAge

\* get_orderbook; an old entry is not used.
GetOrderbook ==
  /\ ~Expired
  /\ used' = [book |-> cache.book, stamp |-> cache.stamp, at |-> now]
  /\ UNCHANGED <<now, looping, asking, storing, cache, beat>>

CacheNext ==
  \/ Tick \/ GetRequest \/ Write \/ GetOrderbook
  \/ \E i \in DOMAIN asking :
       \/ \E book \in 0..MaxTime : BookParsed(i, book)
       \/ BadResponse(i) \/ NoResponse(i)

CacheSpec == CacheInit /\ [][CacheNext]_cacheVars

-----------------------------------------------------------------------------
\* A book from the cache was true at the exchange at most 10 seconds, and the
\* time the answer that brought it was on its way, before its use: the age
\* that is checked is counted from the parsing.
UsedIsRecent == used.at - used.book < MaxAge + MaxWait

\* A strategy never sees an older book than before, however late an answer
\* comes: the LoopingCall has one request at a time.
NeverBackwards == [][used'.book >= used.book]_cacheVars
=============================================================================
