---------------------------- MODULE ExchangeRates ----------------------------
(***************************************************************************)
(* Exchange rates: a poller leaves them in Redis, USDCurrencyConverter     *)
(* takes them from there or asks for them itself, and cache_me keeps them, *)
(* in memcache for all processes and in each process for itself.  Rates    *)
(* are the moment they are of.                                             *)
(***************************************************************************)
EXTENDS Integers

CONSTANTS
  Processes,      \* that convert currencies
  RateThreshold,  \* exchange_rate_age_threshold, an hour
  CacheTime,      \* of _all_rates, a minute
  MaxRateTime     \* bound

ASSUME RatesAssumption ==
  {RateThreshold, CacheTime} \subseteq Nat \ {0} /\ MaxRateTime \in Nat

VARIABLES
  rateTime,
  redisRates,   \* the rates in Redis; they are stamped when they are polled
  memcached,    \* [rates, until]
  local,        \* [rates, until] of the processes
  converted     \* [rates, at] of the last conversion; history

rateVars == <<rateTime, redisRates, memcached, local, converted>>

Nowhere == [rates |-> -1, until |-> -1]

RatesInit ==
  /\ rateTime = 0 /\ redisRates = -1 /\ memcached = Nowhere
  /\ local = [p \in Processes |-> Nowhere]
  /\ converted = [rates |-> 0, at |-> 0]

\* OpenExchangeRatePoller.parse_response
PollRates ==
  /\ redisRates' = rateTime
  /\ UNCHANGED <<rateTime, memcached, local, converted>>

\* The value that is not None, or none: memcache keeps an entry less than the
\* time, the process not more.
Cached(entry) == entry # Nowhere /\ rateTime < entry.until
LocallyCached(entry) == entry # Nowhere /\ rateTime <= entry.until

\* A bug: any rates will do.
RatesFromRedis_Any == {redisRates} \ {-1}
RatesFromRedis == {r \in {redisRates} \ {-1} : r + RateThreshold > rateTime}

\* Redis may be out of reach; then, and when its rates are old, those of now are
\* asked for.
AllRates ==
  RatesFromRedis \cup {rateTime}

CacheEntry(rates) == [rates |-> rates, until |-> rateTime + CacheTime]

Use(rates) == converted' = [rates |-> rates, at |-> rateTime]

\* What cache_me's wrapper does, in the order it does it.
ConvertLocally(p) ==
  /\ LocallyCached(local[p])
  /\ Use(local[p].rates)
  /\ UNCHANGED <<rateTime, redisRates, memcached, local>>

ConvertFromMemcache(p) ==
  /\ ~LocallyCached(local[p]) /\ Cached(memcached)
  /\ Use(memcached.rates)
  /\ local' = [local EXCEPT ![p] = CacheEntry(memcached.rates)]
  /\ UNCHANGED <<rateTime, redisRates, memcached>>

ConvertAnew(p) ==
  /\ ~LocallyCached(local[p]) /\ ~Cached(memcached)
  /\ \E rates \in AllRates :
       /\ Use(rates)
       /\ memcached' = CacheEntry(rates)
       /\ local' = [local EXCEPT ![p] = CacheEntry(rates)]
  /\ UNCHANGED <<rateTime, redisRates>>

RateTimePasses ==
  /\ rateTime < MaxRateTime /\ rateTime' = rateTime + 1
  /\ UNCHANGED <<redisRates, memcached, local, converted>>

RatesNext ==
  \/ PollRates \/ RateTimePasses
  \/ \E p \in Processes : ConvertLocally(p) \/ ConvertFromMemcache(p) \/ ConvertAnew(p)
=============================================================================
