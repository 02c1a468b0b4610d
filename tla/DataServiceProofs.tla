-------------------------- MODULE DataServiceProofs --------------------------
(***************************************************************************)
(* Proofs about the data service: what the auditor's flag, the exchange    *)
(* rates, the polled orderbooks, those that follow a websocket, the        *)
(* backfill of trades and the records of the markets promise, for every    *)
(* limit, threshold, length of a run and archive.                          *)
(***************************************************************************)
EXTENDS DataServiceProperties, SequenceTheorems, SumTheorems

-----------------------------------------------------------------------------
(* The parts.  Each takes its own steps or none, whichever is at work.     *)

LEMMA PartsStart ==
  ASSUME ServiceInit
  PROVE  FeedInit /\ CacheInit /\ AuditorInit /\ LevelInit /\ RatesInit
  BY DEF ServiceInit, FeedsInit

LEMMA PartsStep ==
  ASSUME [ServiceNext]_<<feedsVars, serviceVars>>
  PROVE  /\ [FeedNext]_feedVars /\ [CacheNext]_cacheVars /\ [AuditorNext]_auditorVars
         /\ [LevelNext]_levelVars /\ [RatesNext]_rateVars
  <1>1. CASE FeedsNext /\ UNCHANGED <<backfillVars, rateVars>>
    BY <1>1 DEF FeedsNext
  <1>2. CASE BackfillNext /\ UNCHANGED <<feedsVars, rateVars>>
    BY <1>2 DEF feedsVars
  <1>3. CASE RatesNext /\ UNCHANGED <<feedsVars, backfillVars>>
    BY <1>3 DEF feedsVars
  <1>4. CASE UNCHANGED <<feedsVars, serviceVars>>
    BY <1>4 DEF feedsVars, serviceVars
  <1> QED
    BY <1>1, <1>2, <1>3, <1>4 DEF ServiceNext

-----------------------------------------------------------------------------
(* Exchange rates.  Rates from Redis are less than the threshold old when  *)
(* they enter memcache, an entry of a process is up to a time in memcache  *)
(* older than these when it is made, and is used for one time more.        *)

Rated == [rates : Int, until : Int]

RateTypes ==
  /\ rateTime \in Nat /\ redisRates \in Int
  /\ memcached \in Rated /\ local \in [Processes -> Rated]
  /\ converted \in [rates : Int, at : Int]

\* How old the rates of an entry were when it was made.
AgeWhenMade(entry) == entry.until - CacheTime - entry.rates

RateAges ==
  /\ AgeWhenMade(memcached) <= RateThreshold - 1
  /\ \A p \in Processes : AgeWhenMade(local[p]) <= RateThreshold + CacheTime - 2
  /\ RateNotOld

RateInv == RateTypes /\ RateAges

LEMMA RateInitInv == ASSUME RatesInit PROVE RateInv
  <1> USE RatesAssumption
  <1>1. Nowhere \in Rated /\ AgeWhenMade(Nowhere) = -CacheTime
    BY DEF Nowhere, Rated, AgeWhenMade
  <1>2. RateTypes
    BY <1>1 DEF RatesInit, RateTypes
  <1>3. RateAges
    BY <1>1 DEF RatesInit, RateAges, RateNotOld
  <1> QED
    BY <1>2, <1>3 DEF RateInv

LEMMA EntryAge ==
  ASSUME NEW r \in Int, rateTime \in Nat
  PROVE  /\ CacheEntry(r) \in Rated /\ AgeWhenMade(CacheEntry(r)) = rateTime - r
         /\ [rates |-> r, at |-> rateTime] \in [rates : Int, at : Int]
  BY RatesAssumption DEF CacheEntry, Rated, AgeWhenMade

\* What all conversions have in common.
LEMMA UseInv ==
  ASSUME RateInv, NEW r \in Int, Use(r), rateTime' = rateTime,
         rateTime - r <= RateThreshold + 2 * CacheTime - 2
  PROVE  converted' \in [rates : Int, at : Int] /\ RateNotOld'
  BY EntryAge DEF RateInv, RateTypes, Use, RateNotOld

LEMMA ConvertLocallyInv ==
  ASSUME RateInv, NEW p \in Processes, ConvertLocally(p)
  PROVE  RateInv'
  <1> USE RatesAssumption
  <1>1. /\ rateTime \in Nat /\ local[p] \in Rated /\ rateTime <= local[p].until
        /\ AgeWhenMade(local[p]) <= RateThreshold + CacheTime - 2
    BY DEF RateInv, RateTypes, RateAges, ConvertLocally, LocallyCached
  <1>2. /\ local[p].rates \in Int
        /\ rateTime - local[p].rates <= RateThreshold + 2 * CacheTime - 2
    BY <1>1 DEF Rated, AgeWhenMade
  <1>3. converted' \in [rates : Int, at : Int] /\ RateNotOld'
    BY <1>2, UseInv DEF ConvertLocally
  <1> QED
    BY <1>3 DEF RateInv, RateTypes, RateAges, ConvertLocally, AgeWhenMade

LEMMA ConvertFromMemcacheInv ==
  ASSUME RateInv, NEW p \in Processes, ConvertFromMemcache(p)
  PROVE  RateInv'
  <1> USE RatesAssumption
  <1> DEFINE r == memcached.rates
  <1>1. /\ rateTime \in Nat /\ memcached \in Rated /\ rateTime < memcached.until
        /\ AgeWhenMade(memcached) <= RateThreshold - 1
    BY DEF RateInv, RateTypes, RateAges, ConvertFromMemcache, Cached
  <1>2. r \in Int /\ rateTime - r <= RateThreshold + CacheTime - 2
    BY <1>1 DEF Rated, AgeWhenMade
  <1> HIDE DEF r
  <1>3. /\ Use(r) /\ rateTime' = rateTime /\ redisRates' = redisRates
        /\ memcached' = memcached /\ local' = [local EXCEPT ![p] = CacheEntry(r)]
    BY DEF ConvertFromMemcache, r
  <1>4. converted' \in [rates : Int, at : Int] /\ RateNotOld'
    <2>1. rateTime - r <= RateThreshold + 2 * CacheTime - 2
      BY <1>1, <1>2
    <2> QED
      BY <1>2, <1>3, <2>1, UseInv
  <1>5. /\ CacheEntry(r) \in Rated
        /\ AgeWhenMade(CacheEntry(r)) <= RateThreshold + CacheTime - 2
    BY <1>1, <1>2, EntryAge
  <1>6. RateTypes'
    BY <1>3, <1>4, <1>5 DEF RateInv, RateTypes
  <1>7. \A q \in Processes : AgeWhenMade(local'[q]) <= RateThreshold + CacheTime - 2
    BY <1>3, <1>5 DEF RateInv, RateTypes, RateAges
  <1>8. AgeWhenMade(memcached)' <= RateThreshold - 1
    BY <1>1, <1>3 DEF AgeWhenMade
  <1> QED
    BY <1>4, <1>6, <1>7, <1>8 DEF RateInv, RateAges, AgeWhenMade

LEMMA ConvertAnewInv ==
  ASSUME RateInv, NEW p \in Processes, ConvertAnew(p)
  PROVE  RateInv'
  <1> USE RatesAssumption
  <1>1. PICK r \in AllRates :
          Use(r) /\ memcached' = CacheEntry(r) /\ local' = [local EXCEPT ![p] = CacheEntry(r)]
    BY DEF ConvertAnew
  <1>2. rateTime \in Nat /\ rateTime' = rateTime /\ redisRates' = redisRates
    BY DEF ConvertAnew, RateInv, RateTypes
  <1>3. r \in Int /\ rateTime - r <= RateThreshold - 1
    BY <1>2 DEF AllRates, RatesFromRedis, RateInv, RateTypes
  <1>4. converted' \in [rates : Int, at : Int] /\ RateNotOld'
    <2>1. rateTime - r <= RateThreshold + 2 * CacheTime - 2
      BY <1>2, <1>3
    <2> QED
      BY <1>1, <1>2, <1>3, <2>1, UseInv
  <1>5. CacheEntry(r) \in Rated /\ AgeWhenMade(CacheEntry(r)) <= RateThreshold - 1
    BY <1>2, <1>3, EntryAge
  <1>6. RateTypes'
    BY <1>1, <1>2, <1>4, <1>5 DEF RateInv, RateTypes
  <1>7. \A q \in Processes : AgeWhenMade(local'[q]) <= RateThreshold + CacheTime - 2
    <2>1. ASSUME NEW q \in Processes, q # p
          PROVE  AgeWhenMade(local'[q]) <= RateThreshold + CacheTime - 2
      BY <1>1, <2>1 DEF RateInv, RateTypes, RateAges
    <2>2. local'[p] = CacheEntry(r)
      BY <1>1 DEF RateInv, RateTypes
    <2>3. AgeWhenMade(CacheEntry(r)) <= RateThreshold + CacheTime - 2
      BY <1>5 DEF Rated, AgeWhenMade
    <2> QED
      BY <2>1, <2>2, <2>3
  <1>8. AgeWhenMade(memcached)' <= RateThreshold - 1
    BY <1>1, <1>5 DEF AgeWhenMade
  <1> QED
    BY <1>4, <1>6, <1>7, <1>8 DEF RateInv, RateAges, AgeWhenMade

LEMMA RateStepInv == ASSUME RateInv, [RatesNext]_rateVars PROVE RateInv'
  <1>1. CASE PollRates \/ RateTimePasses \/ UNCHANGED rateVars
    <2>1. /\ memcached' = memcached /\ local' = local /\ converted' = converted
          /\ rateTime' \in {rateTime, rateTime + 1} /\ redisRates' \in {redisRates, rateTime}
      BY <1>1 DEF PollRates, RateTimePasses, rateVars
    <2> QED
      BY <2>1 DEF RateInv, RateTypes, RateAges, AgeWhenMade, RateNotOld
  <1>2. CASE \E p \in Processes : ConvertLocally(p) \/ ConvertFromMemcache(p) \/ ConvertAnew(p)
    BY <1>2, ConvertLocallyInv, ConvertFromMemcacheInv, ConvertAnewInv
  <1> QED
    BY <1>1, <1>2 DEF RatesNext

\* No conversion uses rates that are older than the age threshold of the rates
\* in Redis and two times in a cache, less the two moments at which these end
\* (USDCurrencyConverter, cache_me).
THEOREM RateNeverOld == ServiceSpec => []RateNotOld
  <1>1. ServiceInit => RateInv
    BY PartsStart, RateInitInv
  <1>2. RateInv /\ [ServiceNext]_<<feedsVars, serviceVars>> => RateInv'
    BY PartsStep, RateStepInv
  <1>3. RateInv => RateNotOld
    BY DEF RateInv, RateAges
  <1> QED
    BY <1>1, <1>2, <1>3, PTL DEF ServiceSpec

-----------------------------------------------------------------------------
(* The auditor.  Its counters are what the verdicts since the last success *)
(* add up to; a cause for taking the feed off the air is found when the    *)
(* verdict is given, and is not forgotten until the auditor starts again.  *)

GivenVerdicts == {"HARD", "SUCCESSFUL", "SOFT", "INCOMPLETE", "none"}
Given == [verdict : GivenVerdicts, heard : BOOLEAN]

AuditorRecord ==
  [redis : BOOLEAN, running : BOOLEAN, fetching : BOOLEAN, seen : Int, soft : Nat,
   incomplete : Nat]

AuditorTypes ==
  /\ auditor \in AuditorRecord
  /\ stopping \in Nat /\ flag \in {"none", "go", "stop"}
  /\ evidence \in Seq(Given)

\* The last success is one, and nothing after it is.
SuccessFound(e) ==
  LET m == LastSuccess(e)
  IN  /\ m \in 0..Len(e) /\ (m = 0 \/ e[m].verdict = "SUCCESSFUL")
      /\ \A i \in (m + 1)..Len(e) : e[i].verdict # "SUCCESSFUL"

Counted ==
  /\ SuccessFound(evidence)
  /\ auditor.soft = Since("SOFT", evidence)
  /\ auditor.incomplete = Since("INCOMPLETE", evidence)

Told(e, i) == SubSeq(e, 1, i)
Heard(e) == Cause(e) /\ Last(e).heard /\ Last(e).verdict \in {"HARD", "SOFT"}
OffAir == stopping > 0 \/ ~auditor.running

AuditorInv ==
  /\ AuditorTypes /\ Counted
  /\ OffAir => auditor.redis
  /\ ~auditor.running => flag = "stop"
  /\ OffAir => \E i \in DOMAIN evidence : Cause(Told(evidence, i))
  /\ (\E i \in DOMAIN evidence : Heard(Told(evidence, i))) => OffAir

\* The greatest of numbers of which one is known to be.
LEMMA LastSuccessIs ==
  ASSUME NEW e \in Seq(Given), NEW m \in 0..Len(e),
         m = 0 \/ e[m].verdict = "SUCCESSFUL",
         \A i \in (m + 1)..Len(e) : e[i].verdict # "SUCCESSFUL"
  PROVE  LastSuccess(e) = m /\ SuccessFound(e)
  <1> DEFINE S == {0} \cup {i \in DOMAIN e : e[i].verdict = "SUCCESSFUL"}
  <1>1. DOMAIN e = 1..Len(e) /\ Len(e) \in Nat
    OBVIOUS
  <1>2. S \in SUBSET Int /\ m \in S
    BY <1>1
  <1>3. \A x \in S : x <= m
    BY <1>1
  <1>4. Max(S) = m
    <2> HIDE DEF S
    <2> QED
      BY <1>2, <1>3, MaxIs
  <1>5. LastSuccess(e) = m
    BY <1>4 DEF LastSuccess
  <1> QED
    BY <1>5 DEF SuccessFound

\* Nothing has been said yet.
LEMMA NoneYet ==
  /\ <<>> \in Seq(Given) /\ SuccessFound(<<>>)
  /\ \A v \in {"SOFT", "INCOMPLETE"} : Since(v, <<>>) = 0
  <1> DEFINE e == <<>>
  <1>1. e \in Seq(Given) /\ Len(e) = 0
    OBVIOUS
  <1> HIDE DEF e
  <1>2. LastSuccess(e) = 0 /\ SuccessFound(e)
    <2>1. 0 \in 0..Len(e) /\ 0 = 0 /\ \A i \in (0 + 1)..Len(e) : e[i].verdict # "SUCCESSFUL"
      BY <1>1
    <2> QED
      BY <1>1, <2>1, LastSuccessIs
  <1>3. ASSUME NEW v PROVE Since(v, e) = 0
    <2>1. {i \in (LastSuccess(e) + 1)..Len(e) : e[i].verdict = v} = {}
      BY <1>1, <1>2
    <2> QED
      BY <2>1, FS_EmptySet DEF Since
  <1> QED
    BY <1>1, <1>2, <1>3 DEF e

\* One verdict more.
LEMMA SinceAppend ==
  ASSUME NEW e \in Seq(Given), SuccessFound(e), NEW r \in Given,
         NEW v \in {"SOFT", "INCOMPLETE"}
  PROVE  /\ Append(e, r) \in Seq(Given) /\ SuccessFound(Append(e, r))
         /\ Since(v, e) \in Nat
         /\ Since(v, Append(e, r)) =
              IF r.verdict = "SUCCESSFUL" THEN 0
              ELSE IF r.verdict = v THEN Since(v, e) + 1 ELSE Since(v, e)
  <1> DEFINE s == Append(e, r)
             n == Len(e)
             m == LastSuccess(e)
             After(t, k) == {i \in (k + 1)..Len(t) : t[i].verdict = v}
  <1>1. /\ s \in Seq(Given) /\ Len(s) = n + 1 /\ n \in Nat /\ s[n + 1] = r
        /\ \A i \in 1..n : s[i] = e[i]
    OBVIOUS
  <1>2. /\ m \in 0..n /\ (m = 0 \/ e[m].verdict = "SUCCESSFUL")
        /\ \A i \in (m + 1)..n : e[i].verdict # "SUCCESSFUL"
    BY DEF SuccessFound
  <1> HIDE DEF s, n, m
  <1>3. IsFiniteSet(After(e, m)) /\ Cardinality(After(e, m)) \in Nat
    <2>1. IsFiniteSet((m + 1)..Len(e))
      BY <1>1, <1>2, FS_Interval DEF n
    <2>2. After(e, m) \subseteq (m + 1)..Len(e)
      OBVIOUS
    <2> QED
      BY <2>1, <2>2, FS_Subset, FS_CardinalityType
  <1>4. /\ Since(v, e) = Cardinality(After(e, m))
        /\ Since(v, s) = Cardinality(After(s, LastSuccess(s)))
    BY DEF Since, m
  <1>5. CASE r.verdict = "SUCCESSFUL"
    <2>1. n + 1 \in 0..Len(s) /\ s[n + 1].verdict = "SUCCESSFUL"
          /\ \A i \in (n + 1 + 1)..Len(s) : s[i].verdict # "SUCCESSFUL"
      BY <1>1, <1>5
    <2>2. LastSuccess(s) = n + 1 /\ SuccessFound(s)
      BY <1>1, <2>1, LastSuccessIs
    <2>3. After(s, n + 1) = {}
      BY <1>1
    <2> QED
      BY <1>1, <1>3, <1>4, <1>5, <2>2, <2>3, FS_EmptySet DEF s
  <1>6. CASE r.verdict # "SUCCESSFUL"
    <2>1. /\ m \in 0..Len(s) /\ (m = 0 \/ s[m].verdict = "SUCCESSFUL")
          /\ \A i \in (m + 1)..Len(s) : s[i].verdict # "SUCCESSFUL"
      BY <1>1, <1>2, <1>6
    <2>2. LastSuccess(s) = m /\ SuccessFound(s)
      BY <1>1, <2>1, LastSuccessIs
    <2>3. After(s, m) = IF r.verdict = v THEN After(e, m) \cup {n + 1} ELSE After(e, m)
      BY <1>1, <1>2 DEF n
    <2>4. n + 1 \notin After(e, m)
      BY <1>1 DEF n
    <2>5. Cardinality(After(e, m) \cup {n + 1}) = Cardinality(After(e, m)) + 1
      BY <1>3, <2>4, FS_AddElement
    <2> QED
      BY <1>1, <1>3, <1>4, <1>6, <2>2, <2>3, <2>5 DEF s
  <1> QED
    BY <1>5, <1>6

\* What was told before is told still.
LEMMA ToldAppend ==
  ASSUME NEW e \in Seq(Given), NEW r \in Given
  PROVE  /\ DOMAIN Append(e, r) = DOMAIN e \cup {Len(e) + 1}
         /\ \A i \in DOMAIN e : Told(Append(e, r), i) = Told(e, i)
         /\ Told(Append(e, r), Len(e) + 1) = Append(e, r)
         /\ Last(Append(e, r)) = r
  <1>1. /\ Append(e, r) \in Seq(Given) /\ Len(Append(e, r)) = Len(e) + 1
        /\ Len(e) \in Nat /\ DOMAIN e = 1..Len(e) /\ DOMAIN Append(e, r) = 1..(Len(e) + 1)
    OBVIOUS
  <1>2. ASSUME NEW i \in DOMAIN e PROVE Told(Append(e, r), i) = Told(e, i)
    BY <1>1 DEF Told
  <1>3. Told(Append(e, r), Len(e) + 1) = Append(e, r)
    BY <1>1 DEF Told
  <1>4. Last(Append(e, r)) = r
    BY <1>1 DEF Last
  <1> QED
    BY <1>1, <1>2, <1>3, <1>4

LEMMA ToldAll ==
  ASSUME NEW e \in Seq(Given), e # <<>>
  PROVE  Len(e) \in DOMAIN e /\ Told(e, Len(e)) = e
  BY DEF Told

LEMMA AuditorInitInv == ASSUME AuditorInit PROVE AuditorInv
  <1>1. evidence = <<>> /\ DOMAIN evidence = {}
    BY DEF AuditorInit
  <1>2. AuditorTypes
    BY <1>1 DEF AuditorInit, AuditorTypes, AuditorRecord
  <1>3. Counted
    BY <1>1, NoneYet DEF Counted, AuditorInit
  <1> QED
    BY <1>1, <1>2, <1>3 DEF AuditorInv, AuditorInit, OffAir

\* Steps that leave the verdicts and the counters alone.
LEMMA CountedKept ==
  ASSUME Counted, evidence' = evidence, auditor'.soft = auditor.soft,
         auditor'.incomplete = auditor.incomplete
  PROVE  Counted'
  BY DEF Counted

LEMMA ShouldIsCause ==
  ASSUME AuditorInv, ShouldHardFail
  PROVE  evidence # <<>> /\ Cause(evidence)
  <1> USE AuditorAssumption
  <1>1. Cause(evidence)
    BY DEF ShouldHardFail, AuditorInv, Counted, Cause
  <1>2. CASE evidence = <<>>
    <2>1. \A v \in {"SOFT", "INCOMPLETE"} : Since(v, evidence) = 0
      BY <1>2, NoneYet
    <2> QED
      BY <2>1 DEF ShouldHardFail, AuditorInv, Counted
  <1> QED
    BY <1>1, <1>2

LEMMA StartedInv == ASSUME AuditorInv, Started PROVE AuditorInv'
  <1>1. /\ ~auditor.redis /\ flag' = "go" /\ stopping' = stopping /\ evidence' = evidence
        /\ auditor' = [auditor EXCEPT !.redis = TRUE]
    BY DEF Started
  <1>2. /\ ~OffAir /\ AuditorTypes' /\ auditor'.redis
        /\ auditor'.running = auditor.running /\ auditor'.soft = auditor.soft
        /\ auditor'.incomplete = auditor.incomplete
    BY <1>1 DEF AuditorInv, AuditorTypes, AuditorRecord
  <1>3. Counted'
    BY <1>1, <1>2, CountedKept DEF AuditorInv
  <1> QED
    BY <1>1, <1>2, <1>3 DEF AuditorInv, OffAir

LEMMA PreAuditFailsInv == ASSUME AuditorInv, PreAuditFails PROVE AuditorInv'
  <1>1. /\ auditor.redis /\ ShouldHardFail /\ stopping' = stopping + 1
        /\ auditor' = auditor /\ flag' = flag /\ evidence' = evidence
    BY DEF PreAuditFails, HardFail
  <1>2. AuditorTypes' /\ OffAir'
    BY <1>1 DEF AuditorInv, AuditorTypes, AuditorRecord, OffAir
  <1>3. Counted'
    BY <1>1, CountedKept DEF AuditorInv
  <1>4. \E i \in DOMAIN evidence : Cause(Told(evidence, i))
    BY <1>1, ShouldIsCause, ToldAll DEF AuditorInv, AuditorTypes, AuditorRecord
  <1> QED
    BY <1>1, <1>2, <1>3, <1>4 DEF AuditorInv

LEMMA FetchInv == ASSUME AuditorInv, Fetch PROVE AuditorInv'
  <1>1. /\ auditor' = [auditor EXCEPT !.fetching = TRUE]
        /\ stopping' = stopping /\ flag' = flag /\ evidence' = evidence
    BY DEF Fetch
  <1>2. /\ AuditorTypes' /\ auditor'.redis = auditor.redis
        /\ auditor'.running = auditor.running /\ auditor'.soft = auditor.soft
        /\ auditor'.incomplete = auditor.incomplete
    BY <1>1 DEF AuditorInv, AuditorTypes, AuditorRecord
  <1>3. Counted'
    BY <1>1, <1>2, CountedKept DEF AuditorInv
  <1> QED
    BY <1>1, <1>2, <1>3 DEF AuditorInv, OffAir

LEMMA FetchedInv ==
  ASSUME AuditorInv, NEW t \in {auditor.seen, auditor.seen + 1}, Fetched(t)
  PROVE  AuditorInv'
  <1>1. /\ auditor' = [auditor EXCEPT !.fetching = FALSE, !.seen = Max({@, t})]
        /\ stopping' = stopping /\ flag' = flag /\ evidence' = evidence
    BY DEF Fetched
  <1>2. Max({auditor.seen, t}) \in Int
    <2>1. auditor.seen \in Int /\ t \in Int /\ auditor.seen <= t
      BY DEF AuditorInv, AuditorTypes, AuditorRecord
    <2> QED
      BY <2>1, MaxIs
  <1>3. /\ AuditorTypes' /\ auditor'.redis = auditor.redis
        /\ auditor'.running = auditor.running /\ auditor'.soft = auditor.soft
        /\ auditor'.incomplete = auditor.incomplete
    BY <1>1, <1>2 DEF AuditorInv, AuditorTypes, AuditorRecord
  <1>4. Counted'
    BY <1>1, <1>3, CountedKept DEF AuditorInv
  <1> QED
    BY <1>1, <1>3, <1>4 DEF AuditorInv, OffAir

LEMMA StoppedInv == ASSUME AuditorInv, Stopped PROVE AuditorInv'
  <1>1. /\ stopping > 0 /\ stopping' = stopping - 1 /\ flag' = "stop"
        /\ auditor' = [auditor EXCEPT !.running = FALSE] /\ evidence' = evidence
    BY DEF Stopped
  <1>2. /\ AuditorTypes' /\ auditor'.redis = auditor.redis /\ ~auditor'.running
        /\ auditor'.soft = auditor.soft /\ auditor'.incomplete = auditor.incomplete
    <2>1. auditor \in AuditorRecord /\ stopping \in Nat /\ evidence \in Seq(Given)
      BY DEF AuditorInv, AuditorTypes
    <2>2. /\ auditor' \in AuditorRecord
          /\ auditor'.redis = auditor.redis /\ ~auditor'.running
          /\ auditor'.soft = auditor.soft /\ auditor'.incomplete = auditor.incomplete
      BY <1>1, <2>1 DEF AuditorRecord
    <2> QED
      BY <1>1, <2>1, <2>2 DEF AuditorTypes
  <1>3. Counted'
    BY <1>1, <1>2, CountedKept DEF AuditorInv
  <1>4. OffAir
    BY <1>1 DEF OffAir
  <1> QED
    BY <1>1, <1>2, <1>3, <1>4 DEF AuditorInv, OffAir

LEMMA IncompleteInv == ASSUME AuditorInv, Incomplete PROVE AuditorInv'
  <1> DEFINE r == [verdict |-> "INCOMPLETE", heard |-> FALSE]
  <1>1. /\ auditor' = [auditor EXCEPT !.fetching = FALSE, !.incomplete = @ + 1]
        /\ stopping' = stopping /\ flag' = flag /\ evidence' = Append(evidence, r)
    BY DEF Incomplete
  <1>2. r \in Given /\ evidence \in Seq(Given) /\ SuccessFound(evidence)
    BY DEF Given, GivenVerdicts, AuditorInv, AuditorTypes, Counted
  <1>3. /\ AuditorTypes' /\ auditor'.redis = auditor.redis
        /\ auditor'.running = auditor.running /\ auditor'.soft = auditor.soft
        /\ auditor'.incomplete = auditor.incomplete + 1
    <2>1. /\ auditor \in AuditorRecord /\ stopping \in Nat
          /\ flag \in {"none", "go", "stop"} /\ evidence' \in Seq(Given)
      BY <1>1, <1>2 DEF AuditorInv, AuditorTypes
    <2>2. /\ auditor' \in AuditorRecord /\ auditor'.redis = auditor.redis
          /\ auditor'.running = auditor.running /\ auditor'.soft = auditor.soft
          /\ auditor'.incomplete = auditor.incomplete + 1
      <3> DEFINE n == auditor.incomplete + 1
      <3>1. auditor' = [auditor EXCEPT !.fetching = FALSE, !.incomplete = n]
        BY <1>1
      <3>2. auditor \in AuditorRecord /\ n \in Nat
        BY <2>1 DEF AuditorRecord
      <3> HIDE DEF r, n
      <3>3. /\ auditor' \in AuditorRecord /\ auditor'.redis = auditor.redis
            /\ auditor'.running = auditor.running /\ auditor'.soft = auditor.soft
            /\ auditor'.incomplete = n
        BY <3>1, <3>2 DEF AuditorRecord
      <3> QED
        BY <3>3 DEF n
    <2> QED
      BY <1>1, <2>1, <2>2 DEF AuditorTypes
  <1>4. Counted'
    <2>1. /\ SuccessFound(evidence') /\ Since("SOFT", evidence') = Since("SOFT", evidence)
          /\ Since("INCOMPLETE", evidence') = Since("INCOMPLETE", evidence) + 1
      BY <1>1, <1>2, SinceAppend
    <2> QED
      BY <1>3, <2>1 DEF AuditorInv, Counted
  <1>5. ~Last(evidence').heard
    BY <1>1, <1>2, ToldAppend
  <1>6. /\ OffAir' <=> OffAir
        /\ DOMAIN evidence' = DOMAIN evidence \cup {Len(evidence) + 1}
        /\ \A i \in DOMAIN evidence : Told(evidence', i) = Told(evidence, i)
        /\ Told(evidence', Len(evidence) + 1) = evidence'
    BY <1>1, <1>2, <1>3, ToldAppend DEF OffAir
  <1> QED
    BY <1>1, <1>3, <1>4, <1>5, <1>6 DEF AuditorInv, Heard

LEMMA AuditDoneInv ==
  ASSUME AuditorInv, NEW verdict \in Verdicts, AuditDone(verdict)
  PROVE  AuditorInv'
  <1> DEFINE r == [verdict |-> verdict, heard |-> auditor.redis]
  <1>1. /\ Audited(verdict) /\ flag' = flag /\ evidence' = Append(evidence, r)
        /\ IF Gives(verdict) /\ auditor.redis THEN stopping' = stopping + 1
                                              ELSE stopping' = stopping
    BY DEF AuditDone, HardFail
  <1>2. verdict \in {"HARD", "SUCCESSFUL", "SOFT", "none"}
    BY DEF Verdicts, Verdict
  <1>3. r \in Given /\ evidence \in Seq(Given) /\ SuccessFound(evidence)
    <2>1. auditor.redis \in BOOLEAN
      BY DEF AuditorInv, AuditorTypes, AuditorRecord
    <2> QED
      BY <1>2, <2>1 DEF Given, GivenVerdicts, AuditorInv, AuditorTypes, Counted
  <1>4. /\ auditor' \in AuditorRecord
        /\ auditor'.redis = auditor.redis /\ auditor'.running = auditor.running
        /\ auditor'.soft = (IF verdict = "SUCCESSFUL" THEN 0
                            ELSE IF verdict = "SOFT" THEN auditor.soft + 1 ELSE auditor.soft)
        /\ auditor'.incomplete = (IF verdict = "SUCCESSFUL" THEN 0 ELSE auditor.incomplete)
    <2>1. auditor \in AuditorRecord
      BY DEF AuditorInv, AuditorTypes
    <2>2. CASE verdict = "SOFT"
      <3>1. auditor' = [auditor EXCEPT !.soft = auditor.soft + 1]
        BY <1>1, <2>2 DEF Audited
      <3> QED
        BY <2>1, <2>2, <3>1 DEF AuditorRecord
    <2>3. CASE verdict = "SUCCESSFUL"
      <3>1. auditor' = [auditor EXCEPT !.soft = 0, !.incomplete = 0]
        BY <1>1, <2>3 DEF Audited
      <3> QED
        BY <2>1, <2>3, <3>1 DEF AuditorRecord
    <2>4. CASE verdict \notin {"SOFT", "SUCCESSFUL"}
      <3>1. auditor' = auditor
        BY <1>1, <2>4 DEF Audited
      <3> QED
        BY <2>1, <2>4, <3>1
    <2> QED
      BY <2>2, <2>3, <2>4
  <1>5. AuditorTypes'
    BY <1>1, <1>3, <1>4 DEF AuditorInv, AuditorTypes
  <1>6. Counted'
    <2>1. \A v \in {"SOFT", "INCOMPLETE"} :
            /\ SuccessFound(evidence')
            /\ Since(v, evidence') = IF verdict = "SUCCESSFUL" THEN 0
                                     ELSE IF verdict = v THEN Since(v, evidence) + 1
                                     ELSE Since(v, evidence)
      BY <1>1, <1>3, SinceAppend
    <2> QED
      BY <1>2, <1>4, <2>1 DEF AuditorInv, Counted
  <1>7. Last(evidence') = r /\ evidence'[Len(evidence')] = r
    BY <1>1, <1>3, ToldAppend
  <1>8. /\ DOMAIN evidence' = DOMAIN evidence \cup {Len(evidence) + 1}
        /\ \A i \in DOMAIN evidence : Told(evidence', i) = Told(evidence, i)
        /\ Told(evidence', Len(evidence) + 1) = evidence'
    BY <1>1, <1>3, ToldAppend
  <1>9. Cause(evidence') /\ verdict \in {"HARD", "SOFT"} <=> Gives(verdict)
    <2>1. Cause(evidence') <=> verdict = "HARD" \/ ShouldHardFail'
      BY <1>6, <1>7 DEF Cause, Counted, ShouldHardFail
    <2> QED
      BY <2>1 DEF Gives
  <1>10. Heard(evidence') <=> Gives(verdict) /\ auditor.redis
    BY <1>7, <1>9 DEF Heard
  <1>11. OffAir' <=> OffAir \/ (Gives(verdict) /\ auditor.redis)
    BY <1>1, <1>4 DEF OffAir, AuditorInv, AuditorTypes
  <1>12. OffAir' => \E i \in DOMAIN evidence' : Cause(Told(evidence', i))
    BY <1>8, <1>9, <1>11 DEF AuditorInv
  <1>13. (\E i \in DOMAIN evidence' : Heard(Told(evidence', i))) => OffAir'
    BY <1>8, <1>10, <1>11 DEF AuditorInv
  <1>14. OffAir' => auditor'.redis
    BY <1>4, <1>11 DEF AuditorInv
  <1>15. ~auditor'.running => flag' = "stop"
    BY <1>1, <1>4 DEF AuditorInv
  <1> QED
    BY <1>5, <1>6, <1>12, <1>13, <1>14, <1>15 DEF AuditorInv

LEMMA AuditorStepInv == ASSUME AuditorInv, [AuditorNext]_auditorVars PROVE AuditorInv'
  <1>1. CASE UNCHANGED auditorVars
    BY <1>1 DEF auditorVars, AuditorInv, AuditorTypes, Counted, OffAir
  <1> QED
    BY <1>1, StartedInv, PreAuditFailsInv, FetchInv, IncompleteInv, StoppedInv,
       FetchedInv, AuditDoneInv DEF AuditorNext

\* The feed is off the air only for a cause that the audits gave, and every
\* cause that could be told to Redis takes it off, whatever audits overlap
\* (OrderbookAuditor's audit, pre_audit and hard_fail).
THEOREM StoppedForCause == ServiceSpec => []StopsForCause
  <1>1. ServiceInit => AuditorInv
    BY PartsStart, AuditorInitInv
  <1>2. AuditorInv /\ [ServiceNext]_<<feedsVars, serviceVars>> => AuditorInv'
    BY PartsStep, AuditorStepInv
  <1>3. AuditorInv => StopsForCause
    <2>1. SUFFICES ASSUME AuditorInv PROVE StopsForCause
      OBVIOUS
    <2> DEFINE told == {SubSeq(evidence, 1, i) : i \in DOMAIN evidence}
               over == stopping > 0 \/ (~auditor.running /\ flag = "stop")
    <2>2. over <=> OffAir
      BY <2>1 DEF AuditorInv, OffAir
    <2>3. /\ (\E e \in told : Cause(e)) <=> \E i \in DOMAIN evidence : Cause(Told(evidence, i))
          /\ (\E e \in told : Heard(e)) <=> \E i \in DOMAIN evidence : Heard(Told(evidence, i))
      BY DEF Told
    <2>4. (over => \E e \in told : Cause(e)) /\ ((\E e \in told : Heard(e)) => over)
      BY <2>1, <2>2, <2>3 DEF AuditorInv
    <2> QED
      BY <2>4 DEF StopsForCause, Heard
  <1> QED
    BY <1>1, <1>2, <1>3, PTL DEF ServiceSpec

-----------------------------------------------------------------------------
(* The polled orderbook.  The loop has one request, so what is under way  *)
(* is newer than what the cache holds.                                     *)

BookEntry == [book : Nat, stamp : Nat]

CacheTypes ==
  /\ now \in Nat /\ looping \in BOOLEAN
  /\ cache = NoEntry \/ cache \in BookEntry
  /\ used \in [book : Nat, stamp : Nat, at : Nat]

\* The loop has one request, which is at the exchange or being stored.
OneAtATime ==
  \/ ~looping /\ asking = <<>> /\ storing = <<>>
  \/ looping /\ storing = <<>> /\ \E t \in Nat : asking = <<t>>
  \/ looping /\ asking = <<>> /\ \E e \in BookEntry : storing = <<e>>

\* How old what is under way can be, and that it is newer than the cache.
Ages ==
  /\ \A t \in Nat : asking = <<t>> =>
       /\ t <= now /\ now - t <= MaxWait
       /\ cache # NoEntry => cache.book <= t
  /\ \A e \in BookEntry : storing = <<e>> =>
       /\ e.stamp <= now /\ e.book <= e.stamp /\ e.stamp - e.book <= MaxWait
       /\ cache # NoEntry => cache.book <= e.book
  /\ cache # NoEntry =>
       /\ cache.stamp <= now /\ cache.book <= cache.stamp
       /\ cache.stamp - cache.book <= MaxWait
       /\ used.book <= cache.book
  /\ cache = NoEntry => used.book = 0
  /\ used.at - used.book < MaxAge + MaxWait

CacheInv == CacheTypes /\ OneAtATime /\ Ages

-----------------------------------------------------------------------------
(* Sequences of one element                                                *)

LEMMA OfOne ==
  ASSUME NEW x
  PROVE  /\ <<x>> # <<>> /\ DOMAIN <<x>> = {1} /\ <<x>>[1] = x
         /\ Head(<<x>>) = x /\ Tail(<<x>>) = <<>>
         /\ RemoveAt(<<x>>, 1) = <<>> /\ Append(<<>>, x) = <<x>>
  <1>1. <<x>> \in Seq({x}) /\ Len(<<x>>) = 1
    OBVIOUS
  <1>2. SubSeq(<<x>>, 1, 0) = <<>> /\ SubSeq(<<x>>, 2, 1) = <<>>
    OBVIOUS
  <1>3. RemoveAt(<<x>>, 1) = <<>> \o <<>>
    BY <1>1, <1>2 DEF RemoveAt
  <1>4. <<>> \o <<>> = <<>>
    OBVIOUS
  <1> QED
    BY <1>1, <1>3, <1>4

LEMMA OneIsOne ==
  ASSUME NEW x, NEW y, <<x>> = <<y>>
  PROVE  x = y
  BY <<x>>[1] = x, <<y>>[1] = y

-----------------------------------------------------------------------------
LEMMA CacheInitInv == ASSUME CacheInit PROVE CacheInv
  <1>1. MaxWait \in Nat
    BY CacheAssumption
  <1>2. CacheTypes /\ OneAtATime
    BY DEF CacheInit, CacheTypes, OneAtATime, Unused, NoEntry
  <1>3. Ages
    BY <1>1, OfOne DEF CacheInit, Ages, Unused, NoEntry, MaxAge
  <1> QED
    BY <1>2, <1>3 DEF CacheInv

LEMMA CacheTickInv == ASSUME CacheInv, Tick PROVE CacheInv'
  <1> USE CacheAssumption DEF CacheInv
  <1>1. /\ now' = now + 1 /\ looping' = looping /\ asking' = asking /\ storing' = storing
        /\ cache' = cache /\ used' = used /\ storing = <<>>
        /\ \A i \in DOMAIN asking : now - asking[i] < MaxWait
    BY DEF Tick
  <1>2. CacheTypes' /\ OneAtATime'
    BY <1>1 DEF CacheTypes, OneAtATime
  <1>3. \A t \in Nat : asking = <<t>> => now - t < MaxWait
    BY <1>1, OfOne
  <1>4. Ages'
    BY <1>1, <1>3, OfOne DEF Ages, CacheTypes, BookEntry
  <1> QED
    BY <1>2, <1>4

LEMMA GetRequestInv == ASSUME CacheInv, GetRequest PROVE CacheInv'
  <1> USE CacheAssumption DEF CacheInv
  <1>1. /\ ~looping /\ looping' = TRUE /\ asking' = Append(asking, now)
        /\ now' = now /\ storing' = storing /\ cache' = cache /\ used' = used
    BY DEF GetRequest, Waits
  <1>2. asking = <<>> /\ storing = <<>>
    BY <1>1 DEF OneAtATime
  <1>3. now \in Nat /\ asking' = <<now>> /\ storing' = <<>>
    BY <1>1, <1>2, OfOne DEF CacheTypes
  <1>4. CacheTypes' /\ OneAtATime'
    BY <1>1, <1>3 DEF CacheTypes, OneAtATime
  <1>5. \A t \in Nat : asking' = <<t>> => t = now
    BY <1>3, OneIsOne
  <1>6. \A e \in BookEntry : storing' # <<e>>
    BY <1>3, OfOne
  <1>7. Ages'
    BY <1>1, <1>5, <1>6 DEF Ages, CacheTypes, BookEntry
  <1> QED
    BY <1>4, <1>7

\* What is left when the only request is answered.
LEMMA Answered ==
  ASSUME CacheInv, NEW i \in DOMAIN asking
  PROVE  /\ looping /\ storing = <<>> /\ i = 1 /\ RemoveAt(asking, i) = <<>>
         /\ asking[i] \in Nat /\ asking = <<asking[i]>>
  <1>1. asking # <<>>
    OBVIOUS
  <1>2. PICK t \in Nat : looping /\ storing = <<>> /\ asking = <<t>>
    BY <1>1 DEF CacheInv, OneAtATime
  <1> QED
    BY <1>2, OfOne

LEMMA ParsedInv ==
  ASSUME CacheInv, NEW i \in DOMAIN asking, NEW b \in Nat, BookParsed(i, b)
  PROVE  CacheInv'
  <1> USE CacheAssumption DEF CacheInv
  <1> DEFINE e == [book |-> b, stamp |-> now]
  <1>1. /\ b \in asking[i]..now
        /\ asking' = RemoveAt(asking, i) /\ storing' = Append(storing, e)
        /\ now' = now /\ looping' = looping /\ cache' = cache /\ used' = used
    BY DEF BookParsed
  <1>2. e \in BookEntry /\ e.book = b /\ e.stamp = now
    BY DEF BookEntry, CacheTypes
  <1>3. /\ looping /\ asking' = <<>> /\ storing' = <<e>>
        /\ asking[i] \in Nat /\ asking = <<asking[i]>>
    BY <1>1, Answered, OfOne
  <1>4. CacheTypes' /\ OneAtATime'
    BY <1>1, <1>2, <1>3 DEF CacheTypes, OneAtATime
  <1>5. \A f \in BookEntry : storing' = <<f>> => f = e
    BY <1>3, OneIsOne
  <1>6. \A t \in Nat : asking' # <<t>>
    BY <1>3, OfOne
  <1>7. /\ e.stamp <= now /\ e.book <= e.stamp /\ e.stamp - e.book <= MaxWait
        /\ cache # NoEntry => cache.book <= e.book
    <2>1. /\ asking[i] <= now /\ now - asking[i] <= MaxWait
          /\ cache # NoEntry => cache.book <= asking[i]
      BY <1>3 DEF Ages
    <2> QED
      BY <2>1, <1>1, <1>2, <1>3 DEF CacheTypes, BookEntry
  <1> HIDE DEF e
  <1>8. Ages'
    BY <1>1, <1>5, <1>6, <1>7 DEF Ages
  <1> QED
    BY <1>4, <1>8

LEMMA StoreInv == ASSUME CacheInv, Write PROVE CacheInv'
  <1> USE CacheAssumption DEF CacheInv
  <1>1. /\ storing # <<>> /\ cache' = Head(storing) /\ storing' = Tail(storing)
        /\ looping' = FALSE /\ now' = now /\ asking' = asking /\ used' = used
    BY DEF Write
  <1>2. PICK e \in BookEntry : asking = <<>> /\ storing = <<e>>
    BY <1>1 DEF OneAtATime
  <1>3. cache' = e /\ storing' = <<>> /\ asking' = <<>>
    BY <1>1, <1>2, OfOne
  <1>4. e # NoEntry /\ e.book \in Nat
    BY DEF BookEntry, NoEntry
  <1>5. CacheTypes' /\ OneAtATime'
    BY <1>1, <1>3 DEF CacheTypes, OneAtATime
  <1>6. (\A t \in Nat : asking' # <<t>>) /\ (\A f \in BookEntry : storing' # <<f>>)
    BY <1>3, OfOne
  <1>7. used.book <= e.book
    BY <1>2, <1>4 DEF Ages, CacheTypes, BookEntry
  <1>8. Ages'
    BY <1>1, <1>2, <1>3, <1>4, <1>6, <1>7 DEF Ages
  <1> QED
    BY <1>5, <1>8

LEMMA FailedInv ==
  ASSUME CacheInv, NEW i \in DOMAIN asking, BadResponse(i) \/ NoResponse(i)
  PROVE  CacheInv'
  <1> USE CacheAssumption DEF CacheInv
  <1>1. /\ asking' = RemoveAt(asking, i) /\ looping' = FALSE /\ now' = now
        /\ storing' = storing /\ cache' = cache /\ used' = used
    BY DEF BadResponse, NoResponse
  <1>2. asking' = <<>> /\ storing' = <<>>
    BY <1>1, Answered
  <1>3. CacheTypes' /\ OneAtATime'
    BY <1>1, <1>2 DEF CacheTypes, OneAtATime
  <1>4. (\A t \in Nat : asking' # <<t>>) /\ (\A e \in BookEntry : storing' # <<e>>)
    BY <1>2, OfOne
  <1>5. Ages'
    BY <1>1, <1>4 DEF Ages
  <1> QED
    BY <1>3, <1>5

\* What get_orderbook returns: the entry, which is less than MaxAge old.
LEMMA GetOrderbookUses ==
  ASSUME CacheInv, GetOrderbook
  PROVE  /\ cache \in BookEntry /\ cache # NoEntry
         /\ used' = [book |-> cache.book, stamp |-> cache.stamp, at |-> now]
         /\ now - cache.stamp < MaxAge
         /\ used.book <= cache.book
         /\ now' = now /\ looping' = looping /\ asking' = asking
         /\ storing' = storing /\ cache' = cache
  <1>1. /\ cache # NoEntry /\ ~(now - cache.stamp >= MaxAge)
        /\ used' = [book |-> cache.book, stamp |-> cache.stamp, at |-> now]
        /\ now' = now /\ looping' = looping /\ asking' = asking
        /\ storing' = storing /\ cache' = cache
    BY DEF GetOrderbook, Expired
  <1>2. cache \in BookEntry /\ now \in Nat
    BY <1>1 DEF CacheInv, CacheTypes
  <1>3. used.book <= cache.book
    BY <1>1 DEF CacheInv, Ages
  <1>4. now - cache.stamp < MaxAge
    BY <1>1, <1>2 DEF BookEntry, MaxAge
  <1> QED
    BY <1>1, <1>2, <1>3, <1>4

LEMMA GetOrderbookInv == ASSUME CacheInv, GetOrderbook PROVE CacheInv'
  <1> USE CacheAssumption
  <1>1. /\ cache \in BookEntry /\ cache # NoEntry /\ now - cache.stamp < MaxAge
        /\ used' = [book |-> cache.book, stamp |-> cache.stamp, at |-> now]
        /\ now' = now /\ looping' = looping /\ asking' = asking
        /\ storing' = storing /\ cache' = cache
    BY GetOrderbookUses
  <1>2. CacheTypes' /\ OneAtATime'
    BY <1>1 DEF CacheInv, CacheTypes, OneAtATime, BookEntry
  <1>3. used'.book = cache.book /\ used'.at = now
    BY <1>1
  <1>4. cache.book <= cache.stamp /\ cache.stamp - cache.book <= MaxWait
    BY <1>1 DEF CacheInv, Ages
  <1>5. used'.at - used'.book < MaxAge + MaxWait /\ used'.book <= cache.book
    BY <1>1, <1>3, <1>4 DEF CacheInv, CacheTypes, BookEntry, MaxAge
  <1>6. Ages'
    BY <1>1, <1>5 DEF CacheInv, Ages
  <1> QED
    BY <1>2, <1>6 DEF CacheInv

LEMMA CacheQuietInv == ASSUME CacheInv, UNCHANGED cacheVars PROVE CacheInv'
  BY DEF CacheInv, CacheTypes, OneAtATime, Ages, cacheVars

LEMMA CacheStepInv == ASSUME CacheInv, [CacheNext]_cacheVars PROVE CacheInv'
  <1>1. CASE Tick
    BY <1>1, CacheTickInv
  <1>2. CASE GetRequest
    BY <1>2, GetRequestInv
  <1>3. CASE Write
    BY <1>3, StoreInv
  <1>4. CASE GetOrderbook
    BY <1>4, GetOrderbookInv
  <1>5. ASSUME NEW i \in DOMAIN asking,
               \/ \E b \in 0..MaxTime : BookParsed(i, b)
               \/ BadResponse(i) \/ NoResponse(i)
        PROVE  CacheInv'
    <2>1. ASSUME NEW b \in 0..MaxTime, BookParsed(i, b) PROVE CacheInv'
      <3>1. b \in Nat
        BY CacheAssumption
      <3> QED
        BY <2>1, <3>1, ParsedInv
    <2> QED
      BY <1>5, <2>1, FailedInv
  <1>6. CASE UNCHANGED cacheVars
    BY <1>6, CacheQuietInv
  <1> QED
    BY <1>1, <1>2, <1>3, <1>4, <1>5, <1>6 DEF CacheNext

LEMMA CacheInvAlways == ServiceSpec => []CacheInv
  <1>1. ServiceInit => CacheInv
    BY PartsStart, CacheInitInv
  <1>2. CacheInv /\ [ServiceNext]_<<feedsVars, serviceVars>> => CacheInv'
    BY PartsStep, CacheStepInv
  <1> QED
    BY <1>1, <1>2, PTL DEF ServiceSpec

\* A book from the cache is at most 10 seconds and the time of one answer old
\* (orderbook_age in _get_orderbook_from_cache).
THEOREM UsedIsRecentAlways == ServiceSpec => []UsedIsRecent
  <1>1. CacheInv => UsedIsRecent
    BY DEF CacheInv, Ages, UsedIsRecent
  <1> QED
    BY <1>1, CacheInvAlways, PTL

\* What get_orderbook returns never goes back in time (RequestPoller's
\* LoopingCall).
THEOREM NeverBackwardsAlways == ServiceSpec => NeverBackwards
  <1>1. ASSUME CacheInv, [ServiceNext]_<<feedsVars, serviceVars>>
        PROVE  [used'.book >= used.book]_cacheVars
    <2>1. used.book \in Nat /\ [CacheNext]_cacheVars
      BY <1>1, PartsStep DEF CacheInv, CacheTypes
    <2>2. CASE GetOrderbook
      BY <1>1, <2>1, <2>2, GetOrderbookUses DEF BookEntry
    <2>3. CASE ~GetOrderbook /\ CacheNext
      <3>1. used' = used
        BY <2>3 DEF CacheNext, Tick, GetRequest, Write, BookParsed, BadResponse,
                    NoResponse
      <3> QED
        BY <3>1, <2>1
    <2> QED
      BY <2>1, <2>2, <2>3
  <1> QED
    BY <1>1, CacheInvAlways, PTL DEF ServiceSpec, NeverBackwards

-----------------------------------------------------------------------------
(* The books of price levels.  What the exchange's book is at each change. *)

LevelChange == [level : Levels, volume : {-1, 0, 1}]
LevelBook == [bids : [Levels -> Int], asks : [Levels -> Int]]

\* A bid turns into an ask, or an ask into a bid, by way of nothing.
Follows(v, c) == ~(v > 0 /\ c < 0) /\ ~(v < 0 /\ c > 0)

LegalChanges ==
  /\ changes \in Seq(LevelChange)
  /\ \A j \in 0..(Len(changes) - 1) :
       Follows(VolumeOf(changes[j + 1].level, j), changes[j + 1].volume)

Above(v) == IF v > 0 THEN v ELSE 0

\* The changes of a level up to one of all the changes.
ChangesOf(l, n) == {i \in 1..n : changes[i].level = l}

LEMMA VolumeIs ==
  ASSUME NEW l \in Levels, NEW n \in Nat
  PROVE  VolumeOf(l, n) = IF ChangesOf(l, n) = {} THEN 0
                          ELSE changes[Max(ChangesOf(l, n))].volume
  BY DEF VolumeOf, ChangesOf

LEMMA VolumeNext ==
  ASSUME NEW l \in Levels, changes \in Seq(LevelChange),
         NEW j \in 0..(Len(changes) - 1)
  PROVE  VolumeOf(l, j + 1) = IF changes[j + 1].level = l THEN changes[j + 1].volume
                              ELSE VolumeOf(l, j)
  <1>1. j \in Nat /\ j + 1 \in Nat
    OBVIOUS
  <1>2. CASE changes[j + 1].level = l
    <2>1. /\ j + 1 \in ChangesOf(l, j + 1) /\ ChangesOf(l, j + 1) \in SUBSET Int
          /\ \A x \in ChangesOf(l, j + 1) : x <= j + 1
      BY <1>1, <1>2 DEF ChangesOf
    <2>2. Max(ChangesOf(l, j + 1)) = j + 1
      BY <2>1, MaxIs
    <2> QED
      BY <1>1, <1>2, <2>1, <2>2, VolumeIs
  <1>3. CASE changes[j + 1].level # l
    <2>1. ChangesOf(l, j + 1) = ChangesOf(l, j)
      BY <1>1, <1>3 DEF ChangesOf
    <2> QED
      BY <1>1, <1>3, <2>1, VolumeIs
  <1> QED
    BY <1>2, <1>3

LEMMA VolumeType ==
  ASSUME NEW l \in Levels, changes \in Seq(LevelChange), NEW j \in 0..Len(changes)
  PROVE  VolumeOf(l, j) \in {-1, 0, 1}
  <1>1. CASE ChangesOf(l, j) = {}
    BY <1>1, VolumeIs
  <1>2. CASE ChangesOf(l, j) # {}
    <2>1. ChangesOf(l, j) \in SUBSET (1..j) /\ j \in Nat
      BY DEF ChangesOf
    <2>2. Max(ChangesOf(l, j)) \in ChangesOf(l, j)
      BY <1>2, <2>1, MaxFound
    <2>3. changes[Max(ChangesOf(l, j))] \in LevelChange
      BY <2>1, <2>2
    <2> QED
      BY <1>2, <2>3, VolumeIs DEF LevelChange
  <1> QED
    BY <1>1, <1>2

LEMMA MaxOfTwo ==
  ASSUME NEW v \in Int
  PROVE  Max({0, v}) = Above(v)
  <1>1. {0, v} \in SUBSET Int /\ Above(v) \in {0, v} /\ \A x \in {0, v} : x <= Above(v)
    BY DEF Above
  <1> QED
    BY <1>1, MaxIs

\* The two sides of a level in the exchange's book.
LEMMA BookIs ==
  ASSUME changes \in Seq(LevelChange), NEW j \in 0..Len(changes)
  PROVE  /\ BookAt(j) \in LevelBook
         /\ \A l \in Levels : /\ BookAt(j).bids[l] = Above(VolumeOf(l, j))
                              /\ BookAt(j).asks[l] = Above(-VolumeOf(l, j))
  <1>1. ASSUME NEW l \in Levels
        PROVE  /\ VolumeOf(l, j) \in Int /\ -VolumeOf(l, j) \in Int
               /\ Max({0, VolumeOf(l, j)}) = Above(VolumeOf(l, j))
               /\ Max({0, -VolumeOf(l, j)}) = Above(-VolumeOf(l, j))
               /\ Above(VolumeOf(l, j)) \in Int /\ Above(-VolumeOf(l, j)) \in Int
    <2>1. VolumeOf(l, j) \in Int /\ -VolumeOf(l, j) \in Int
      BY VolumeType
    <2>2. \A v \in Int : Above(v) \in Int
      BY DEF Above
    <2> QED
      BY <2>1, <2>2, MaxOfTwo
  <1>2. BookAt(j) = [bids |-> [l \in Levels |-> Above(VolumeOf(l, j))],
                     asks |-> [l \in Levels |-> Above(-VolumeOf(l, j))]]
    BY <1>1 DEF BookAt
  <1>3. [l \in Levels |-> Above(VolumeOf(l, j))] \in [Levels -> Int]
    BY <1>1
  <1>4. [l \in Levels |-> Above(-VolumeOf(l, j))] \in [Levels -> Int]
    BY <1>1
  <1> QED
    BY <1>2, <1>3, <1>4 DEF LevelBook

\* A book is the exchange's if both sides of all levels are.
LEMMA BookSame ==
  ASSUME changes \in Seq(LevelChange), NEW j \in 0..Len(changes), NEW b \in LevelBook,
         \A l \in Levels : /\ b.bids[l] = Above(VolumeOf(l, j))
                           /\ b.asks[l] = Above(-VolumeOf(l, j))
  PROVE  b = BookAt(j)
  <1>1. /\ BookAt(j) \in LevelBook /\ b.bids \in [Levels -> Int]
        /\ b.asks \in [Levels -> Int] /\ BookAt(j).bids \in [Levels -> Int]
        /\ BookAt(j).asks \in [Levels -> Int]
    BY BookIs DEF LevelBook
  <1>2. \A l \in Levels : b.bids[l] = BookAt(j).bids[l] /\ b.asks[l] = BookAt(j).asks[l]
    BY BookIs
  <1>3. b.bids = BookAt(j).bids /\ b.asks = BookAt(j).asks
    BY <1>1, <1>2
  <1> QED
    BY <1>1, <1>3 DEF LevelBook

\* A change more does not alter what was.
LEMMA VolumesKept ==
  ASSUME changes \in Seq(LevelChange), NEW c \in LevelChange, changes' = Append(changes, c)
  PROVE  /\ changes' \in Seq(LevelChange) /\ Len(changes') = Len(changes) + 1
         /\ changes'[Len(changes) + 1] = c
         /\ \A i \in 1..Len(changes) : changes'[i] = changes[i]
         /\ \A l \in Levels, j \in 0..Len(changes) : VolumeOf(l, j)' = VolumeOf(l, j)
         /\ \A j \in 0..Len(changes) : BookAt(j)' = BookAt(j)
  <1>1. /\ changes' \in Seq(LevelChange) /\ Len(changes') = Len(changes) + 1
        /\ changes'[Len(changes) + 1] = c /\ Len(changes) \in Nat
        /\ \A i \in 1..Len(changes) : changes'[i] = changes[i]
    OBVIOUS
  <1>2. ASSUME NEW l \in Levels, NEW j \in 0..Len(changes)
        PROVE  VolumeOf(l, j)' = VolumeOf(l, j)
    <2>1. ChangesOf(l, j)' = ChangesOf(l, j)
      BY <1>1 DEF ChangesOf
    <2>2. ChangesOf(l, j) \in SUBSET (1..j) /\ j \in Nat
      BY DEF ChangesOf
    <2>3. ChangesOf(l, j) # {} => Max(ChangesOf(l, j)) \in ChangesOf(l, j)
      BY <2>2, MaxFound
    <2>4. VolumeOf(l, j)' = IF ChangesOf(l, j) = {} THEN 0
                            ELSE changes'[Max(ChangesOf(l, j))].volume
      BY <2>1 DEF VolumeOf, ChangesOf
    <2> QED
      BY <1>1, <2>2, <2>3, <2>4, VolumeIs
  <1>3. ASSUME NEW j \in 0..Len(changes) PROVE BookAt(j)' = BookAt(j)
    BY <1>2 DEF BookAt
  <1> QED
    BY <1>1, <1>2, <1>3

-----------------------------------------------------------------------------
(* Working down the backlog.  Messages from before the base may be applied *)
(* again: the book is then, level by level, either still the base or right *)
(* on the side it shows, and where that side is empty on both.  When the   *)
(* messages reach the base, this is the exchange's book.                   *)

\* A level's bid b and ask a where the base is w and the last change was to v.
Between(b, a, w, v) ==
  \/ b = Above(w) /\ a = Above(-w)
  \/ v > 0 /\ b = v /\ a \in {0, Above(-w)}
  \/ v < 0 /\ a = -v /\ b \in {0, Above(w)}
  \/ v = 0 /\ a = 0 /\ b = 0

Stale(b, j, S) ==
  \A l \in S : Between(b.bids[l], b.asks[l], VolumeOf(l, from), VolumeOf(l, j))

\* The levels of S are right in the book b after the change j.
RightAt(b, j, S) ==
  \A l \in S : b.bids[l] = Above(VolumeOf(l, j)) /\ b.asks[l] = Above(-VolumeOf(l, j))

\* The book b of the messages up to the change j, as far as S goes.
Fits(b, j, S) == b \in LevelBook /\ IF j < from THEN Stale(b, j, S) ELSE RightAt(b, j, S)

\* The sides of the levels after a change.
LEMMA ApplySides ==
  ASSUME NEW b \in LevelBook, NEW c \in LevelChange
  PROVE  /\ Apply(b, c) \in LevelBook
         /\ \A l \in Levels :
              /\ Apply(b, c).bids[l] = IF l = c.level /\ c.volume >= 0 THEN c.volume
                                       ELSE b.bids[l]
              /\ Apply(b, c).asks[l] = IF l = c.level /\ c.volume <= 0 THEN -c.volume
                                       ELSE b.asks[l]
  <1> DEFINE v == c.volume
             k == c.level
  <1>1. /\ b.bids \in [Levels -> Int] /\ b.asks \in [Levels -> Int]
        /\ b = [bids |-> b.bids, asks |-> b.asks] /\ k \in Levels /\ v \in {-1, 0, 1}
    BY DEF LevelBook, LevelChange
  <1>2. Apply(b, c) = [bids |-> IF v >= 0 THEN [b.bids EXCEPT ![k] = v] ELSE b.bids,
                       asks |-> IF v <= 0 THEN [b.asks EXCEPT ![k] = -v] ELSE b.asks]
    <2>1. CASE v = 1
      BY <1>1, <2>1 DEF Apply
    <2>2. CASE v = -1
      BY <1>1, <2>2 DEF Apply
    <2>3. CASE v = 0
      <3>1. -v \in Int /\ v + (-v) = 0
        BY <1>1
      <3>2. -v = 0
        <4>1. \A y \in Int : 0 + y = 0 => y = 0
          OBVIOUS
        <4> HIDE DEF v
        <4> QED
          BY <2>3, <3>1, <4>1
      <3>3. Apply(b, c) = [b EXCEPT !.bids[k] = 0, !.asks[k] = 0]
        BY <2>3 DEF Apply
      <3> HIDE DEF v, k
      <3>4. Apply(b, c) = [bids |-> [b.bids EXCEPT ![k] = 0],
                           asks |-> [b.asks EXCEPT ![k] = 0]]
        BY <1>1, <3>3
      <3> QED
        BY <2>3, <3>2, <3>4
    <2> QED
      BY <1>1, <2>1, <2>2, <2>3
  <1> HIDE DEF v, k
  <1>3. /\ Apply(b, c).bids = IF v >= 0 THEN [b.bids EXCEPT ![k] = v] ELSE b.bids
        /\ Apply(b, c).asks = IF v <= 0 THEN [b.asks EXCEPT ![k] = -v] ELSE b.asks
    BY <1>2
  <1>4. Apply(b, c).bids \in [Levels -> Int] /\ Apply(b, c).asks \in [Levels -> Int]
    BY <1>1, <1>3
  <1>5. Apply(b, c) \in LevelBook
    BY <1>2, <1>3, <1>4 DEF LevelBook
  <1> QED
    BY <1>1, <1>3, <1>5 DEF v, k

LEMMA BetweenNext ==
  ASSUME NEW b \in Int, NEW a \in Int, NEW w \in {-1, 0, 1}, NEW v \in {-1, 0, 1},
         Between(b, a, w, v), NEW c \in {-1, 0, 1}, Follows(v, c)
  PROVE  Between(IF c >= 0 THEN c ELSE b, IF c <= 0 THEN -c ELSE a, w, c)
  <1>1. CASE w = 0
    BY <1>1 DEF Between, Follows, Above
  <1>2. CASE w = 1
    BY <1>2 DEF Between, Follows, Above
  <1>3. CASE w = -1
    BY <1>3 DEF Between, Follows, Above
  <1> QED
    BY <1>1, <1>2, <1>3

LEMMA BetweenDone ==
  ASSUME NEW b \in Int, NEW a \in Int, NEW w \in {-1, 0, 1}, Between(b, a, w, w)
  PROVE  b = Above(w) /\ a = Above(-w)
  BY DEF Between, Above

\* A stale book is the base, once the messages have reached it.
LEMMA StaleDone ==
  ASSUME LegalChanges, from \in 0..Len(changes), NEW S \in SUBSET Levels,
         NEW b \in LevelBook, Stale(b, from, S)
  PROVE  RightAt(b, from, S)
  <1>1. ASSUME NEW l \in S
        PROVE  /\ b.bids[l] = Above(VolumeOf(l, from))
               /\ b.asks[l] = Above(-VolumeOf(l, from))
    <2>1. /\ b.bids[l] \in Int /\ b.asks[l] \in Int
          /\ Between(b.bids[l], b.asks[l], VolumeOf(l, from), VolumeOf(l, from))
      BY DEF LevelBook, Stale
    <2>2. VolumeOf(l, from) \in {-1, 0, 1}
      BY VolumeType DEF LegalChanges
    <2> QED
      BY <2>1, <2>2, BetweenDone
  <1> QED
    BY <1>1 DEF RightAt

\* The base itself fits wherever the messages are.
LEMMA BaseFits ==
  ASSUME LegalChanges, from \in 0..Len(changes), NEW j \in 0..from, NEW S \in SUBSET Levels
  PROVE  Fits(BookAt(from), j, S)
  <1>1. BookAt(from) \in LevelBook /\ Stale(BookAt(from), j, S)
    BY BookIs DEF LegalChanges, Stale, Between
  <1>2. j = from => RightAt(BookAt(from), j, S)
    BY BookIs DEF LegalChanges, RightAt
  <1> QED
    BY <1>1, <1>2 DEF Fits

\* What is right is right again after the next change.
LEMMA AppliedRight ==
  ASSUME LegalChanges, NEW j \in 0..(Len(changes) - 1), NEW S \in SUBSET Levels,
         NEW b \in LevelBook, RightAt(b, j, S)
  PROVE  /\ Apply(b, changes[j + 1]) \in LevelBook
         /\ RightAt(Apply(b, changes[j + 1]), j + 1, S)
  <1> DEFINE c == changes[j + 1]
  <1>1. /\ c \in LevelChange /\ c.volume \in {-1, 0, 1} /\ c.level \in Levels
        /\ Follows(VolumeOf(c.level, j), c.volume)
        /\ j + 1 \in 0..Len(changes) /\ j \in 0..Len(changes)
    <2>1. c \in LevelChange /\ Follows(VolumeOf(c.level, j), c.volume)
      BY DEF LegalChanges
    <2> QED
      BY <2>1 DEF LevelChange
  <1>2. \A l \in Levels : VolumeOf(l, j + 1) = IF c.level = l THEN c.volume ELSE VolumeOf(l, j)
    BY VolumeNext DEF LegalChanges
  <1>3. \A l \in S : /\ b.bids[l] = Above(VolumeOf(l, j))
                      /\ b.asks[l] = Above(-VolumeOf(l, j))
    BY DEF RightAt
  <1> HIDE DEF c
  <1>4. /\ Apply(b, c) \in LevelBook
        /\ \A l \in Levels :
             /\ Apply(b, c).bids[l] = IF l = c.level /\ c.volume >= 0 THEN c.volume
                                      ELSE b.bids[l]
             /\ Apply(b, c).asks[l] = IF l = c.level /\ c.volume <= 0 THEN -c.volume
                                      ELSE b.asks[l]
    BY <1>1, ApplySides
  <1>5. ASSUME NEW l \in S
        PROVE  /\ Apply(b, c).bids[l] = Above(VolumeOf(l, j + 1))
               /\ Apply(b, c).asks[l] = Above(-VolumeOf(l, j + 1))
    <2>1. CASE l # c.level
      BY <1>2, <1>3, <1>4, <2>1
    <2>2. CASE l = c.level
      <3>1. VolumeOf(l, j) \in {-1, 0, 1} /\ VolumeOf(l, j + 1) = c.volume
        BY <1>1, <1>2, <2>2, VolumeType DEF LegalChanges
      <3> QED
        BY <1>1, <1>3, <1>4, <2>2, <3>1 DEF Above, Follows
    <2> QED
      BY <2>1, <2>2
  <1> QED
    BY <1>4, <1>5 DEF RightAt, c

\* The exchange's book is again that after the next change.
LEMMA AppliedIs ==
  ASSUME LegalChanges, NEW j \in 0..(Len(changes) - 1)
  PROVE  Apply(BookAt(j), changes[j + 1]) = BookAt(j + 1)
  <1>1. BookAt(j) \in LevelBook /\ RightAt(BookAt(j), j, Levels)
    BY BookIs DEF LegalChanges, RightAt
  <1>2. /\ Apply(BookAt(j), changes[j + 1]) \in LevelBook
        /\ RightAt(Apply(BookAt(j), changes[j + 1]), j + 1, Levels)
    BY <1>1, AppliedRight
  <1>3. j + 1 \in 0..Len(changes) /\ changes \in Seq(LevelChange)
    BY DEF LegalChanges
  <1> QED
    BY <1>2, <1>3, BookSame DEF RightAt

\* The next message.
LEMMA FitsNext ==
  ASSUME LegalChanges, from \in 0..Len(changes), NEW j \in 0..(Len(changes) - 1),
         NEW b, NEW S \in SUBSET Levels, Fits(b, j, S)
  PROVE  Fits(Apply(b, changes[j + 1]), j + 1, S)
  <1> DEFINE c == changes[j + 1]
  <1>1. /\ c \in LevelChange /\ c.volume \in {-1, 0, 1} /\ c.level \in Levels
        /\ Follows(VolumeOf(c.level, j), c.volume)
        /\ b \in LevelBook /\ j \in Int
    <2>1. c \in LevelChange /\ Follows(VolumeOf(c.level, j), c.volume)
      BY DEF LegalChanges
    <2>2. c.volume \in {-1, 0, 1} /\ c.level \in Levels
      BY <2>1 DEF LevelChange
    <2>3. b \in LevelBook
      BY DEF Fits
    <2> QED
      BY <2>1, <2>2, <2>3
  <1>2. \A l \in Levels : VolumeOf(l, j + 1) = IF c.level = l THEN c.volume ELSE VolumeOf(l, j)
    BY VolumeNext DEF LegalChanges
  <1> HIDE DEF c
  <1>3. /\ Apply(b, c) \in LevelBook
        /\ \A l \in Levels :
             /\ Apply(b, c).bids[l] = IF l = c.level /\ c.volume >= 0 THEN c.volume
                                      ELSE b.bids[l]
             /\ Apply(b, c).asks[l] = IF l = c.level /\ c.volume <= 0 THEN -c.volume
                                      ELSE b.asks[l]
    BY <1>1, ApplySides
  <1>4. CASE j < from
    <2>1. ASSUME NEW l \in S
          PROVE  Between(Apply(b, c).bids[l], Apply(b, c).asks[l],
                         VolumeOf(l, from), VolumeOf(l, j + 1))
      <3>1. /\ Between(b.bids[l], b.asks[l], VolumeOf(l, from), VolumeOf(l, j))
            /\ b.bids[l] \in Int /\ b.asks[l] \in Int
        BY <1>1, <1>4 DEF Fits, Stale, LevelBook
      <3>2. CASE l # c.level
        BY <1>2, <1>3, <3>1, <3>2
      <3>3. CASE l = c.level
        <4> DEFINE w == VolumeOf(l, from)
                   v == VolumeOf(l, j)
                   d == c.volume
                   p == b.bids[l]
                   q == b.asks[l]
        <4>1. w \in {-1, 0, 1} /\ v \in {-1, 0, 1} /\ d \in {-1, 0, 1} /\ Follows(v, d)
          BY <1>1, <3>3, VolumeType DEF LegalChanges
        <4>2. /\ Apply(b, c).bids[l] = (IF d >= 0 THEN d ELSE p)
              /\ Apply(b, c).asks[l] = (IF d <= 0 THEN -d ELSE q)
              /\ VolumeOf(l, j + 1) = d
          BY <1>2, <1>3, <3>3
        <4>3. Between(p, q, w, v) /\ p \in Int /\ q \in Int
          BY <3>1
        <4> HIDE DEF w, v, d, p, q
        <4>4. Between(IF d >= 0 THEN d ELSE p, IF d <= 0 THEN -d ELSE q, w, d)
          BY <4>1, <4>3, BetweenNext
        <4> QED
          BY <4>2, <4>4 DEF w
      <3> QED
        BY <3>2, <3>3
    <2>2. Stale(Apply(b, c), j + 1, S)
      BY <2>1 DEF Stale
    <2>3. CASE j + 1 < from
      BY <1>3, <2>2, <2>3 DEF Fits, c
    <2>4. CASE j + 1 = from
      BY <1>1, <1>3, <2>2, <2>4, StaleDone DEF Fits, c
    <2> QED
      BY <1>1, <1>4, <2>3, <2>4
  <1>5. CASE ~(j < from)
    <2>1. RightAt(b, j, S)
      BY <1>5 DEF Fits
    <2>2. RightAt(Apply(b, c), j + 1, S)
      BY <1>1, <2>1, AppliedRight DEF c
    <2>3. ~(j + 1 < from)
      BY <1>1, <1>5
    <2> QED
      BY <1>3, <2>2, <2>3 DEF Fits, c
  <1> QED
    BY <1>4, <1>5

-----------------------------------------------------------------------------
(* The fold over the backlog, message by message.                          *)

TimedMessage == [at : Nat, n : Nat]

\* g is the fold of Replay over the sets of indices of s, as FoldLeft takes it.
Replays(g, s, D) ==
  g = [T \in D |-> IF T = {} THEN levels ELSE Replay(g[T \ {Max(T)}], s[Max(T)])]

ReplayOf(s, D) == CHOOSE g : Replays(g, s, D)

LEMMA WorkedIs ==
  ASSUME NEW s
  PROVE  Worked(s) = ReplayOf(s, SUBSET (DOMAIN s))[DOMAIN s]
  BY DEF Worked, FoldLeft, MapThenFoldSet, ReplayOf, Replays

Replayable(s, n) == \E g : Replays(g, s, SUBSET (1..n))

LEMMA ReplayZero ==
  ASSUME NEW s
  PROVE  Replayable(s, 0)
  <1> DEFINE g == [T \in SUBSET (1..0) |-> levels]
  <1>1. \A T \in SUBSET (1..0) : T = {}
    OBVIOUS
  <1>2. g = [T \in SUBSET (1..0) |->
               IF T = {} THEN levels ELSE Replay(g[T \ {Max(T)}], s[Max(T)])]
    BY <1>1
  <1> QED
    BY <1>2 DEF Replayable, Replays

LEMMA ReplayMore ==
  ASSUME NEW s, NEW n \in Nat, Replayable(s, n)
  PROVE  Replayable(s, n + 1)
  <1>1. PICK g : Replays(g, s, SUBSET (1..n))
    BY DEF Replayable
  <1> DEFINE next(f, T) == Replay(f[T \ {Max(T)}], s[Max(T)])
             h == [T \in SUBSET (1..(n + 1)) |-> IF T = {} THEN levels ELSE next(g, T)]
  <1>2. ASSUME NEW T \in SUBSET (1..(n + 1)), T # {}
        PROVE  T \ {Max(T)} \in SUBSET (1..n)
    <2>1. n + 1 \in Nat
      OBVIOUS
    <2>2. Max(T) \in T /\ \A x \in T : x <= Max(T)
      BY <1>2, <2>1, MaxFound
    <2>3. ASSUME NEW x \in T, x # Max(T) PROVE x \in 1..n
      <3>1. x \in 1..(n + 1) /\ Max(T) \in 1..(n + 1) /\ x <= Max(T)
        BY <2>2
      <3> QED
        BY <2>3, <3>1
    <2> QED
      BY <2>3
  <1>3. ASSUME NEW T \in SUBSET (1..n) PROVE T \in SUBSET (1..(n + 1)) /\ h[T] = g[T]
    <2>1. T \in SUBSET (1..(n + 1))
      OBVIOUS
    <2>2. g[T] = IF T = {} THEN levels ELSE next(g, T)
      BY <1>1 DEF Replays
    <2> QED
      BY <2>1, <2>2
  <1>4. ASSUME NEW T \in SUBSET (1..(n + 1))
        PROVE  h[T] = IF T = {} THEN levels ELSE next(h, T)
    <2>1. CASE T = {}
      BY <2>1
    <2>2. CASE T # {}
      BY <1>2, <1>3, <2>2
    <2> QED
      BY <2>1, <2>2
  <1>5. h = [T \in SUBSET (1..(n + 1)) |-> IF T = {} THEN levels ELSE next(h, T)]
    <2>1. h = [T \in SUBSET (1..(n + 1)) |-> h[T]]
      OBVIOUS
    <2> HIDE DEF h
    <2> QED
      BY <1>4, <2>1
  <1> HIDE DEF h
  <1> QED
    BY <1>5 DEF Replayable, Replays

LEMMA ReplayExists ==
  ASSUME NEW s, NEW n \in Nat
  PROVE  Replayable(s, n)
  <1> DEFINE bad == {m \in Nat : ~Replayable(s, m)}
  <1>1. SUFFICES ASSUME bad # {} PROVE FALSE
    OBVIOUS
  <1>2. PICK m \in bad : \A k \in bad : m <= k
    BY <1>1, LeastNumber
  <1>3. m # 0
    BY ReplayZero
  <1>4. m - 1 \in Nat /\ Replayable(s, m - 1)
    BY <1>2, <1>3
  <1>5. Replayable(s, (m - 1) + 1)
    BY <1>4, ReplayMore
  <1> QED
    BY <1>2, <1>5

\* The book after the first k messages of s.
After(s, k) == ReplayOf(s, SUBSET (1..Len(s)))[1..k]

LEMMA AfterNext ==
  ASSUME NEW s \in Seq(TimedMessage)
  PROVE  /\ After(s, 0) = levels
         /\ \A k \in 1..Len(s) : After(s, k) = Replay(After(s, k - 1), s[k])
         /\ Worked(s) = After(s, Len(s))
  <1> DEFINE n == Len(s)
             g == ReplayOf(s, SUBSET (1..n))
  <1>1. n \in Nat /\ DOMAIN s = 1..n
    OBVIOUS
  <1>2. Replays(g, s, SUBSET (1..n))
    BY <1>1, ReplayExists DEF Replayable, ReplayOf
  <1>3. \A T \in SUBSET (1..n) :
          g[T] = IF T = {} THEN levels ELSE Replay(g[T \ {Max(T)}], s[Max(T)])
    BY <1>2 DEF Replays
  <1> HIDE DEF g
  <1>4. After(s, 0) = levels
    <2>1. 1..0 = {} /\ 1..0 \in SUBSET (1..n)
      BY <1>1
    <2> QED
      BY <1>3, <2>1 DEF After, g
  <1>5. ASSUME NEW k \in 1..n PROVE After(s, k) = Replay(After(s, k - 1), s[k])
    <2>1. 1..k \in SUBSET Int /\ k \in 1..k /\ \A x \in 1..k : x <= k
      OBVIOUS
    <2>2. Max(1..k) = k
      BY <2>1, MaxIs
    <2>3. 1..k \in SUBSET (1..n) /\ 1..k # {} /\ (1..k) \ {k} = 1..(k - 1)
      <3> HIDE DEF n
      <3>1. (1..k) \ {k} = 1..(k - 1)
        BY <1>1
      <3>2. 1..k \in SUBSET (1..n) /\ k \in 1..k
        BY <1>1
      <3> QED
        BY <3>1, <3>2
    <2>4. g[1..k] = Replay(g[1..(k - 1)], s[k])
      BY <1>3, <2>2, <2>3
    <2> QED
      BY <2>4 DEF After, g
  <1>6. Worked(s) = After(s, n)
    BY <1>1, WorkedIs DEF After
  <1> QED
    BY <1>4, <1>5, <1>6

\* Messages one after the other, of which the first are from before the base.
Backlogged(s) ==
  /\ s \in Seq(TimedMessage) /\ s # <<>>
  /\ \A i \in 1..Len(s) : s[i].n \in 1..Len(changes) /\ s[i].n = s[1].n + i - 1
  /\ \A i, j \in 1..Len(s) : i <= j => s[i].at <= s[j].at
  /\ ~Newer(s[1])

\* The base after messages that were taken for older: what they changed after it,
\* and what was changed before they came, are the levels passed over.
LEMMA PassedBy ==
  ASSUME LegalChanges, from \in 0..Len(changes), NEW s \in Seq(TimedMessage),
         NEW i \in 1..Len(s), ~Newer(s[i]), s[i].n \in 1..Len(changes),
         NEW S \in SUBSET Levels, S \cap Skipped(s) = {}
  PROVE  Fits(BookAt(from), s[i].n, S)
  <1> DEFINE j == s[i].n
  <1>1. CASE j <= from
    <2>1. j \in 0..from
      BY <1>1
    <2> QED
      BY <2>1, BaseFits
  <1>2. CASE ~(j <= from)
    <2>1. \A k \in 1..Len(changes) : from < k /\ k <= j => changes[k].level \notin S
      <3>1. SUFFICES ASSUME NEW k \in 1..Len(changes), from < k, k <= j
                     PROVE  changes[k].level \in Skipped(s)
        OBVIOUS
      <3>2. s[i] \in ToSet(s)
        BY DEF ToSet
      <3>3. k \in DOMAIN changes
        BY DEF LegalChanges
      <3> QED
        BY <3>1, <3>2, <3>3 DEF Skipped
    <2>2. ASSUME NEW l \in S PROVE VolumeOf(l, j) = VolumeOf(l, from)
      <3>1. Len(changes) \in Nat /\ from \in Int /\ j \in Int
        BY DEF LegalChanges
      <3>2. {m \in 1..j : changes[m].level = l} = {m \in 1..from : changes[m].level = l}
        <4> HIDE DEF j
        <4>1. \A m \in 1..j : changes[m].level = l => m \in 1..from
          <5>1. SUFFICES ASSUME NEW m \in 1..j, changes[m].level = l, ~(m <= from)
                         PROVE  FALSE
            BY <3>1
          <5>2. m \in 1..Len(changes)
            BY <3>1 DEF j
          <5> QED
            BY <2>1, <3>1, <5>1, <5>2
        <4>2. \A m \in 1..from : m \in 1..j
          BY <1>2, <3>1
        <4> QED
          BY <4>1, <4>2
      <3> QED
        BY <3>2 DEF VolumeOf
    <2>3. RightAt(BookAt(from), j, S)
      <3>1. \A l \in Levels : /\ BookAt(from).bids[l] = Above(VolumeOf(l, from))
                               /\ BookAt(from).asks[l] = Above(-VolumeOf(l, from))
        BY BookIs DEF LegalChanges
      <3> QED
        BY <2>2, <3>1 DEF RightAt
    <2>4. BookAt(from) \in LevelBook /\ ~(j < from)
      BY <1>2, BookIs DEF LegalChanges
    <2> QED
      BY <2>3, <2>4 DEF Fits
  <1> QED
    BY <1>1, <1>2

LEMMA WorkedFits ==
  ASSUME LegalChanges, from \in 0..Len(changes), levels = BookAt(from),
         feed.base \in Int, NEW s, Backlogged(s),
         NEW S \in SUBSET Levels, S \cap Skipped(s) = {}
  PROVE  Fits(Worked(s), s[Len(s)].n, S)
  <1> DEFINE n == Len(s)
             Good(k) == IF Newer(s[k]) THEN Fits(After(s, k), s[k].n, S)
                                       ELSE After(s, k) = BookAt(from)
             bad == {k \in 1..n : ~Good(k)}
  <1>1. s \in Seq(TimedMessage) /\ n \in Nat \ {0} /\ \A i \in 1..n : s[i] \in TimedMessage
    BY DEF Backlogged
  <1>2. ASSUME NEW k \in 1..n, k > 1 => Good(k - 1) PROVE Good(k)
    <2>1. After(s, k) = IF Newer(s[k]) THEN Apply(After(s, k - 1), changes[s[k].n])
                        ELSE After(s, k - 1)
      BY <1>1, AfterNext DEF Replay
    <2>2. CASE k = 1
      <3>1. ~Newer(s[1]) /\ k - 1 = 0
        BY <2>2 DEF Backlogged
      <3> QED
        BY <1>1, <2>1, <2>2, <3>1, AfterNext
    <2>3. CASE k > 1 /\ ~Newer(s[k])
      <3>1. ~Newer(s[k - 1])
        <4>1. k - 1 \in 1..n /\ s[k - 1].at <= s[k].at
          BY <1>1, <2>3 DEF Backlogged
        <4>2. s[k].at \in Int /\ s[k - 1].at \in Int
          <5>1. s[k] \in TimedMessage /\ s[k - 1] \in TimedMessage
            BY <1>1, <4>1
          <5> QED
            BY <5>1 DEF TimedMessage
        <4> QED
          BY <2>3, <4>1, <4>2 DEF Newer
      <3> QED
        BY <1>2, <2>1, <2>3, <3>1
    <2>4. CASE k > 1 /\ Newer(s[k])
      <3> DEFINE j == s[k - 1].n
      <3>1. k - 1 \in 1..n /\ j \in 1..Len(changes) /\ s[k].n = j + 1 /\ j + 1 \in 1..Len(changes)
        <4>1. k - 1 \in 1..n /\ k \in 1..n
          BY <1>1, <2>4
        <4>2. /\ s[k - 1].n \in 1..Len(changes) /\ s[k - 1].n = s[1].n + (k - 1) - 1
              /\ s[k].n \in 1..Len(changes) /\ s[k].n = s[1].n + k - 1
          BY <4>1 DEF Backlogged
        <4>3. s[1].n \in 1..Len(changes)
          BY <1>1 DEF Backlogged
        <4> HIDE DEF n
        <4> QED
          BY <4>1, <4>2, <4>3
      <3>2. Fits(After(s, k - 1), j, S)
        <4>1. CASE Newer(s[k - 1])
          BY <1>2, <2>4, <4>1
        <4>2. CASE ~Newer(s[k - 1])
          <5>1. After(s, k - 1) = BookAt(from)
            BY <1>2, <2>4, <3>1, <4>2
          <5>2. Fits(BookAt(from), j, S)
            BY <1>1, <3>1, <4>2, PassedBy
          <5> QED
            BY <5>1, <5>2
        <4> QED
          BY <4>1, <4>2
      <3> HIDE DEF j
      <3>3. Fits(Apply(After(s, k - 1), changes[j + 1]), j + 1, S)
        BY <3>1, <3>2, FitsNext
      <3> QED
        BY <2>1, <2>4, <3>1, <3>3
    <2> QED
      BY <1>1, <2>2, <2>3, <2>4
  <1>3. bad = {}
    <2>1. SUFFICES ASSUME bad # {} PROVE FALSE
      OBVIOUS
    <2>2. bad \subseteq Nat
      OBVIOUS
    <2>3. PICK k \in bad : \A i \in bad : k <= i
      <3> HIDE DEF bad
      <3> QED
        BY <2>1, <2>2, LeastNumber
    <2>4. k \in 1..n /\ ~Good(k)
      OBVIOUS
    <2>5. k > 1 => Good(k - 1)
      <3>1. SUFFICES ASSUME k > 1, ~Good(k - 1) PROVE FALSE
        OBVIOUS
      <3>2. k - 1 \in 1..n
        BY <2>4, <3>1
      <3>3. k - 1 \in bad
        BY <3>1, <3>2
      <3> QED
        BY <2>3, <2>4, <3>3
    <2> QED
      BY <1>2, <2>4, <2>5
  <1>4. Good(n) /\ n \in 1..n
    BY <1>1, <1>3
  <1>5. Worked(s) = After(s, n) /\ s[n].n \in 1..Len(changes)
    BY <1>1, <1>4, AfterNext DEF Backlogged
  <1>6. CASE Newer(s[n])
    BY <1>4, <1>5, <1>6
  <1>7. CASE ~Newer(s[n])
    BY <1>1, <1>4, <1>5, <1>7, PassedBy
  <1> QED
    BY <1>6, <1>7

-----------------------------------------------------------------------------
(* What is under way, as long as no message was dropped.                   *)

Listening == IF venue = "bitfinex" THEN levels # NoLevels ELSE feed.first # -1

\* The messages on their way are those of the last changes.
Streaming ==
  /\ stream \in Seq([base : BOOLEAN, n : Nat])
  /\ \A i \in 1..Len(stream) :
       /\ stream[i].n = Len(changes) - Len(stream) + i
       /\ ~stream[i].base => stream[i].n > 0
       /\ venue = "bitstamp" => ~stream[i].base
  /\ ~subscribed => stream = <<>> /\ ~Listening
  /\ Listening => position = Len(changes) - Len(stream)

FeedRecord ==
  [first : Int, count : Nat, backlog : Seq(TimedMessage), base : Int]

\* Those in the backlog came before these, in the order of time.
InBacklog ==
  /\ feed \in FeedRecord
  /\ \A i \in 1..Len(feed.backlog) :
       /\ feed.backlog[i].n = position - Len(feed.backlog) + i
       /\ feed.backlog[i].n > 0 /\ feed.backlog[i].at <= ticks
  /\ \A i, j \in 1..Len(feed.backlog) : i <= j => feed.backlog[i].at <= feed.backlog[j].at
  /\ feed.backlog # <<>> => feed.first = feed.backlog[1].at

\* Those handled before the base was made are of changes in the base.
Requested ==
  /\ request \in [state : {"asked", "made", "no"}, at : Nat, n : Nat]
  /\ request.at \in 0..ticks /\ request.n \in 0..Len(changes)
  /\ request.state # "asked" =>
       \A i \in 1..Len(feed.backlog) :
         feed.backlog[i].at < request.at => feed.backlog[i].n <= request.n

Based ==
  /\ from = request.n /\ feed.base = BaseTime /\ feed.first # -1
  /\ feed.backlog # <<>> =>
       feed.base > feed.first /\ levels = BookAt(from) /\ passedOver = {}
  /\ feed.backlog = <<>> => Fits(levels, position, Levels \ passedOver)

Timed ==
  /\ InBacklog /\ Requested
  /\ passedOver # {} => skew > 0
  /\ levels = NoLevels <=> request.state # "no"
  /\ levels = NoLevels => passedOver = {} /\ (feed.first # -1 => feed.backlog # <<>>)
  /\ levels # NoLevels => Based

Undropped ==
  /\ ticks \in Nat /\ skew \in Int /\ position \in 0..Len(changes) /\ from \in 0..Len(changes)
  /\ LegalChanges /\ Streaming
  /\ venue = "bitfinex" =>
       /\ request.state = "no" /\ passedOver = {}
       /\ levels # NoLevels => levels = BookAt(position)
  /\ venue = "bitstamp" => Timed

LevelInv == venue \in {"bitstamp", "bitfinex"} /\ (~dumped => Undropped)

LEMMA BooksSame ==
  ASSUME changes' = changes, from' = from
  PROVE  /\ LegalChanges' <=> LegalChanges
         /\ \A j : BookAt(j)' = BookAt(j)
         /\ \A b, j, S : Fits(b, j, S)' <=> Fits(b, j, S)
  <1>1. \A l, j : VolumeOf(l, j)' = VolumeOf(l, j)
    BY DEF VolumeOf
  <1>2. \A j : BookAt(j)' = BookAt(j)
    BY <1>1 DEF BookAt
  <1>3. \A b, j, S : (Stale(b, j, S)' <=> Stale(b, j, S)) /\ (RightAt(b, j, S)' <=> RightAt(b, j, S))
    BY <1>1 DEF Stale, RightAt
  <1>4. \A b, j, S : Fits(b, j, S)' <=> Fits(b, j, S)
    BY <1>3 DEF Fits
  <1>5. LegalChanges' <=> LegalChanges
    BY <1>1 DEF LegalChanges
  <1> QED
    BY <1>2, <1>4, <1>5

LEMMA BacklogTypes ==
  ASSUME InBacklog
  PROVE  /\ feed.backlog \in Seq(TimedMessage) /\ Len(feed.backlog) \in Nat
         /\ \A i \in 1..Len(feed.backlog) : feed.backlog[i].at \in Nat /\ feed.backlog[i].n \in Nat
  <1> DEFINE s == feed.backlog
  <1>1. s \in Seq(TimedMessage)
    BY DEF InBacklog, FeedRecord
  <1> HIDE DEF s
  <1>2. Len(s) \in Nat /\ \A i \in 1..Len(s) : s[i] \in TimedMessage
    BY <1>1
  <1> QED
    BY <1>1, <1>2 DEF s, TimedMessage

LEMMA LevelInitInv == ASSUME LevelInit PROVE LevelInv
  <1>1. /\ venue \in {"bitstamp", "bitfinex"} /\ ticks = 0 /\ changes = <<>>
        /\ ~subscribed /\ stream = <<>> /\ feed = Idle /\ levels = NoLevels
        /\ request = [state |-> IF venue = "bitstamp" THEN "asked" ELSE "no",
                      at |-> 0, n |-> 0]
        /\ position = 0 /\ from = 0 /\ passedOver = {} /\ skew \in Int
    <2>1. -MaxSkew..MaxSkew \subseteq Int
      BY LevelAssumption
    <2> QED
      BY <2>1 DEF LevelInit
  <1>2. Len(changes) = 0 /\ LegalChanges
    BY <1>1 DEF LegalChanges
  <1>3. Len(stream) = 0 /\ Streaming
    BY <1>1, <1>2 DEF Streaming, Listening, Idle
  <1>4. /\ feed.backlog = <<>> /\ Len(feed.backlog) = 0 /\ feed.first = -1
        /\ feed \in FeedRecord
    BY <1>1 DEF Idle, FeedRecord
  <1>5. InBacklog
    BY <1>4 DEF InBacklog
  <1>6. Requested
    BY <1>1, <1>2, <1>4 DEF Requested
  <1>7. venue = "bitstamp" => Timed
    BY <1>1, <1>4, <1>5, <1>6 DEF Timed
  <1> QED
    BY <1>1, <1>2, <1>3, <1>7 DEF LevelInv, Undropped

LEMMA PassesInv == ASSUME Undropped, Passes PROVE Undropped'
  <1>1. /\ ticks' = ticks + 1 /\ venue' = venue /\ changes' = changes
        /\ subscribed' = subscribed /\ stream' = stream /\ feed' = feed
        /\ levels' = levels /\ request' = request /\ position' = position /\ from' = from
        /\ skew' = skew /\ passedOver' = passedOver
    BY DEF Passes
  <1>2. Streaming' /\ LegalChanges'
    BY <1>1, BooksSame DEF Undropped, Streaming, Listening
  <1>3. venue = "bitstamp" => Timed'
    <2>1. SUFFICES ASSUME Timed PROVE Timed'
      BY DEF Undropped
    <2>2. InBacklog'
      <3>1. InBacklog /\ ticks \in Nat
        BY <2>1 DEF Undropped, Timed
      <3>2. \A i \in 1..Len(feed.backlog) :
              feed.backlog[i].at \in Nat /\ feed.backlog[i].at <= ticks
        BY <3>1, BacklogTypes DEF InBacklog
      <3>3. \A i \in 1..Len(feed.backlog) : feed.backlog[i].at <= ticks + 1
        BY <3>1, <3>2
      <3> QED
        BY <1>1, <3>1, <3>3 DEF InBacklog
    <2>3. Requested'
      BY <1>1, <2>1 DEF Undropped, Timed, Requested
    <2>4. Based => Based'
      BY <1>1, BooksSame DEF Based, BaseTime
    <2> QED
      BY <1>1, <2>1, <2>2, <2>3, <2>4 DEF Timed
  <1> QED
    BY <1>1, <1>2, <1>3, BooksSame DEF Undropped

\* Nothing of it changes.
LEMMA UndroppedKept ==
  ASSUME Undropped, UNCHANGED <<venue, ticks, skew, changes, subscribed, stream, feed,
                                levels, request, position, from, passedOver>>
  PROVE  Undropped'
  <1>1. Streaming' /\ LegalChanges'
    BY BooksSame DEF Undropped, Streaming, Listening
  <1>2. Timed => Timed'
    BY BooksSame DEF Timed, InBacklog, Requested, Based, BaseTime
  <1> QED
    BY <1>1, <1>2, BooksSame DEF Undropped

LEMMA SubscriptionInv ==
  ASSUME Undropped, venue \in {"bitstamp", "bitfinex"}, Subscription
  PROVE  Undropped'
  <1>1. /\ ~subscribed /\ subscribed'
        /\ stream' = IF venue = "bitfinex" THEN <<[base |-> TRUE, n |-> Len(changes)]>> ELSE <<>>
        /\ ticks' = ticks /\ venue' = venue /\ changes' = changes /\ feed' = feed
        /\ levels' = levels /\ request' = request /\ position' = position /\ from' = from
        /\ skew' = skew /\ passedOver' = passedOver
    BY DEF Subscription
  <1>2. Len(changes) \in Nat /\ ~Listening /\ LegalChanges'
    BY <1>1, BooksSame DEF Undropped, LegalChanges, Streaming
  <1>3. ~Listening'
    BY <1>1, <1>2 DEF Listening
  <1>4. Streaming'
    <2>1. CASE venue = "bitfinex"
      BY <1>1, <1>2, <1>3, <2>1 DEF Streaming
    <2>2. CASE venue = "bitstamp"
      BY <1>1, <1>2, <1>3, <2>2 DEF Streaming
    <2> QED
      BY <2>1, <2>2
  <1>5. Timed => Timed'
    BY <1>1, BooksSame DEF Timed, InBacklog, Requested, Based, BaseTime
  <1> QED
    BY <1>1, <1>2, <1>4, <1>5, BooksSame DEF Undropped

LEMMA MadeInv == ASSUME Undropped, Made PROVE Undropped'
  <1>1. /\ request.state = "asked"
        /\ request' = [state |-> "made", at |-> ticks, n |-> Len(changes)]
        /\ ticks' = ticks /\ venue' = venue /\ changes' = changes
        /\ subscribed' = subscribed /\ stream' = stream /\ feed' = feed
        /\ levels' = levels /\ position' = position /\ from' = from
        /\ skew' = skew /\ passedOver' = passedOver
    BY DEF Made
  <1>2. Streaming' /\ LegalChanges'
    BY <1>1, BooksSame DEF Undropped, Streaming, Listening
  <1>3. Timed => Timed'
    <2>1. SUFFICES ASSUME Timed PROVE Timed'
      OBVIOUS
    <2>2. levels = NoLevels /\ InBacklog'
      BY <1>1, <2>1 DEF Timed, InBacklog
    <2>3. Len(changes) \in Nat /\ position <= Len(changes) /\ ticks \in Nat /\ position \in Nat
      BY DEF Undropped, LegalChanges
    <2>4. \A i \in 1..Len(feed.backlog) : feed.backlog[i].n <= Len(changes)
      <3>1. SUFFICES ASSUME NEW i \in 1..Len(feed.backlog)
                     PROVE  feed.backlog[i].n <= Len(changes)
        OBVIOUS
      <3>2. feed.backlog[i].n = position - Len(feed.backlog) + i
        BY <2>1 DEF Timed, InBacklog
      <3>3. Len(feed.backlog) \in Nat
        BY <2>1, BacklogTypes DEF Timed
      <3> QED
        BY <2>3, <3>2, <3>3
    <2>5. Requested'
      BY <1>1, <2>3, <2>4 DEF Requested
    <2> QED
      BY <1>1, <2>1, <2>2, <2>5 DEF Timed
  <1> QED
    BY <1>1, <1>2, <1>3, BooksSame DEF Undropped

LEMMA LevelChangesInv ==
  ASSUME Undropped, NEW l \in Levels, NEW v \in {-1, 0, 1}, LevelChanges(l, v)
  PROVE  Undropped'
  <1> DEFINE c == [level |-> l, volume |-> v]
             m == [base |-> FALSE, n |-> Len(changes')]
             w == VolumeOf(l, Len(changes))
  <1>1. /\ changes' = Append(changes, c) /\ w * v >= 0
        /\ stream' = IF subscribed THEN Append(stream, m) ELSE stream
        /\ ticks' = ticks /\ venue' = venue /\ subscribed' = subscribed /\ feed' = feed
        /\ levels' = levels /\ request' = request /\ position' = position /\ from' = from
        /\ v * w >= 0 /\ skew' = skew /\ passedOver' = passedOver
    <2>1. w \in {-1, 0, 1}
      <3>1. changes \in Seq(LevelChange) /\ Len(changes) \in 0..Len(changes)
        BY DEF Undropped, LegalChanges
      <3> QED
        BY <3>1, VolumeType
    <2> QED
      BY <2>1 DEF LevelChanges
  <1>2. c \in LevelChange /\ changes \in Seq(LevelChange) /\ Len(changes) \in Nat
    BY DEF LevelChange, Undropped, LegalChanges
  <1>3. /\ changes' \in Seq(LevelChange) /\ Len(changes') = Len(changes) + 1
        /\ changes'[Len(changes) + 1] = c
        /\ \A i \in 1..Len(changes) : changes'[i] = changes[i]
        /\ \A k \in Levels, j \in 0..Len(changes) : VolumeOf(k, j)' = VolumeOf(k, j)
        /\ \A j \in 0..Len(changes) : BookAt(j)' = BookAt(j)
    BY <1>1, <1>2, VolumesKept
  <1>4. Follows(w, v)
    <2>1. w \in {-1, 0, 1}
      BY <1>2, VolumeType
    <2>2. CASE w = 1 /\ v = -1
      BY <1>1, <2>2
    <2>3. CASE w = -1 /\ v = 1
      BY <1>1, <2>3
    <2> QED
      BY <2>1, <2>2, <2>3 DEF Follows
  <1>5. LegalChanges'
    <2>1. ASSUME NEW j \in 0..Len(changes)
          PROVE  Follows(VolumeOf(changes[j + 1].level, j), changes[j + 1].volume)'
      <3>1. CASE j = Len(changes)
        <4>1. changes'[j + 1] = c /\ c.level = l /\ c.volume = v
          BY <1>3, <3>1
        <4>2. VolumeOf(l, j)' = w
          BY <1>3, <3>1
        <4>3. VolumeOf(changes[j + 1].level, j)' = w
          BY <4>1, <4>2
        <4> HIDE DEF w
        <4> QED
          BY <1>4, <4>1, <4>3
      <3>2. CASE j # Len(changes)
        <4>1. j + 1 \in 1..Len(changes) /\ j \in 0..(Len(changes) - 1)
          BY <1>2, <3>2
        <4>2. changes'[j + 1] = changes[j + 1] /\ changes[j + 1].level \in Levels
          <5>1. changes[j + 1] \in LevelChange
            BY <1>2, <4>1
          <5> QED
            BY <1>3, <4>1, <5>1 DEF LevelChange
        <4>3. \A k \in Levels : VolumeOf(k, j)' = VolumeOf(k, j)
          BY <1>3
        <4>4. Follows(VolumeOf(changes[j + 1].level, j), changes[j + 1].volume)
          BY <4>1 DEF Undropped, LegalChanges
        <4> QED
          BY <4>2, <4>3, <4>4
      <3> QED
        BY <3>1, <3>2
    <2> QED
      BY <1>2, <1>3, <2>1 DEF LegalChanges
  <1>6. Streaming'
    <2>1. Streaming
      BY DEF Undropped
    <2>2. CASE ~subscribed
      BY <1>1, <1>2, <1>3, <2>1, <2>2 DEF Streaming, Listening
    <2>3. CASE subscribed
      <3>1. /\ stream \in Seq([base : BOOLEAN, n : Nat]) /\ m \in [base : BOOLEAN, n : Nat]
            /\ stream' = Append(stream, m) /\ m.n = Len(changes) + 1 /\ ~m.base
        BY <1>1, <1>2, <1>3, <2>1, <2>3 DEF Streaming
      <3> HIDE DEF m
      <3>2. /\ stream' \in Seq([base : BOOLEAN, n : Nat]) /\ Len(stream') = Len(stream) + 1
            /\ stream'[Len(stream) + 1] = m /\ Len(stream) \in Nat
            /\ \A i \in 1..Len(stream) : stream'[i] = stream[i]
        BY <3>1
      <3>3. Listening' <=> Listening
        BY <1>1 DEF Listening
      <3>4. ASSUME NEW i \in 1..Len(stream')
            PROVE  /\ stream'[i].n = Len(changes') - Len(stream') + i
                   /\ ~stream'[i].base => stream'[i].n > 0
                   /\ venue = "bitstamp" => ~stream'[i].base
        <4>1. CASE i = Len(stream) + 1
          <5>1. stream'[i].n = Len(changes) + 1 /\ ~stream'[i].base
            BY <3>1, <3>2, <4>1
          <5>2. Len(changes') - Len(stream') + i = Len(changes) + 1
            BY <1>2, <1>3, <3>2, <4>1
          <5> QED
            BY <1>2, <5>1, <5>2
        <4>2. CASE i # Len(stream) + 1
          <5>1. i \in 1..Len(stream) /\ stream'[i] = stream[i]
            BY <3>2, <4>2
          <5>2. /\ stream[i].n = Len(changes) - Len(stream) + i
                /\ ~stream[i].base => stream[i].n > 0
                /\ venue = "bitstamp" => ~stream[i].base
            BY <2>1, <5>1 DEF Streaming
          <5>3. Len(changes') - Len(stream') = Len(changes) - Len(stream)
            BY <1>2, <1>3, <3>2
          <5> QED
            BY <5>1, <5>2, <5>3
        <4> QED
          BY <4>1, <4>2
      <3>5. Listening' => position' = Len(changes') - Len(stream')
        BY <1>1, <1>2, <1>3, <2>1, <3>2, <3>3 DEF Streaming
      <3> QED
        BY <1>1, <2>3, <3>2, <3>4, <3>5 DEF Streaming
    <2> QED
      BY <2>2, <2>3
  <1>7. Timed => Timed'
    <2>1. SUFFICES ASSUME Timed PROVE Timed'
      OBVIOUS
    <2>2. InBacklog' /\ Requested'
      BY <1>1, <1>2, <1>3, <2>1 DEF Timed, InBacklog, Requested
    <2>3. Based => Based'
      <3>1. SUFFICES ASSUME Based PROVE Based'
        OBVIOUS
      <3>2. position \in 0..Len(changes) /\ from \in 0..Len(changes)
        BY DEF Undropped
      <3>3. Fits(levels, position, Levels \ passedOver)
              => Fits(levels, position, Levels \ passedOver)'
        <4>1. /\ Stale(levels, position, Levels \ passedOver)
                   => Stale(levels, position, Levels \ passedOver)'
              /\ RightAt(levels, position, Levels \ passedOver)
                   => RightAt(levels, position, Levels \ passedOver)'
          BY <1>1, <1>3, <3>2 DEF Stale, RightAt
        <4> QED
          BY <1>1, <4>1 DEF Fits
      <3> QED
        BY <1>1, <1>3, <3>1, <3>2, <3>3 DEF Based, BaseTime
    <2> QED
      BY <1>1, <2>1, <2>2, <2>3 DEF Timed
  <1>8. levels = BookAt(position) => (levels = BookAt(position))'
    BY <1>1, <1>3 DEF Undropped
  <1> QED
    BY <1>1, <1>2, <1>3, <1>5, <1>6, <1>7, <1>8 DEF Undropped

-----------------------------------------------------------------------------
(* The messages, one by one.                                               *)

LEMMA ElementOf ==
  ASSUME NEW S, NEW s \in Seq(S), NEW i \in 1..Len(s)
  PROVE  s[i] \in S
  OBVIOUS

\* The first of the messages on their way.
LEMMA FirstMessage ==
  ASSUME Undropped, stream # <<>>
  PROVE  LET m == Head(stream)
         IN  /\ subscribed /\ m.n \in 0..Len(changes)
             /\ Listening => m.n = position + 1
             /\ ~m.base => m.n \in 1..Len(changes)
             /\ venue = "bitstamp" => ~m.base
  <1> DEFINE m == Head(stream)
  <1>1. /\ Streaming /\ stream \in Seq([base : BOOLEAN, n : Nat]) /\ Len(changes) \in Nat
    BY DEF Undropped, Streaming, LegalChanges
  <1>2. /\ m = stream[1] /\ m \in [base : BOOLEAN, n : Nat] /\ Len(stream) \in Nat
        /\ 1 \in 1..Len(stream)
    <2>1. Len(stream) \in Nat \ {0} /\ m = stream[1]
      BY <1>1
    <2>2. 1 \in 1..Len(stream)
      BY <2>1
    <2>3. stream[1] \in [base : BOOLEAN, n : Nat]
      BY <1>1, <2>2, ElementOf
    <2> QED
      BY <2>1, <2>2, <2>3
  <1> HIDE DEF m
  <1>3. /\ m.n = Len(changes) - Len(stream) + 1 /\ (~m.base => m.n > 0)
        /\ venue = "bitstamp" => ~m.base
    BY <1>1, <1>2 DEF Streaming
  <1>4. m.n \in Nat /\ m.n <= Len(changes)
    BY <1>1, <1>2, <1>3
  <1>5. subscribed /\ (Listening => m.n = position + 1)
    BY <1>1, <1>2, <1>3 DEF Streaming
  <1> QED
    BY <1>1, <1>3, <1>4, <1>5 DEF m

\* The other messages when it is handled.
LEMMA RestOfStream ==
  ASSUME Undropped, stream # <<>>, stream' = Tail(stream), position' = Head(stream).n,
         changes' = changes, subscribed' = subscribed, venue' = venue
  PROVE  Streaming'
  <1>1. /\ Streaming /\ stream \in Seq([base : BOOLEAN, n : Nat]) /\ Len(changes) \in Nat
    BY DEF Undropped, Streaming, LegalChanges
  <1>2. /\ stream' \in Seq([base : BOOLEAN, n : Nat]) /\ Len(stream') = Len(stream) - 1
        /\ Len(stream) \in Nat \ {0} /\ Head(stream) = stream[1]
        /\ \A i \in 1..Len(stream') : stream'[i] = stream[i + 1] /\ i + 1 \in 1..Len(stream)
    BY <1>1
  <1>3. ASSUME NEW i \in 1..Len(stream')
        PROVE  /\ stream'[i].n = Len(changes') - Len(stream') + i
               /\ ~stream'[i].base => stream'[i].n > 0
               /\ venue = "bitstamp" => ~stream'[i].base
    <2>1. i + 1 \in 1..Len(stream) /\ stream'[i] = stream[i + 1]
      BY <1>2
    <2>2. /\ stream[i + 1].n = Len(changes) - Len(stream) + (i + 1)
          /\ ~stream[i + 1].base => stream[i + 1].n > 0
          /\ venue = "bitstamp" => ~stream[i + 1].base
      BY <1>1, <2>1 DEF Streaming
    <2>3. Len(changes) - Len(stream) + (i + 1) = Len(changes') - Len(stream') + i
      BY <1>1, <1>2
    <2> QED
      BY <2>1, <2>2, <2>3
  <1>4. position' = Len(changes') - Len(stream')
    <2>1. stream[1].n = Len(changes) - Len(stream) + 1
      <3>1. 1 \in 1..Len(stream)
        BY <1>2
      <3> QED
        BY <1>1, <3>1 DEF Streaming
    <2> QED
      BY <1>1, <1>2, <2>1
  <1>5. subscribed
    BY <1>1 DEF Streaming
  <1> QED
    BY <1>2, <1>3, <1>4, <1>5 DEF Streaming

LEMMA NoBookYet == \A b \in LevelBook : b # NoLevels
  BY DEF LevelBook, NoLevels

\* Bitfinex.
LEMMA OrderedInv ==
  ASSUME Undropped, Message, ~paused, venue = "bitfinex"
  PROVE  Undropped'
  <1> DEFINE m == Head(stream)
  <1>1. /\ stream # <<>> /\ stream' = Tail(stream) /\ position' = m.n /\ HandleOrdered(m)
        /\ venue' = venue /\ ticks' = ticks /\ changes' = changes
        /\ subscribed' = subscribed /\ request' = request /\ skew' = skew
        /\ passedOver' = passedOver
    BY DEF Message, HandleOrdered
  <1>2. /\ m.n \in 0..Len(changes) /\ (Listening => m.n = position + 1)
        /\ ~m.base => m.n \in 1..Len(changes)
    BY <1>1, FirstMessage
  <1>3. Streaming'
    BY <1>1, RestOfStream
  <1>4. /\ changes \in Seq(LevelChange) /\ Len(changes) \in Nat /\ from \in 0..Len(changes)
        /\ LegalChanges /\ position \in 0..Len(changes)
    BY DEF Undropped, LegalChanges
  <1> HIDE DEF m
  <1>5. from' \in 0..Len(changes)
    BY <1>1, <1>2, <1>4 DEF HandleOrdered
  <1>6. levels' # NoLevels => levels' = BookAt(m.n)
    <2>1. CASE m.base
      BY <1>1, <2>1 DEF HandleOrdered
    <2>2. CASE ~m.base /\ levels = NoLevels
      BY <1>1, <2>2 DEF HandleOrdered
    <2>3. CASE ~m.base /\ levels # NoLevels
      <3>1. /\ levels' = Apply(levels, changes[m.n]) /\ m.n = position + 1
            /\ m.n \in 1..Len(changes)
        BY <1>1, <1>2, <2>3 DEF HandleOrdered, Listening
      <3>2. levels = BookAt(position)
        BY <2>3 DEF Undropped
      <3>3. levels' = BookAt(position + 1)
        BY <1>4, <3>1, <3>2, AppliedIs
      <3> QED
        BY <3>1, <3>3
    <2> QED
      BY <2>1, <2>2, <2>3
  <1>7. BookAt(m.n) = BookAt(position)'
    BY <1>1 DEF BookAt, VolumeOf
  <1>8. LegalChanges'
    BY <1>1, <1>4 DEF LegalChanges, VolumeOf
  <1> QED
    BY <1>1, <1>2, <1>3, <1>4, <1>5, <1>6, <1>7, <1>8 DEF Undropped

\* Bitstamp: a message after the other, in the backlog or on its end.
LEMMA BacklogNext ==
  ASSUME Undropped, Timed, stream # <<>>, Head(stream).n \in 1..Len(changes),
         Listening => Head(stream).n = position + 1, Listening \/ feed.backlog = <<>>
  PROVE  LET e == [at |-> ticks, n |-> Head(stream).n]
             s == Append(feed.backlog, e)
         IN  /\ e \in TimedMessage /\ s \in Seq(TimedMessage) /\ s # <<>>
             /\ Len(s) = Len(feed.backlog) + 1 /\ s[Len(s)] = e
             /\ \A i \in 1..Len(feed.backlog) : s[i] = feed.backlog[i]
             /\ \A i \in 1..Len(s) : /\ s[i].n = e.n - Len(s) + i
                                     /\ s[i].n > 0 /\ s[i].n <= e.n /\ s[i].at <= ticks
             /\ \A i, j \in 1..Len(s) : i <= j => s[i].at <= s[j].at
  <1> DEFINE b == feed.backlog
             e == [at |-> ticks, n |-> Head(stream).n]
             s == Append(b, e)
  <1>1. /\ b \in Seq(TimedMessage) /\ Len(b) \in Nat
        /\ \A i \in 1..Len(b) : b[i].at \in Nat /\ b[i].n \in Nat
    BY BacklogTypes DEF Timed
  <1>2. e \in TimedMessage /\ e.at = ticks /\ e.n = Head(stream).n /\ e.n \in Nat \ {0}
    BY DEF TimedMessage, Undropped
  <1>3. /\ \A i \in 1..Len(b) : b[i].n = position - Len(b) + i /\ b[i].n > 0 /\ b[i].at <= ticks
        /\ \A i, j \in 1..Len(b) : i <= j => b[i].at <= b[j].at
    BY DEF Timed, InBacklog
  <1>4. b = <<>> \/ e.n = position + 1
    BY <1>2
  <1>5. position \in Nat /\ ticks \in Nat
    BY DEF Undropped
  <1> HIDE DEF b, e
  <1>6. /\ s \in Seq(TimedMessage) /\ s # <<>> /\ Len(s) = Len(b) + 1 /\ s[Len(s)] = e
        /\ \A i \in 1..Len(b) : s[i] = b[i]
    <2>1. s \in Seq(TimedMessage) /\ Len(s) = Len(b) + 1
      BY <1>1, <1>2
    <2>2. s[Len(b) + 1] = e /\ \A i \in 1..Len(b) : s[i] = b[i]
      BY <1>1, <1>2
    <2>3. s # <<>>
      <3>1. Len(s) # 0 /\ Len(<<>>) = 0
        BY <1>1, <2>1
      <3> HIDE DEF s
      <3> QED
        BY <3>1
    <2> QED
      BY <2>1, <2>2, <2>3
  <1> HIDE DEF s
  <1>7. ASSUME NEW i \in 1..Len(s)
        PROVE  s[i].n = e.n - Len(s) + i /\ s[i].n > 0 /\ s[i].n <= e.n /\ s[i].at <= ticks
    <2>1. CASE i = Len(s)
      BY <1>1, <1>2, <1>5, <1>6, <2>1
    <2>2. CASE i # Len(s)
      <3>1. i \in 1..Len(b) /\ b # <<>>
        BY <1>1, <1>6, <2>2
      <3>2. e.n = position + 1 /\ b[i].n = position - Len(b) + i /\ b[i].n > 0 /\ b[i].at <= ticks
        BY <1>3, <1>4, <3>1
      <3>3. s[i] = b[i]
        BY <1>6, <3>1
      <3> QED
        BY <1>1, <1>5, <1>6, <3>1, <3>2, <3>3
    <2> QED
      BY <2>1, <2>2
  <1>8. ASSUME NEW i \in 1..Len(s), NEW j \in 1..Len(s), i <= j
        PROVE  s[i].at <= s[j].at
    <2>1. CASE j = Len(s)
      BY <1>2, <1>6, <1>7, <2>1
    <2>2. CASE j # Len(s)
      <3>1. i \in 1..Len(b) /\ j \in 1..Len(b)
        BY <1>1, <1>6, <1>8, <2>2
      <3> QED
        BY <1>3, <1>6, <1>8, <3>1
    <2> QED
      BY <2>1, <2>2
  <1> QED
    BY <1>2, <1>6, <1>7, <1>8 DEF b, e, s

\* What the handler does with its own record.
LEMMA TimedRecord ==
  ASSUME Undropped, Timed, NEW m, HandleTimed(m), stream # <<>>, m = Head(stream),
         Head(stream).n \in 1..Len(changes)
  PROVE  LET e == [at |-> ticks, n |-> m.n]
         IN  /\ feed' \in FeedRecord /\ feed'.base = feed.base /\ from' = from
             /\ feed'.first = IF feed.first = -1 THEN ticks ELSE feed.first
             /\ IF levels = NoLevels
                THEN /\ feed'.backlog = Append(feed.backlog, e) /\ levels' = levels
                     /\ passedOver' = passedOver
                ELSE /\ feed'.backlog = <<>>
                     /\ IF feed.backlog = <<>>
                        THEN levels' = Apply(levels, changes[m.n]) /\ passedOver' = passedOver
                        ELSE /\ levels' = Worked(Append(feed.backlog, e))
                             /\ passedOver' = Skipped(Append(feed.backlog, e))
  <1> DEFINE e == [at |-> ticks, n |-> m.n]
             first == IF feed.first = -1 THEN ticks ELSE feed.first
             count == feed.count + 1
             f == [feed EXCEPT !.first = first, !.count = count]
  <1>1. /\ feed \in FeedRecord /\ ticks \in Nat /\ m.n \in Nat
    BY DEF Undropped, Timed, InBacklog
  <1>2. first \in Int /\ count \in Nat /\ e \in TimedMessage
    BY <1>1 DEF FeedRecord, TimedMessage
  <1>3. /\ IF levels = NoLevels
           THEN /\ feed' = [f EXCEPT !.backlog = Append(@, e)] /\ levels' = levels
                /\ passedOver' = passedOver
           ELSE IF feed.backlog = <<>>
           THEN feed' = f /\ levels' = Apply(levels, changes[m.n]) /\ passedOver' = passedOver
           ELSE /\ feed' = [f EXCEPT !.backlog = <<>>]
                /\ levels' = Worked(Append(feed.backlog, e))
                /\ passedOver' = Skipped(Append(feed.backlog, e))
        /\ from' = from
    BY DEF HandleTimed
  <1> HIDE DEF first, count, e
  <1>4. /\ f \in FeedRecord /\ f.first = first /\ f.backlog = feed.backlog /\ f.base = feed.base
    BY <1>1, <1>2 DEF FeedRecord
  <1>5. f.backlog \in Seq(TimedMessage) /\ Append(f.backlog, e) \in Seq(TimedMessage)
        /\ <<>> \in Seq(TimedMessage)
    <2>1. f.backlog \in Seq(TimedMessage)
      BY <1>4 DEF FeedRecord
    <2> QED
      BY <1>2, <2>1
  <1> HIDE DEF f
  <1>6. \A s \in Seq(TimedMessage) :
          LET g == [f EXCEPT !.backlog = s]
          IN  g \in FeedRecord /\ g.first = first /\ g.backlog = s /\ g.base = feed.base
    BY <1>4 DEF FeedRecord
  <1>7. CASE levels = NoLevels
    <2> DEFINE s == Append(f.backlog, e)
    <2>1. s \in Seq(TimedMessage) /\ feed' = [f EXCEPT !.backlog = s] /\ levels' = levels
      BY <1>3, <1>5, <1>7
    <2> HIDE DEF s
    <2>2. feed' \in FeedRecord /\ feed'.first = first /\ feed'.backlog = s /\ feed'.base = feed.base
      BY <1>6, <2>1
    <2> QED
      BY <1>3, <1>4, <1>7, <2>1, <2>2 DEF s, first, e
  <1>8. CASE levels # NoLevels /\ feed.backlog = <<>>
    BY <1>3, <1>4, <1>8 DEF first, e
  <1>9. CASE levels # NoLevels /\ feed.backlog # <<>>
    <2>1. /\ feed' \in FeedRecord /\ feed'.first = first /\ feed'.backlog = <<>>
          /\ feed'.base = feed.base
      BY <1>3, <1>5, <1>6, <1>9
    <2> QED
      BY <1>3, <1>9, <2>1 DEF first, e
  <1> QED
    BY <1>7, <1>8, <1>9

\* The second of the base is not after the moment the base was made, by its clock.
LEMMA SecondOf ==
  ASSUME NEW t \in Int
  PROVE  2 * (t \div 2) \in Int /\ 2 * (t \div 2) <= t
  OBVIOUS

LEMMA BaseBefore ==
  ASSUME Undropped, Timed, levels # NoLevels
  PROVE  /\ feed.base \in Int /\ feed.base <= request.at + skew
         /\ request.at \in Nat /\ request.at <= ticks
  <1>1. /\ request.at \in Nat /\ request.at <= ticks
        /\ feed.base = 2 * ((request.at + skew) \div 2) /\ request.at + skew \in Int
    BY DEF Undropped, Timed, Requested, Based, BaseTime
  <1> QED
    BY <1>1, SecondOf

\* The backlog and the message that finds the base.
LEMMA BacklogWorked ==
  ASSUME Undropped, Timed, levels # NoLevels, feed.backlog # <<>>, stream # <<>>,
         Head(stream).n \in 1..Len(changes), Head(stream).n = position + 1
  PROVE  LET s == Append(feed.backlog, [at |-> ticks, n |-> Head(stream).n])
         IN  /\ Fits(Worked(s), Head(stream).n, Levels \ Skipped(s))
             /\ Skipped(s) # {} => skew > 0
  <1> DEFINE e == [at |-> ticks, n |-> Head(stream).n]
             s == Append(feed.backlog, e)
  <1>1. Listening
    BY DEF Timed, Based, Listening
  <1>2. Based /\ request.state # "asked" /\ feed.base > feed.first /\ levels = BookAt(from)
        /\ from = request.n
    BY DEF Timed, Requested, Based
  <1>3. /\ e \in TimedMessage /\ s \in Seq(TimedMessage) /\ s # <<>>
        /\ Len(s) = Len(feed.backlog) + 1 /\ s[Len(s)] = e
        /\ \A i \in 1..Len(feed.backlog) : s[i] = feed.backlog[i]
        /\ \A i \in 1..Len(s) : /\ s[i].n = e.n - Len(s) + i
                                /\ s[i].n > 0 /\ s[i].n <= e.n /\ s[i].at <= ticks
        /\ \A i, j \in 1..Len(s) : i <= j => s[i].at <= s[j].at
    BY <1>1, BacklogNext
  <1>4. /\ feed.base \in Int /\ feed.base <= request.at + skew /\ request.at <= ticks
        /\ ticks \in Int /\ skew \in Int /\ request.at \in Int
    BY BaseBefore DEF Undropped
  <1>5. /\ Len(feed.backlog) \in Nat \ {0} /\ e.at = ticks /\ e.n = Head(stream).n
        /\ \A i \in 1..Len(feed.backlog) : feed.backlog[i].at \in Nat
    BY BacklogTypes DEF Timed
  <1> HIDE DEF e, s
  <1>7. ~Newer(s[1])
    <2>1. 1 \in 1..Len(feed.backlog)
      BY <1>5
    <2>2. s[1] = feed.backlog[1] /\ feed.first = feed.backlog[1].at /\ feed.backlog[1].at \in Nat
      BY <1>3, <1>5, <2>1 DEF Timed, InBacklog
    <2> QED
      BY <1>2, <1>4, <2>2 DEF Newer
  <1>8. ASSUME NEW i \in 1..Len(s), ~Newer(s[i]), ~(skew > 0) PROVE s[i].n <= from
    <2>1. i # Len(s)
      BY <1>3, <1>4, <1>5, <1>8 DEF Newer
    <2>2. i \in 1..Len(feed.backlog)
      BY <1>3, <1>5, <2>1
    <2>3. s[i] = feed.backlog[i] /\ feed.backlog[i].at \in Nat
      BY <1>3, <1>5, <2>2
    <2>4. feed.backlog[i].at < request.at
      <3> DEFINE x == feed.backlog[i].at
                 y == feed.base
                 z == request.at
      <3>1. ~(x >= y) /\ x \in Nat
        BY <1>8, <2>3 DEF Newer
      <3>2. y \in Int /\ y <= z + skew /\ z \in Int /\ skew \in Int /\ ~(skew > 0)
        BY <1>4, <1>8
      <3> HIDE DEF x, y, z
      <3>3. x < z
        BY <3>1, <3>2
      <3> QED
        BY <3>3 DEF x, z
    <2>5. feed.backlog[i].n <= request.n
      BY <1>2, <2>2, <2>4 DEF Timed, Requested
    <2> QED
      BY <1>2, <2>3, <2>5
  <1>9. Len(changes) \in Nat /\ e.n \in 1..Len(changes) /\ Len(s) \in Nat /\ 1 \in 1..Len(s)
        /\ \A i \in 1..Len(s) : s[i] \in TimedMessage /\ s[i].n \in Nat
    <2>1. Len(changes) \in Nat /\ e.n \in 1..Len(changes)
      BY <1>5 DEF Undropped, LegalChanges
    <2>2. Len(s) \in Nat /\ 1 \in 1..Len(s) /\ \A i \in 1..Len(s) : s[i] \in TimedMessage
      BY <1>3, <1>5
    <2> QED
      BY <2>1, <2>2 DEF TimedMessage
  <1>10. \A i \in 1..Len(s) : s[i].n \in 1..Len(changes) /\ s[i].n = s[1].n + i - 1
    <2>1. SUFFICES ASSUME NEW i \in 1..Len(s)
                   PROVE  s[i].n \in 1..Len(changes) /\ s[i].n = s[1].n + i - 1
      OBVIOUS
    <2>2. s[1].n = e.n - Len(s) + 1 /\ s[i].n = e.n - Len(s) + i /\ s[i].n > 0 /\ s[i].n <= e.n
      BY <1>3, <1>9
    <2> DEFINE k == Len(s)
               p == s[1].n
               q == s[i].n
    <2>3. k \in Nat /\ i \in Nat /\ q \in Nat /\ e.n \in Nat /\ e.n <= Len(changes)
          /\ Len(changes) \in Nat
      BY <1>9
    <2>4. p = e.n - k + 1 /\ q = e.n - k + i /\ q > 0 /\ q <= e.n
      BY <2>2
    <2> HIDE DEF k, p, q
    <2>5. q \in 1..Len(changes) /\ q = p + i - 1
      BY <2>3, <2>4
    <2> QED
      BY <2>5 DEF p, q
  <1>11. Backlogged(s)
    BY <1>3, <1>7, <1>10 DEF Backlogged
  <1>12. LegalChanges /\ from \in 0..Len(changes)
    BY DEF Undropped
  <1>13. Fits(Worked(s), s[Len(s)].n, Levels \ Skipped(s))
    <2>1. Levels \ Skipped(s) \in SUBSET Levels /\ (Levels \ Skipped(s)) \cap Skipped(s) = {}
      OBVIOUS
    <2> QED
      BY <1>2, <1>4, <1>11, <1>12, <2>1, WorkedFits
  <1>14. ASSUME Skipped(s) # {}, ~(skew > 0) PROVE FALSE
    <2>1. PICK n \in DOMAIN changes, x \in ToSet(s) : from < n /\ ~Newer(x) /\ n <= x.n
      BY <1>14 DEF Skipped
    <2>2. PICK i \in 1..Len(s) : x = s[i]
      BY <1>3, <2>1 DEF ToSet
    <2>3. s[i].n <= from /\ s[i].n \in Nat /\ n \in Nat /\ from \in Nat
      BY <1>8, <1>9, <1>12, <1>14, <2>1, <2>2 DEF LegalChanges
    <2> QED
      BY <2>1, <2>2, <2>3
  <1> QED
    BY <1>3, <1>5, <1>13, <1>14 DEF s, e

LEMMA FitsIsBook == \A b, j, S : Fits(b, j, S) => b # NoLevels
  BY NoBookYet DEF Fits

LEMMA TimedInv ==
  ASSUME Undropped, Message, ~paused, venue = "bitstamp"
  PROVE  Undropped'
  <1> DEFINE m == Head(stream)
             e == [at |-> ticks, n |-> m.n]
             s == Append(feed.backlog, e)
  <1>1. /\ stream # <<>> /\ stream' = Tail(stream) /\ position' = m.n /\ HandleTimed(m)
        /\ venue' = venue /\ ticks' = ticks /\ changes' = changes
        /\ subscribed' = subscribed /\ request' = request /\ skew' = skew
    BY DEF Message
  <1>2. m.n \in 1..Len(changes) /\ (Listening => m.n = position + 1)
    BY <1>1, FirstMessage
  <1>3. Timed /\ InBacklog /\ Requested /\ (Listening <=> feed.first # -1)
    BY DEF Undropped, Timed, Listening
  <1>4. /\ feed' \in FeedRecord /\ feed'.base = feed.base /\ from' = from
        /\ feed'.first = IF feed.first = -1 THEN ticks ELSE feed.first
        /\ IF levels = NoLevels
           THEN feed'.backlog = s /\ levels' = levels /\ passedOver' = passedOver
           ELSE /\ feed'.backlog = <<>>
                /\ IF feed.backlog = <<>>
                   THEN levels' = Apply(levels, changes[m.n]) /\ passedOver' = passedOver
                   ELSE levels' = Worked(s) /\ passedOver' = Skipped(s)
    BY <1>1, <1>2, <1>3, TimedRecord
  <1>5. Streaming'
    BY <1>1, RestOfStream
  <1>6. LegalChanges' /\ position' \in 0..Len(changes) /\ from' \in 0..Len(changes)
        /\ ticks' \in Nat
    <2>1. Len(changes) \in Nat
      BY DEF Undropped, LegalChanges
    <2> QED
      BY <1>1, <1>2, <1>4, <2>1, BooksSame DEF Undropped
  <1>7. ticks \in Nat /\ feed'.first # -1
    BY <1>4 DEF Undropped
  <1>8. Timed'
    <2>1. CASE levels = NoLevels
      <3>1. Listening \/ feed.backlog = <<>>
        <4>1. feed.backlog # <<>> => feed.first = feed.backlog[1].at /\ feed.backlog[1].at \in Nat
          <5>1. Len(feed.backlog) \in Nat /\ (feed.backlog # <<>> => 1 \in 1..Len(feed.backlog))
            BY <1>3, BacklogTypes
          <5> QED
            BY <1>3, <5>1, BacklogTypes DEF InBacklog
        <4> QED
          BY <1>3, <4>1
      <3>2. /\ e \in TimedMessage /\ s \in Seq(TimedMessage) /\ s # <<>>
            /\ Len(s) = Len(feed.backlog) + 1 /\ s[Len(s)] = e
            /\ \A i \in 1..Len(feed.backlog) : s[i] = feed.backlog[i]
            /\ \A i \in 1..Len(s) : /\ s[i].n = e.n - Len(s) + i
                                    /\ s[i].n > 0 /\ s[i].n <= e.n /\ s[i].at <= ticks
            /\ \A i, j \in 1..Len(s) : i <= j => s[i].at <= s[j].at
        BY <1>1, <1>2, <1>3, <3>1, BacklogNext
      <3>3. feed'.backlog = s /\ levels' = NoLevels /\ e.n = m.n /\ e.at = ticks
        BY <1>4, <2>1
      <3>4. Len(feed.backlog) \in Nat
        BY <1>3, BacklogTypes
      <3> HIDE DEF s, e
      <3>5. feed'.first = s[1].at
        <4>1. CASE feed.backlog = <<>>
          <5>1. s[1] = e /\ feed.first = -1
            BY <1>3, <2>1, <3>2, <3>4, <4>1 DEF Timed
          <5> QED
            BY <1>4, <3>3, <5>1
        <4>2. CASE feed.backlog # <<>>
          <5>1. 1 \in 1..Len(feed.backlog)
            BY <1>3, <4>2, BacklogTypes
          <5>2. s[1] = feed.backlog[1] /\ feed.first = feed.backlog[1].at
                /\ feed.backlog[1].at \in Nat
            BY <1>3, <3>2, <4>2, <5>1, BacklogTypes DEF InBacklog
          <5> QED
            BY <1>4, <5>2
        <4> QED
          BY <4>1, <4>2
      <3>6. InBacklog'
        BY <1>1, <1>4, <3>2, <3>3, <3>5 DEF InBacklog
      <3>7. Requested'
        <4>1. request.at <= ticks /\ request.at \in Nat
          BY <1>3, <1>7 DEF Requested
        <4>2. ASSUME request.state # "asked", NEW i \in 1..Len(s), s[i].at < request.at
              PROVE  s[i].n <= request.n
          <5>1. i # Len(s)
            BY <1>7, <3>2, <3>3, <4>1, <4>2
          <5>2. i \in 1..Len(feed.backlog)
            BY <3>2, <3>4, <5>1
          <5> QED
            BY <1>3, <3>2, <4>2, <5>2 DEF Requested
        <4> QED
          BY <1>1, <1>3, <3>3, <4>2 DEF Requested
      <3> QED
        BY <1>1, <1>3, <1>4, <2>1, <3>2, <3>3, <3>6, <3>7 DEF Timed
    <2>2. CASE levels # NoLevels
      <3>1. Based /\ feed.first # -1 /\ m.n = position + 1 /\ feed'.first = feed.first
        BY <1>2, <1>3, <1>4, <2>2 DEF Timed, Based
      <3> DEFINE S == Levels \ passedOver'
      <3>2. Fits(levels', m.n, S) /\ (passedOver' # {} => skew > 0)
        <4>1. CASE feed.backlog = <<>>
          <5>1. Fits(levels, position, Levels \ passedOver)
            BY <3>1, <4>1 DEF Based
          <5>2. LegalChanges /\ from \in 0..Len(changes) /\ position \in 0..(Len(changes) - 1)
            BY <1>2, <3>1 DEF Undropped, LegalChanges
          <5>3. Levels \ passedOver \in SUBSET Levels
            OBVIOUS
          <5>4. Fits(Apply(levels, changes[position + 1]), position + 1, Levels \ passedOver)
            BY <5>1, <5>2, <5>3, FitsNext
          <5> QED
            BY <1>3, <1>4, <2>2, <3>1, <4>1, <5>4 DEF Timed
        <4>2. CASE feed.backlog # <<>>
          <5>1. Fits(Worked(s), m.n, Levels \ Skipped(s)) /\ (Skipped(s) # {} => skew > 0)
            BY <1>1, <1>2, <1>3, <2>2, <3>1, <4>2, BacklogWorked
          <5>2. levels' = Worked(s) /\ passedOver' = Skipped(s)
            BY <1>4, <2>2, <4>2
          <5> QED
            BY <5>1, <5>2
        <4> QED
          BY <4>1, <4>2
      <3>3. levels' # NoLevels
        BY <3>2, FitsIsBook
      <3>4. feed'.backlog = <<>> /\ Len(feed'.backlog) = 0
        BY <1>4, <2>2
      <3>5. InBacklog'
        BY <1>1, <1>4, <3>4 DEF InBacklog
      <3>6. Requested'
        BY <1>1, <1>3, <3>4 DEF Requested
      <3>7. Fits(levels, position, Levels \ passedOver)'
        BY <1>1, <1>4, <3>2 DEF Fits, Stale, RightAt, VolumeOf
      <3>8. Based'
        BY <1>1, <1>4, <3>1, <3>4, <3>7 DEF Based, BaseTime
      <3> QED
        BY <1>1, <1>3, <2>2, <3>2, <3>3, <3>5, <3>6, <3>8 DEF Timed
    <2> QED
      BY <2>1, <2>2
  <1> QED
    BY <1>1, <1>5, <1>6, <1>8 DEF Undropped

LEMMA MessageInv ==
  ASSUME Undropped, venue \in {"bitstamp", "bitfinex"}, Message, ~dumped'
  PROVE  Undropped'
  <1>1. ~paused
    BY DEF Message
  <1> QED
    BY <1>1, OrderedInv, TimedInv

LEMMA TakeBaseInv ==
  ASSUME Undropped, venue \in {"bitstamp", "bitfinex"}, TakeBase
  PROVE  Undropped'
  <1> DEFINE base == BaseTime
             state == IF TooEarly THEN "asked" ELSE "no"
  <1>1. /\ request.state = "made" /\ feed' = [feed EXCEPT !.base = base]
        /\ request' = [request EXCEPT !.state = state]
        /\ IF TooEarly THEN levels' = levels /\ from' = from
                       ELSE levels' = BookAt(request.n) /\ from' = request.n
        /\ ticks' = ticks /\ venue' = venue /\ changes' = changes
        /\ subscribed' = subscribed /\ stream' = stream /\ position' = position
        /\ skew' = skew /\ passedOver' = passedOver
    BY DEF TakeBase
  <1>2. venue = "bitstamp" /\ Timed /\ InBacklog /\ Requested /\ levels = NoLevels
    BY <1>1 DEF Undropped, Timed
  <1>3. /\ request \in [state : {"asked", "made", "no"}, at : Nat, n : Nat]
        /\ request.n \in 0..Len(changes) /\ request.at \in Nat /\ base \in Int
        /\ feed \in FeedRecord /\ feed.first \in Int
    <2>1. request.at + skew \in Int
      BY <1>2 DEF Undropped, Requested
    <2> QED
      BY <1>2, <2>1, SecondOf DEF Requested, InBacklog, FeedRecord, BaseTime
  <1>4. LegalChanges /\ changes \in Seq(LevelChange)
    BY DEF Undropped, LegalChanges
  <1>5. TooEarly <=> (base <= feed.first \/ feed.first = -1 \/ feed.count <= MessageBuffer)
    BY DEF TooEarly
  <1> HIDE DEF base
  <1>6. /\ feed' \in FeedRecord /\ feed'.base = base /\ feed'.first = feed.first
        /\ feed'.backlog = feed.backlog
    BY <1>1, <1>3 DEF FeedRecord
  <1>7. /\ request' \in [state : {"asked", "made", "no"}, at : Nat, n : Nat]
        /\ request'.state = state /\ request'.at = request.at /\ request'.n = request.n
    BY <1>1, <1>3
  <1>8. Streaming' /\ LegalChanges'
    BY <1>1, <1>2, <1>4, <1>6 DEF Undropped, Streaming, Listening, LegalChanges, VolumeOf
  <1>9. InBacklog'
    BY <1>1, <1>2, <1>6 DEF InBacklog
  <1>10. Requested'
    BY <1>1, <1>2, <1>6, <1>7 DEF Requested
  <1>11. from' \in 0..Len(changes)
    BY <1>1, <1>3 DEF Undropped
  <1>12. CASE TooEarly
    <2>1. Timed'
      BY <1>1, <1>2, <1>6, <1>7, <1>9, <1>10, <1>12 DEF Timed
    <2> QED
      BY <1>1, <1>2, <1>8, <1>11, <2>1 DEF Undropped
  <1>13. CASE ~TooEarly
    <2>1. /\ request'.state = "no" /\ levels' = BookAt(request.n) /\ from' = request.n
          /\ base > feed.first /\ feed.first # -1
      BY <1>1, <1>3, <1>5, <1>7, <1>13
    <2>2. levels' # NoLevels
      BY <1>3, <1>4, <2>1, BookIs, NoBookYet
    <2>3. feed.backlog # <<>>
      BY <1>2, <2>1 DEF Timed
    <2>4. levels' = BookAt(from)'
      BY <1>1, <2>1 DEF BookAt, VolumeOf
    <2>5. passedOver' = {}
      BY <1>1, <1>2 DEF Timed
    <2>6. Based'
      <3>1. BaseTime' = base
        BY <1>1, <1>7 DEF BaseTime, base
      <3> QED
        BY <1>6, <1>7, <2>1, <2>3, <2>4, <2>5, <3>1 DEF Based
    <2>7. Timed'
      BY <1>9, <1>10, <2>1, <2>2, <2>5, <2>6 DEF Timed
    <2> QED
      BY <1>1, <1>2, <1>8, <1>11, <2>7 DEF Undropped
  <1> QED
    BY <1>12, <1>13

LEMMA LevelStepInv == ASSUME LevelInv, [LevelNext]_levelVars PROVE LevelInv'
  <1>1. venue' = venue /\ (dumped => dumped')
    <2>1. venue' = venue
      BY DEF LevelNext, Passes, Subscription, Made, Pause, Message, TakeBase, LevelChanges,
             levelVars
    <2>2. CASE Message
      <3>1. CASE paused
        BY <2>1, <2>2, <3>1 DEF Message
      <3>2. CASE ~paused
        BY <2>1, <2>2, <3>2 DEF Message
      <3> QED
        BY <2>1, <3>1, <3>2
    <2>3. CASE ~Message
      <3>1. dumped' = dumped
        BY <2>3 DEF LevelNext, Passes, Subscription, Made, Pause, TakeBase, LevelChanges,
                    levelVars
      <3> QED
        BY <2>1, <3>1
    <2> QED
      BY <2>2, <2>3
  <1>2. SUFFICES ASSUME ~dumped' PROVE Undropped'
    BY <1>1 DEF LevelInv
  <1>3. Undropped /\ venue \in {"bitstamp", "bitfinex"}
    BY <1>1, <1>2 DEF LevelInv
  <1>4. CASE Passes
    BY <1>3, <1>4, PassesInv
  <1>5. CASE Subscription
    BY <1>3, <1>5, SubscriptionInv
  <1>6. CASE Made
    BY <1>3, <1>6, MadeInv
  <1>7. CASE Pause
    BY <1>3, <1>7, UndroppedKept DEF Pause
  <1>8. CASE Message
    BY <1>2, <1>3, <1>8, MessageInv
  <1>9. CASE TakeBase
    BY <1>3, <1>9, TakeBaseInv
  <1>10. ASSUME NEW l \in Levels, NEW v \in {-1, 0, 1}, LevelChanges(l, v) PROVE Undropped'
    BY <1>3, <1>10, LevelChangesInv
  <1>11. CASE UNCHANGED levelVars
    BY <1>3, <1>11, UndroppedKept DEF levelVars
  <1> QED
    BY <1>4, <1>5, <1>6, <1>7, <1>8, <1>9, <1>10, <1>11 DEF LevelNext

\* When Bitstamp's or Bitfinex's messages have caught up with the base, the book
\* is the exchange's, however early the base came and however far off the
\* exchange's clock is: but for the levels that a change was passed over of,
\* which takes a clock ahead of ours, and unless the auditor's stop has dropped a
\* message (onMessage and parse_response of the two feeds).
THEOREM LevelsFollowAlways == ServiceSpec => []LevelsFollow
  <1>1. ServiceInit => LevelInv
    BY PartsStart, LevelInitInv
  <1>2. LevelInv /\ [ServiceNext]_<<feedsVars, serviceVars>> => LevelInv'
    BY PartsStep, LevelStepInv
  <1>3. LevelInv => LevelsFollow
    <2>1. SUFFICES ASSUME LevelInv, ~dumped PROVE LevelsFollow
      BY DEF LevelsFollow, CaughtUp
    <2>2. Undropped /\ venue \in {"bitstamp", "bitfinex"}
      BY <2>1 DEF LevelInv
    <2>3. passedOver # {} => skew > 0
      BY <2>2 DEF Undropped, Timed
    <2>4. ASSUME CaughtUp, NEW l \in Levels \ passedOver
          PROVE  /\ levels.bids[l] = BookAt(position).bids[l]
                 /\ levels.asks[l] = BookAt(position).asks[l]
      <3>1. CASE venue = "bitfinex"
        BY <2>2, <2>4, <3>1 DEF Undropped, CaughtUp
      <3>2. CASE venue = "bitstamp"
        <4>1. /\ Fits(levels, position, Levels \ passedOver)
              /\ position \in 0..Len(changes) /\ from \in Int /\ changes \in Seq(LevelChange)
          BY <2>2, <2>4, <3>2 DEF Undropped, Timed, Based, CaughtUp, LegalChanges
        <4>2. ~(position < from)
          BY <2>4, <4>1 DEF CaughtUp
        <4>3. RightAt(levels, position, Levels \ passedOver)
          BY <4>1, <4>2 DEF Fits
        <4> QED
          BY <2>4, <4>1, <4>3, BookIs DEF RightAt
      <3> QED
        BY <2>2, <3>1, <3>2
    <2> QED
      BY <2>3, <2>4 DEF LevelsFollow
  <1> QED
    BY <1>1, <1>2, <1>3, PTL DEF ServiceSpec

-----------------------------------------------------------------------------
(* Coinbase's stream.  What the exchange's book is after each change.      *)

ChangeTypes == {"received", "open", "change", "done", "match"}
OrderChange == [order : Orders, type : ChangeTypes, size : Nat]

\* A change of the book, which is no match.
Kept(n) == log[n].type # "match"
KeptOf(o, n) == log[n].order = o /\ Kept(n)
SameOrder(i, j) == log[i].order = log[j].order /\ Kept(i) /\ Kept(j)

\* An order opens once, when it was received, changes when it is open, and is
\* done for good.
LegalLog ==
  /\ log \in Seq(OrderChange)
  /\ \A j \in 1..Len(log) :
       /\ log[j].type = "open" =>
            /\ log[j].size = 2
            /\ \E i \in 1..(j - 1) : SameOrder(i, j) /\ log[i].type = "received"
       /\ log[j].type = "change" =>
            /\ log[j].size = 1
            /\ \E i \in 1..(j - 1) : SameOrder(i, j) /\ log[i].type = "open"
  /\ \A i, j \in 1..Len(log) :
       i < j /\ SameOrder(i, j) =>
         /\ log[i].type # "done" /\ log[j].type # "received"
         /\ log[j].type = "open" => log[i].type = "received"

ChangesBy(o, n) == {i \in 1..n : log[i].order = o /\ log[i].type # "match"}

LEMMA LastIs ==
  ASSUME NEW o, NEW n \in Nat
  PROVE  /\ LastChange(o, n) \in 0..n
         /\ LastChange(o, n) # 0 => KeptOf(o, LastChange(o, n))
         /\ \A i \in 1..n : KeptOf(o, i) => i <= LastChange(o, n)
  <1> DEFINE S == ChangesBy(o, n)
  <1>1. S \in SUBSET (1..n)
    BY DEF ChangesBy
  <1>2. LastChange(o, n) = Max({0} \cup S)
    BY DEF LastChange, ChangesBy
  <1>3. CASE S = {}
    <2>1. {0} \cup S \in SUBSET Int /\ 0 \in {0} \cup S /\ \A x \in {0} \cup S : x <= 0
      BY <1>3
    <2>2. LastChange(o, n) = 0
      <3> HIDE DEF S
      <3> QED
        BY <1>2, <2>1, MaxIs
    <2>3. \A i \in 1..n : ~KeptOf(o, i)
      BY <1>3 DEF ChangesBy, KeptOf, Kept
    <2> QED
      BY <2>2, <2>3
  <1>4. CASE S # {}
    <2>1. Max(S) \in S /\ \A x \in S : x <= Max(S)
      <3> HIDE DEF S
      <3> QED
        BY <1>1, <1>4, MaxFound
    <2>2. {0} \cup S \in SUBSET Int /\ Max(S) \in {0} \cup S /\ \A x \in {0} \cup S : x <= Max(S)
      <3> HIDE DEF S
      <3>1. Max(S) \in 1..n
        BY <1>1, <2>1
      <3> QED
        BY <1>1, <2>1, <3>1
    <2>3. LastChange(o, n) = Max(S)
      <3> HIDE DEF S
      <3> QED
        BY <1>2, <2>2, MaxIs
    <2>4. \A i \in 1..n : KeptOf(o, i) => i \in S
      BY DEF ChangesBy, KeptOf, Kept
    <2>5. \A i \in S : KeptOf(o, i)
      BY DEF ChangesBy, KeptOf, Kept
    <2> HIDE DEF S
    <2>6. PICK k \in S : k = LastChange(o, n)
      BY <2>1, <2>3
    <2>7. k \in 0..n /\ KeptOf(o, k)
      BY <1>1, <2>5, <2>6
    <2>8. \A i \in 1..n : KeptOf(o, i) => i <= k
      BY <2>1, <2>3, <2>4, <2>6
    <2> QED
      BY <2>6, <2>7, <2>8
  <1> QED
    BY <1>3, <1>4

\* It is the only number of that kind.
LEMMA LastOnly ==
  ASSUME NEW o, NEW n \in Nat, NEW m \in 0..n, m # 0 => KeptOf(o, m),
         \A i \in (m + 1)..n : ~KeptOf(o, i)
  PROVE  LastChange(o, n) = m
  <1>1. /\ LastChange(o, n) \in 0..n
        /\ LastChange(o, n) # 0 => KeptOf(o, LastChange(o, n))
        /\ \A i \in 1..n : KeptOf(o, i) => i <= LastChange(o, n)
    BY LastIs
  <1>2. PICK k \in 0..n : k = LastChange(o, n)
    BY <1>1
  <1>3. ~(k > m)
    BY <1>1, <1>2
  <1>4. ~(m > k)
    BY <1>1, <1>2
  <1> QED
    BY <1>2, <1>3, <1>4

\* Between two changes of an order its volume is the same.
LEMMA SameSpan ==
  ASSUME NEW o, NEW n \in Nat, NEW m \in 0..n, \A i \in (m + 1)..n : ~KeptOf(o, i)
  PROVE  LastChange(o, n) = LastChange(o, m) /\ VolumeAt(o, n) = VolumeAt(o, m)
  <1>1. m \in Nat
    OBVIOUS
  <1>2. PICK k \in 0..m : k = LastChange(o, m)
    BY <1>1, LastIs
  <1>3. k # 0 => KeptOf(o, k)
    BY <1>1, <1>2, LastIs
  <1>4. \A i \in 1..m : KeptOf(o, i) => i <= k
    BY <1>1, <1>2, LastIs
  <1>5. \A i \in (k + 1)..n : ~KeptOf(o, i)
    BY <1>4
  <1>6. LastChange(o, n) = k
    BY <1>3, <1>5, LastOnly
  <1> QED
    BY <1>2, <1>6 DEF VolumeAt

LEMMA ChangeNext ==
  ASSUME NEW o, NEW n \in Nat, n > 0, KeptOf(o, n)
  PROVE  /\ LastChange(o, n) = n
         /\ VolumeAt(o, n) = IF log[n].type \in {"open", "change"} THEN log[n].size ELSE 0
  <1>1. \A i \in (n + 1)..n : ~KeptOf(o, i)
    OBVIOUS
  <1>2. LastChange(o, n) = n
    BY <1>1, LastOnly
  <1> QED
    BY <1>2 DEF VolumeAt

LEMMA BookVolumes ==
  ASSUME LegalLog, NEW o, NEW n \in 0..Len(log)
  PROVE  /\ VolumeAt(o, n) \in Nat
         /\ VolumeAt(o, n) > 0 <=> /\ LastChange(o, n) # 0
                                   /\ log[LastChange(o, n)].type \in {"open", "change"}
  <1>1. n \in Nat
    BY DEF LegalLog
  <1>2. PICK k \in 0..n : k = LastChange(o, n)
    BY <1>1, LastIs
  <1>3. ASSUME k # 0 PROVE k \in 1..Len(log) /\ log[k] \in OrderChange
    BY <1>3 DEF LegalLog
  <1> QED
    BY <1>2, <1>3 DEF VolumeAt, LegalLog, OrderChange

-----------------------------------------------------------------------------
(* The book of an order after the changes up to t have been worked on, when *)
(* its base is Base.                                                        *)

Base == Last(bases)

\* v is its volume, heard says that its 'received' is kept; free, that the old
\* changes of the backlog are applied too.
Good(v, heard, o, t, free) ==
  /\ t <= Base => \/ v = VolumeAt(o, Base)
                  \/ free /\ t >= book.first /\ v = VolumeAt(o, t) /\ v > 0
  /\ t >= Base =>
       /\ v = VolumeAt(o, t) \/ (Orphan(o) /\ v = 0)
       /\ LastChange(o, t) > Base /\ log[LastChange(o, t)].type = "received" => heard

BaseFound == Base \in 1..Len(log) /\ book.first \in 1..(Base - 1)

\* Nothing of the order happens between t and n.
LEMMA GoodSpan ==
  ASSUME LegalLog, BaseFound, NEW o, NEW v \in Nat, NEW heard, NEW heard2, NEW free,
         NEW n \in 0..Len(log), NEW t \in 0..n, Good(v, heard, o, t, free),
         heard => heard2, \A i \in (t + 1)..n : ~KeptOf(o, i)
  PROVE  Good(v, heard2, o, n, free)
  <1>1. n \in Nat /\ t \in Nat /\ Base \in Nat /\ book.first \in Nat
    BY DEF LegalLog, BaseFound
  <1>2. LastChange(o, n) = LastChange(o, t) /\ VolumeAt(o, n) = VolumeAt(o, t)
    BY <1>1, SameSpan
  <1>3. CASE n <= Base /\ n # Base
    BY <1>1, <1>2, <1>3 DEF Good
  <1>4. CASE t >= Base
    <2>1. n >= Base /\ (n <= Base => t = n)
      BY <1>1, <1>4
    <2>2. t >= Base
      BY <1>4
    <2>3. /\ v = VolumeAt(o, t) \/ (Orphan(o) /\ v = 0)
          /\ LastChange(o, t) > Base /\ log[LastChange(o, t)].type = "received" => heard
      BY <2>2 DEF Good
    <2>4. n <= Base => \/ v = VolumeAt(o, Base)
                       \/ free /\ n >= book.first /\ v = VolumeAt(o, n) /\ v > 0
      BY <2>1 DEF Good
    <2> QED
      BY <1>2, <2>3, <2>4 DEF Good
  <1>5. CASE t < Base /\ n >= Base
    <2>1. \A i \in (t + 1)..Base : ~KeptOf(o, i)
      BY <1>1, <1>5
    <2>2. LastChange(o, Base) = LastChange(o, t) /\ VolumeAt(o, Base) = VolumeAt(o, t)
      BY <1>1, <1>5, <2>1, SameSpan
    <2>3. PICK k \in 0..t : k = LastChange(o, t)
      BY <1>1, LastIs
    <2>4. ~(LastChange(o, n) > Base)
      BY <1>1, <1>2, <1>5, <2>3
    <2>5. v = VolumeAt(o, Base)
      BY <1>1, <1>5, <2>2 DEF Good
    <2> QED
      BY <1>2, <2>2, <2>4, <2>5 DEF Good
  <1> QED
    BY <1>1, <1>3, <1>4, <1>5

\* Its change n is applied.
LEMMA GoodApplied ==
  ASSUME LegalLog, BaseFound, NEW o, NEW v \in Nat, NEW heard, NEW free,
         NEW n \in 1..Len(log), KeptOf(o, n), n >= book.first,
         Good(v, heard, o, n - 1, free), free \/ n > Base
  PROVE  /\ log[n].type = "received" => Good(v, TRUE, o, n, free)
         /\ log[n].type = "open" /\ heard => Good(log[n].size, FALSE, o, n, free)
         /\ log[n].type = "open" /\ ~heard => Good(v, heard, o, n, free)
         /\ log[n].type = "done" => Good(0, heard, o, n, free)
         /\ log[n].type = "change" => Good(IF v > 0 THEN log[n].size ELSE v, heard, o, n, free)
  <1>1. n \in Nat /\ n - 1 \in Nat /\ Base \in Nat /\ book.first \in Nat /\ n > 0
    BY DEF LegalLog, BaseFound
  <1>2. /\ LastChange(o, n) = n
        /\ VolumeAt(o, n) = IF log[n].type \in {"open", "change"} THEN log[n].size ELSE 0
    BY <1>1, ChangeNext
  <1>3. PICK k \in 0..(n - 1) : k = LastChange(o, n - 1)
    BY <1>1, LastIs
  <1>4. /\ VolumeAt(o, n - 1) \in Nat
        /\ VolumeAt(o, n - 1) > 0 <=> k # 0 /\ log[k].type \in {"open", "change"}
        /\ VolumeAt(o, Base) \in Nat
    <2>1. n - 1 \in 0..Len(log) /\ Base \in 0..Len(log)
      BY <1>1 DEF BaseFound
    <2> QED
      BY <1>3, <2>1, BookVolumes
  <1>5. k # 0 => KeptOf(o, k)
    BY <1>1, <1>3, LastIs
  <1>6. \A i \in 1..(n - 1) : KeptOf(o, i) => i <= k
    BY <1>1, <1>3, LastIs
  \* What stands in the log before n.
  <1>7. ASSUME k # 0
        PROVE  /\ log[k].type # "done" /\ log[n].type # "received"
               /\ log[n].type = "open" => log[k].type = "received"
    <2>1. k \in 1..Len(log) /\ k < n /\ SameOrder(k, n)
      BY <1>5, <1>7 DEF SameOrder, KeptOf, LegalLog
    <2> QED
      BY <2>1 DEF LegalLog
  <1>8. ASSUME log[n].type = "open"
        PROVE  log[n].size = 2 /\ k # 0 /\ log[k].type = "received"
    <2>1. PICK i \in 1..(n - 1) : SameOrder(i, n) /\ log[i].type = "received"
      BY <1>8 DEF LegalLog
    <2>2. i <= k
      BY <1>6, <2>1 DEF SameOrder, KeptOf
    <2> QED
      BY <1>7, <1>8, <2>2 DEF LegalLog
  <1>9. ASSUME log[n].type = "change"
        PROVE  log[n].size = 1 /\ VolumeAt(o, n - 1) > 0
    <2>1. PICK i \in 1..(n - 1) : SameOrder(i, n) /\ log[i].type = "open"
      BY <1>9 DEF LegalLog
    <2>2. i <= k
      BY <1>6, <2>1 DEF SameOrder, KeptOf
    <2>3. log[k].type # "done" /\ KeptOf(o, k)
      BY <1>5, <1>7, <2>2
    <2>4. log[k].type # "received"
      <3>1. CASE i = k
        BY <2>1, <3>1
      <3>2. CASE i < k
        <4>1. SameOrder(i, k) /\ k \in 1..Len(log) /\ i \in 1..Len(log)
          BY <2>1, <2>3, <3>2 DEF SameOrder, KeptOf, LegalLog
        <4> QED
          BY <3>2, <4>1 DEF LegalLog
      <3> QED
        BY <2>2, <3>1, <3>2
    <2>5. k \in 1..Len(log) /\ log[k] \in OrderChange
      BY <2>2 DEF LegalLog
    <2>6. log[k].type \in {"open", "change"}
      BY <2>3, <2>4, <2>5 DEF OrderChange, ChangeTypes, KeptOf, Kept
    <2> QED
      BY <1>4, <1>9, <2>2, <2>6 DEF LegalLog
  <1>10. CASE n <= Base
    <2>1. free
      BY <1>1, <1>10
    <2>2. v = VolumeAt(o, Base) \/ (v = VolumeAt(o, n - 1) /\ v > 0)
      BY <1>1, <1>10 DEF Good
    <2>3. ASSUME NEW w, NEW h, w = VolumeAt(o, Base) \/ (w = VolumeAt(o, n) /\ w > 0)
          PROVE  Good(w, h, o, n, free)
      <3>1. n >= Base => n = Base
        BY <1>1, <1>10
      <3> QED
        BY <1>1, <1>2, <2>1, <2>3, <3>1 DEF Good
    <2>4. ASSUME log[n].type = "done" PROVE VolumeAt(o, Base) = 0
      <3>1. \A i \in (n + 1)..Base : ~KeptOf(o, i)
        <4>1. SUFFICES ASSUME NEW i \in (n + 1)..Base, KeptOf(o, i) PROVE FALSE
          OBVIOUS
        <4>2. i \in 1..Len(log) /\ n < i /\ SameOrder(n, i)
          BY <1>1, <4>1 DEF SameOrder, KeptOf, BaseFound
        <4> QED
          BY <2>4, <4>2 DEF LegalLog
      <3>2. VolumeAt(o, Base) = VolumeAt(o, n)
        <4>1. n \in 0..Base
          BY <1>1, <1>10
        <4> QED
          BY <1>1, <3>1, <4>1, SameSpan
      <3> QED
        BY <1>2, <2>4, <3>2
    <2>5. ASSUME log[n].type = "received" PROVE v = VolumeAt(o, Base)
      BY <1>4, <1>7, <2>2, <2>5
    <2>6. ASSUME log[n].type = "open" PROVE v = VolumeAt(o, Base)
      <3>1. ~(VolumeAt(o, n - 1) > 0)
        BY <1>4, <1>8, <2>6
      <3> QED
        BY <2>2, <3>1
    <2>7. ASSUME log[n].type = "change", v > 0 PROVE VolumeAt(o, n) = 1 /\ log[n].size = 1
      BY <1>2, <1>9, <2>7
    <2>8. ASSUME log[n].type = "change", ~(v > 0) PROVE v = VolumeAt(o, Base)
      BY <2>2, <2>8
    <2>9. ASSUME log[n].type = "open" PROVE VolumeAt(o, n) = 2 /\ log[n].size = 2
      BY <1>2, <1>8, <2>9
    <2>10. log[n].type = "received" => Good(v, TRUE, o, n, free)
      BY <2>3, <2>5
    <2>11. log[n].type = "open" /\ heard => Good(log[n].size, FALSE, o, n, free)
      <3>1. log[n].type = "open" => log[n].size = VolumeAt(o, n) /\ log[n].size > 0
        BY <2>9
      <3> QED
        BY <2>3, <3>1
    <2>12. log[n].type = "open" /\ ~heard => Good(v, heard, o, n, free)
      BY <2>3, <2>6
    <2>13. log[n].type = "done" => Good(0, heard, o, n, free)
      BY <2>3, <2>4
    <2>14. log[n].type = "change" => Good(IF v > 0 THEN log[n].size ELSE v, heard, o, n, free)
      BY <2>3, <2>7, <2>8
    <2> QED
      BY <2>10, <2>11, <2>12, <2>13, <2>14
  <1>11. CASE n > Base
    <2>1. /\ n - 1 >= Base /\ ~(n <= Base)
          /\ v = VolumeAt(o, n - 1) \/ (Orphan(o) /\ v = 0)
          /\ k > Base /\ log[k].type = "received" => heard
      BY <1>1, <1>3, <1>11 DEF Good
    <2>2. ASSUME NEW w, NEW h, w = VolumeAt(o, n) \/ (Orphan(o) /\ w = 0),
                 log[n].type = "received" => h
          PROVE  Good(w, h, o, n, free)
      BY <1>2, <2>1, <2>2 DEF Good
    <2>3. ASSUME log[n].type = "received" PROVE v = 0 /\ VolumeAt(o, n) = 0
      <3>1. VolumeAt(o, n - 1) = 0
        BY <1>4, <1>7, <2>3
      <3> QED
        BY <1>2, <2>1, <2>3, <3>1
    <2>4. ASSUME log[n].type = "open", ~heard PROVE Orphan(o) /\ v = 0
      <3>1. k # 0 /\ log[k].type = "received" /\ KeptOf(o, k)
        BY <1>5, <1>8, <2>4
      <3>2. ~(k > Base)
        BY <2>1, <2>4, <3>1
      <3>3. k \in 1..Base /\ n \in (Base + 1)..Len(log)
        BY <1>1, <1>11, <3>1, <3>2
      <3>4. Orphan(o)
        <4>1. k \in 1..Last(bases) /\ n \in (Last(bases) + 1)..Len(log)
          BY <3>3 DEF Base
        <4> QED
          BY <2>4, <3>1, <4>1 DEF Orphan, KeptOf
      <3>5. ~(VolumeAt(o, n - 1) > 0)
        BY <1>4, <3>1
      <3> QED
        BY <1>4, <2>1, <3>4, <3>5
    <2>5. ASSUME log[n].type = "change"
          PROVE  \/ (IF v > 0 THEN log[n].size ELSE v) = VolumeAt(o, n)
                 \/ Orphan(o) /\ (IF v > 0 THEN log[n].size ELSE v) = 0
      BY <1>2, <1>9, <2>1, <2>5
    <2>6. log[n].type = "received" => Good(v, TRUE, o, n, free)
      BY <2>2, <2>3
    <2>7. log[n].type = "open" /\ heard => Good(log[n].size, FALSE, o, n, free)
      BY <1>2, <1>8, <2>2
    <2>8. log[n].type = "open" /\ ~heard => Good(v, heard, o, n, free)
      BY <2>2, <2>4
    <2>9. log[n].type = "done" => Good(0, heard, o, n, free)
      BY <1>2, <2>2
    <2>10. log[n].type = "change" => Good(IF v > 0 THEN log[n].size ELSE v, heard, o, n, free)
      BY <2>2, <2>5
    <2> QED
      BY <2>6, <2>7, <2>8, <2>9, <2>10
  <1>12. n <= Base \/ n > Base
    BY <1>1
  <1> QED
    BY <1>10, <1>11, <1>12, Zenon

\* Its change n is dropped, for it is not after the base.
LEMMA GoodDropped ==
  ASSUME LegalLog, BaseFound, book.base \in Nat,
         book.base = Base \/ book.base <= book.first,
         NEW o, NEW v \in Nat, NEW heard, NEW n \in 1..Len(log), n >= book.first,
         n <= book.base, Good(v, heard, o, n - 1, book.base <= book.first)
  PROVE  Good(v, heard, o, n, book.base <= book.first)
  <1>1. n \in Nat /\ Base \in Nat /\ book.first \in Nat /\ n <= Base /\ book.first < Base
    BY DEF LegalLog, BaseFound
  <1>2. v = VolumeAt(o, Base)
    BY <1>1 DEF Good
  <1>3. n = Base => ~(LastChange(o, n) > Base)
    <2>1. PICK k \in 0..n : k = LastChange(o, n)
      BY <1>1, LastIs
    <2> QED
      BY <1>1, <2>1
  <1>4. n >= Base => n = Base
    BY <1>1
  <1> QED
    BY <1>1, <1>2, <1>3, <1>4 DEF Good

-----------------------------------------------------------------------------
(* Changes that are applied.                                               *)

Work == [book : [Orders -> Nat], received : SUBSET Orders, ok : BOOLEAN, left : SUBSET Nat]

LEMMA KeptTypes ==
  ASSUME LegalLog, NEW n \in 1..Len(log)
  PROVE  /\ log[n].order \in Orders /\ log[n].size \in Nat /\ log[n].type \in ChangeTypes
         /\ Kept(n) => log[n].type \in {"received", "open", "change", "done"}
  <1>1. log[n] \in OrderChange
    BY DEF LegalLog
  <1> QED
    BY <1>1 DEF OrderChange, ChangeTypes, Kept

\* What apply_change_to_orderbook makes of s for the order of a change c.
AppliedTo(s, r, c) ==
  LET o == c.order
  IN  /\ c.type = "received" => r.book[o] = s.book[o] /\ o \in r.received
      /\ c.type = "open" /\ o \in s.received => r.book[o] = c.size /\ o \notin r.received
      /\ c.type = "open" /\ o \notin s.received => r.book[o] = s.book[o] /\ o \notin r.received
      /\ c.type = "done" => r.book[o] = 0 /\ (o \in r.received <=> o \in s.received)
      /\ c.type = "change" =>
           /\ r.book[o] = IF s.book[o] > 0 THEN c.size ELSE s.book[o]
           /\ o \in r.received <=> o \in s.received

Untouched(s, r, q) == r.book[q] = s.book[q] /\ (q \in r.received <=> q \in s.received)

LEMMA WorkNew ==
  ASSUME NEW s \in Work, NEW o \in Orders, NEW v \in Nat, NEW R \in SUBSET Orders
  PROVE  /\ [s EXCEPT !.book[o] = v] \in Work
         /\ [s EXCEPT !.received = R] \in Work
         /\ [s EXCEPT !.book[o] = v, !.received = R] \in Work
         /\ [s EXCEPT !.ok = FALSE] \in Work
         /\ \A n \in Nat : [s EXCEPT !.left = @ \cup {n}] \in Work
  BY DEF Work

LEMMA ApplyIs ==
  ASSUME LegalLog, NEW s \in Work, NEW n \in 1..Len(log), Kept(n)
  PROVE  /\ ApplyChange(s, n) \in Work /\ ApplyChange(s, n).left = s.left
         /\ AppliedTo(s, ApplyChange(s, n), log[n])
         /\ \A q \in Orders : q # log[n].order => Untouched(s, ApplyChange(s, n), q)
  <1>1. PICK c : c = log[n]
    OBVIOUS
  <1>2. PICK o \in Orders : o = c.order
    BY <1>1, KeptTypes
  <1>3. c.type \in {"received", "open", "change", "done"} /\ c.size \in Nat
    BY <1>1, KeptTypes
  <1>4. PICK r : r = ApplyChange(s, n)
    OBVIOUS
  <1>5. /\ s.book \in [Orders -> Nat] /\ s.received \in SUBSET Orders
        /\ s = [book |-> s.book, received |-> s.received, ok |-> s.ok, left |-> s.left]
    BY DEF Work
  <1>6. SUFFICES /\ r \in Work /\ r.left = s.left /\ AppliedTo(s, r, c)
                 /\ \A q \in Orders : q # o => Untouched(s, r, q)
    BY <1>1, <1>2, <1>4
  <1>7. CASE c.type = "received"
    <2>1. r = [s EXCEPT !.received = @ \cup {o}]
      BY <1>1, <1>2, <1>4, <1>7 DEF ApplyChange
    <2>2. s.received \cup {o} \in SUBSET Orders
      BY <1>5
    <2>3. r \in Work
      BY <2>1, <2>2, WorkNew
    <2>4. r.left = s.left /\ r.book = s.book /\ r.received = s.received \cup {o}
      BY <1>5, <2>1
    <2> QED
      BY <1>2, <1>7, <2>3, <2>4 DEF AppliedTo, Untouched
  <1>8. CASE c.type = "open" /\ o \in s.received
    <2>1. r = [s EXCEPT !.book[o] = c.size, !.received = @ \ {o}]
      BY <1>1, <1>2, <1>4, <1>8 DEF ApplyChange, Opened
    <2>2. s.received \ {o} \in SUBSET Orders
      BY <1>5
    <2>3. r \in Work
      BY <1>3, <2>1, <2>2, WorkNew
    <2>4. /\ r.left = s.left /\ r.book = [s.book EXCEPT ![o] = c.size]
          /\ r.received = s.received \ {o}
      BY <1>5, <2>1
    <2> QED
      BY <1>2, <1>5, <1>8, <2>3, <2>4 DEF AppliedTo, Untouched
  <1>9. CASE c.type = "open" /\ o \notin s.received
    <2>1. r = [s EXCEPT !.ok = FALSE]
      BY <1>1, <1>2, <1>4, <1>9 DEF ApplyChange, Opened
    <2>2. r \in Work
      BY <1>3, <2>1, WorkNew
    <2>3. r.left = s.left /\ r.book = s.book /\ r.received = s.received
      BY <1>5, <2>1
    <2> QED
      BY <1>2, <1>9, <2>2, <2>3 DEF AppliedTo, Untouched
  <1>10. CASE c.type = "done"
    <2>1. r = [s EXCEPT !.book[o] = 0]
      BY <1>1, <1>2, <1>4, <1>10 DEF ApplyChange
    <2>2. r \in Work
      BY <2>1, WorkNew
    <2>3. r.left = s.left /\ r.book = [s.book EXCEPT ![o] = 0] /\ r.received = s.received
      BY <1>5, <2>1
    <2> QED
      BY <1>2, <1>5, <1>10, <2>2, <2>3 DEF AppliedTo, Untouched
  <1>11. CASE c.type = "change" /\ s.book[o] > 0
    <2>1. r = [s EXCEPT !.book[o] = c.size]
      BY <1>1, <1>2, <1>4, <1>11 DEF ApplyChange
    <2>2. r \in Work
      BY <1>3, <2>1, WorkNew
    <2>3. r.left = s.left /\ r.book = [s.book EXCEPT ![o] = c.size] /\ r.received = s.received
      BY <1>5, <2>1
    <2> QED
      BY <1>2, <1>5, <1>11, <2>2, <2>3 DEF AppliedTo, Untouched
  <1>12. CASE c.type = "change" /\ ~(s.book[o] > 0)
    <2>1. r = s
      BY <1>1, <1>2, <1>4, <1>12 DEF ApplyChange
    <2> QED
      BY <1>2, <1>12, <2>1 DEF AppliedTo, Untouched
  <1> QED
    BY <1>3, <1>7, <1>8, <1>9, <1>10, <1>11, <1>12

LEMMA GoodChange ==
  ASSUME LegalLog, BaseFound, NEW s \in Work, NEW n \in 1..Len(log), Kept(n),
         NEW o \in Orders, n >= book.first, NEW free, free \/ n > Base,
         Good(s.book[o], o \in s.received, o, n - 1, free)
  PROVE  Good(ApplyChange(s, n).book[o], o \in ApplyChange(s, n).received, o, n, free)
  <1>1. PICK r : r = ApplyChange(s, n)
    OBVIOUS
  <1>2. /\ r \in Work /\ AppliedTo(s, r, log[n])
        /\ \A q \in Orders : q # log[n].order => Untouched(s, r, q)
    BY <1>1, ApplyIs
  <1>3. s.book[o] \in Nat /\ r.book[o] \in Nat
    BY <1>2 DEF Work
  <1>4. CASE log[n].order # o
    <2>1. r.book[o] = s.book[o] /\ (o \in s.received => o \in r.received)
      BY <1>2, <1>4 DEF Untouched
    <2>2. \A i \in ((n - 1) + 1)..n : ~KeptOf(o, i)
      BY <1>4 DEF KeptOf
    <2>3. n \in 0..Len(log) /\ n - 1 \in 0..n
      BY DEF LegalLog
    <2>4. Good(s.book[o], o \in r.received, o, n, free)
      BY <1>3, <2>1, <2>2, <2>3, GoodSpan
    <2> QED
      BY <1>1, <2>1, <2>4
  <1>5. CASE log[n].order = o
    <2>1. KeptOf(o, n)
      BY <1>5 DEF KeptOf
    <2>2. /\ log[n].type = "received" => Good(s.book[o], TRUE, o, n, free)
          /\ log[n].type = "open" /\ o \in s.received => Good(log[n].size, FALSE, o, n, free)
          /\ log[n].type = "open" /\ ~(o \in s.received) =>
               Good(s.book[o], o \in s.received, o, n, free)
          /\ log[n].type = "done" => Good(0, o \in s.received, o, n, free)
          /\ log[n].type = "change" =>
               Good(IF s.book[o] > 0 THEN log[n].size ELSE s.book[o], o \in s.received, o, n,
                    free)
      BY <1>3, <2>1, GoodApplied
    <2>3. log[n].type \in {"received", "open", "change", "done"}
      BY KeptTypes
    <2>4. PICK heard \in BOOLEAN : heard <=> o \in r.received
      OBVIOUS
    <2>5. PICK heard0 \in BOOLEAN : heard0 <=> o \in s.received
      OBVIOUS
    <2>6. SUFFICES Good(r.book[o], heard, o, n, free)
      BY <1>1, <2>4 DEF Good
    <2>7. CASE log[n].type = "received"
      BY <1>2, <1>5, <2>2, <2>4, <2>7 DEF AppliedTo, Good
    <2>8. CASE log[n].type = "open" /\ o \in s.received
      BY <1>2, <1>5, <2>2, <2>4, <2>8 DEF AppliedTo, Good
    <2>9. CASE log[n].type = "open" /\ o \notin s.received
      BY <1>2, <1>5, <2>2, <2>4, <2>9 DEF AppliedTo, Good
    <2>10. CASE log[n].type = "done"
      BY <1>2, <1>5, <2>2, <2>4, <2>10 DEF AppliedTo, Good
    <2>11. CASE log[n].type = "change"
      BY <1>2, <1>5, <2>2, <2>4, <2>11 DEF AppliedTo, Good
    <2> QED
      BY <2>3, <2>7, <2>8, <2>9, <2>10, <2>11
  <1> QED
    BY <1>4, <1>5

-----------------------------------------------------------------------------
(* The backlog, number by number.                                          *)

Walks(g, X, n) ==
  g = [i \in 0..n |-> IF i = 0 THEN Applying ELSE WorkOn(g[i - 1], i, X)]

LEMMA WalkMore ==
  ASSUME NEW X, NEW n \in Nat, NEW g, Walks(g, X, n)
  PROVE  \E h : Walks(h, X, n + 1)
  <1> DEFINE next(f, i) == IF i = 0 THEN Applying ELSE WorkOn(f[i - 1], i, X)
             h == [i \in 0..(n + 1) |-> next(g, i)]
  <1>1. \A i \in 0..n : g[i] = next(g, i)
    BY DEF Walks
  <1>2. ASSUME NEW i \in 0..(n + 1) PROVE h[i] = next(h, i)
    <2>1. h[i] = next(g, i)
      OBVIOUS
    <2>2. ASSUME i # 0 PROVE h[i - 1] = g[i - 1]
      <3>1. i - 1 \in 0..n /\ i - 1 \in 0..(n + 1)
        BY <2>2
      <3> QED
        BY <1>1, <3>1
    <2> HIDE DEF h
    <2> QED
      BY <2>1, <2>2
  <1>3. h = [i \in 0..(n + 1) |-> next(h, i)]
    <2>1. h = [i \in 0..(n + 1) |-> h[i]]
      OBVIOUS
    <2> HIDE DEF h, next
    <2> QED
      BY <1>2, <2>1, Zenon
  <1> HIDE DEF h
  <1> QED
    BY <1>3 DEF Walks

LEMMA WalkExists ==
  ASSUME NEW X, NEW n \in Nat
  PROVE  \E g : Walks(g, X, n)
  <1> DEFINE bad == {m \in Nat : ~\E g : Walks(g, X, m)}
  <1>1. SUFFICES ASSUME bad # {} PROVE FALSE
    OBVIOUS
  <1>2. PICK m \in bad : \A k \in bad : m <= k
    BY <1>1, LeastNumber
  <1>3. m # 0
    <2>1. Walks([i \in 0..0 |-> Applying], X, 0)
      BY DEF Walks
    <2> QED
      BY <2>1
  <1>4. m - 1 \in Nat /\ m - 1 \notin bad
    BY <1>2, <1>3
  <1>5. PICK g : Walks(g, X, m - 1)
    BY <1>4
  <1>6. \E h : Walks(h, X, (m - 1) + 1)
    BY <1>4, <1>5, WalkMore
  <1> QED
    BY <1>2, <1>6

LEMMA BacklogWalked ==
  ASSUME NEW X, Len(log) \in Nat
  PROVE  \E g : /\ g[0] = Applying
                /\ \A i \in 1..Len(log) : g[i] = WorkOn(g[i - 1], i, X)
                /\ ApplyBacklog(X) = g[Len(log)]
  <1> DEFINE N == Len(log)
             g == CHOOSE f : Walks(f, X, N)
  <1>1. Walks(g, X, N)
    BY WalkExists
  <1>2. ApplyBacklog(X) = g[N]
    BY DEF ApplyBacklog, Walks
  <1> HIDE DEF g
  <1>3. /\ g[0] = Applying
        /\ \A i \in 1..N : g[i] = WorkOn(g[i - 1], i, X)
    BY <1>1 DEF Walks
  <1> QED
    BY <1>2, <1>3

\* How far the walk has come: past x, or where a KeyError was; the changes from
\* the first message up to t had been worked on before.
Reached(t, c, f) == IF f <= t THEN t ELSE IF f <= c THEN f ELSE c

LeftOver(X, f, x) == {m \in X : f < m /\ m <= x}

Walked(s, X, U, t, c, x) ==
  /\ s \in Work
  /\ \E f \in 0..x :
       /\ s.ok => f = x
       /\ s.left = LeftOver(X, f, x)
       /\ \A o \in U : Good(s.book[o], o \in s.received, o, Reached(t, c, f),
                           book.base <= book.first)

\* A backlog X whose messages from the first one on are those after t; older ones
\* are dropped or change other orders than those of U.
Workable(X, U, t, c) ==
  /\ LegalLog /\ BaseFound /\ book.base \in Nat
  /\ book.base = Base \/ book.base <= book.first
  /\ c \in book.first..Len(log) /\ t \in (book.first - 1)..c
  /\ U \in SUBSET Orders
  /\ \A m \in X : m \in 1..c /\ Kept(m)
  /\ \A m \in book.first..c : m \in X <=> m > t /\ Kept(m)
  /\ \A m \in X : m < book.first => m <= book.base \/ log[m].order \notin U

LEMMA WalkedNext ==
  ASSUME NEW X, NEW U, NEW t, NEW c, Workable(X, U, t, c),
         NEW x \in 1..Len(log), NEW s, Walked(s, X, U, t, c, x - 1)
  PROVE  Walked(WorkOn(s, x, X), X, U, t, c, x)
  <1>1. /\ t \in Int /\ c \in Int /\ x \in Nat /\ x - 1 \in Nat /\ Base \in Nat
        /\ book.first \in Nat \ {0} /\ book.base \in Nat /\ t \in Nat /\ c \in Nat /\ t <= c
        /\ book.first <= t + 1 /\ c <= Len(log) /\ book.first < Base /\ book.first <= c
    BY DEF Workable, LegalLog, BaseFound
  <1>2. PICK f \in 0..(x - 1) :
          /\ s.ok => f = x - 1
          /\ s.left = LeftOver(X, f, x - 1)
          /\ \A o \in U : Good(s.book[o], o \in s.received, o, Reached(t, c, f),
                              book.base <= book.first)
    BY DEF Walked
  <1>3. s \in Work /\ f \in 0..x /\ x \in 0..x /\ f < x
    BY <1>1 DEF Walked
  <1>4. \A m \in X : m \in Nat
    BY <1>1 DEF Workable
  <1>5. LeftOver(X, x, x) = {}
    BY <1>1, <1>4 DEF LeftOver
  <1>6. CASE x \notin X
    <2>1. WorkOn(s, x, X) = s
      BY <1>6 DEF WorkOn
    <2>2. CASE ~s.ok
      <3>1. LeftOver(X, f, x) = LeftOver(X, f, x - 1)
        BY <1>1, <1>4, <1>6 DEF LeftOver
      <3> QED
        BY <1>2, <1>3, <2>1, <2>2, <3>1 DEF Walked
    <2>3. CASE s.ok
      <3>1. f = x - 1 /\ s.left = {}
        <4>1. f = x - 1
          BY <1>2, <2>3
        <4>2. LeftOver(X, x - 1, x - 1) = {}
          BY <1>1, <1>4 DEF LeftOver
        <4> QED
          BY <1>2, <4>1, <4>2
      <3>2. ASSUME NEW o \in U
            PROVE  Good(s.book[o], o \in s.received, o, Reached(t, c, x),
                        book.base <= book.first)
        <4>1. Good(s.book[o], o \in s.received, o, Reached(t, c, x - 1),
                   book.base <= book.first)
          BY <1>2, <3>1
        <4>2. CASE x <= t \/ x > c
          <5>1. Reached(t, c, x) = Reached(t, c, x - 1)
            BY <1>1, <4>2 DEF Reached
          <5> QED
            BY <4>1, <5>1
        <4>3. CASE t < x /\ x <= c
          <5>1. Reached(t, c, x) = x /\ Reached(t, c, x - 1) = x - 1
            BY <1>1, <4>3 DEF Reached
          <5>2. ~Kept(x)
            <6>1. x \in book.first..c
              BY <1>1, <4>3
            <6> QED
              BY <1>6, <4>3, <6>1 DEF Workable
          <5>3. \A i \in ((x - 1) + 1)..x : ~KeptOf(o, i)
            BY <1>1, <5>2 DEF KeptOf
          <5>4. s.book[o] \in Nat
            BY <1>3 DEF Work, Workable
          <5>5. x \in 0..Len(log) /\ x - 1 \in 0..x
            BY <1>1
          <5>6. Good(s.book[o], o \in s.received, o, x - 1, book.base <= book.first)
            BY <4>1, <5>1
          <5>7. Good(s.book[o], o \in s.received, o, x, book.base <= book.first)
            BY <5>3, <5>4, <5>5, <5>6, GoodSpan DEF Workable
          <5> QED
            BY <5>1, <5>7
        <4> QED
          BY <1>1, <4>2, <4>3
      <3> QED
        BY <1>3, <1>5, <2>1, <3>1, <3>2 DEF Walked
    <2> QED
      BY <2>2, <2>3
  <1>7. CASE x \in X /\ ~s.ok
    <2> DEFINE r == [s EXCEPT !.left = @ \cup {x}]
    <2>1. WorkOn(s, x, X) = r
      BY <1>7 DEF WorkOn
    <2>2. /\ r \in Work /\ r.book = s.book /\ r.received = s.received /\ r.ok = s.ok
          /\ r.left = s.left \cup {x}
      BY <1>1, <1>3 DEF Work
    <2>3. LeftOver(X, f, x) = LeftOver(X, f, x - 1) \cup {x}
      <3>1. \A m \in X : m <= x <=> m <= x - 1 \/ m = x
        BY <1>1, <1>4
      <3> QED
        BY <1>3, <1>7, <3>1, Zenon DEF LeftOver
    <2> HIDE DEF r
    <2> QED
      BY <1>2, <1>3, <1>7, <2>1, <2>2, <2>3 DEF Walked
  <1>8. CASE x \in X /\ s.ok
    <2>1. /\ x <= c /\ Kept(x) /\ f = x - 1 /\ s.left = {}
          /\ x >= book.first => x > t
      <3>1. f = x - 1
        BY <1>2, <1>8
      <3>2. LeftOver(X, x - 1, x - 1) = {}
        BY <1>1, <1>4 DEF LeftOver
      <3>3. x <= c /\ Kept(x)
        BY <1>1, <1>8 DEF Workable
      <3>4. x >= book.first => x \in book.first..c
        BY <1>1, <3>3
      <3> QED
        BY <1>2, <1>8, <3>1, <3>2, <3>3, <3>4 DEF Workable
    <2>2. \A o \in U : Good(s.book[o], o \in s.received, o, Reached(t, c, x - 1),
                           book.base <= book.first)
      BY <1>2, <2>1
    <2>3. x < book.first => Reached(t, c, x) = Reached(t, c, x - 1)
      BY <1>1 DEF Reached
    <2>4. x >= book.first => Reached(t, c, x) = x /\ Reached(t, c, x - 1) = x - 1
      BY <1>1, <2>1 DEF Reached
    <2>5. CASE x <= book.base
      <3>1. WorkOn(s, x, X) = s
        BY <1>1, <1>8, <2>5 DEF WorkOn
      <3>2. ASSUME NEW o \in U
            PROVE  Good(s.book[o], o \in s.received, o, Reached(t, c, x),
                        book.base <= book.first)
        <4>1. s.book[o] \in Nat
          BY <1>3 DEF Work, Workable
        <4>2. CASE x >= book.first
          <5>1. Good(s.book[o], o \in s.received, o, x - 1, book.base <= book.first)
            BY <2>2, <2>4, <4>2
          <5>2. Good(s.book[o], o \in s.received, o, x, book.base <= book.first)
            BY <2>5, <4>1, <4>2, <5>1, GoodDropped DEF Workable
          <5> QED
            BY <2>4, <4>2, <5>2
        <4>3. CASE x < book.first
          BY <2>2, <2>3, <4>3
        <4> QED
          BY <1>1, <4>2, <4>3
      <3> QED
        BY <1>3, <1>5, <2>1, <3>1, <3>2 DEF Walked
    <2>6. CASE x > book.base
      <3>1. PICK r : r = ApplyChange(s, x)
        OBVIOUS
      <3>2. WorkOn(s, x, X) = r
        BY <1>1, <1>8, <2>6, <3>1 DEF WorkOn
      <3>3. /\ r \in Work /\ r.left = {}
            /\ \A q \in Orders : q # log[x].order => Untouched(s, r, q)
        BY <1>3, <2>1, <3>1, ApplyIs DEF Workable
      <3>4. ASSUME NEW o \in U
            PROVE  Good(r.book[o], o \in r.received, o, Reached(t, c, x),
                        book.base <= book.first)
        <4>1. o \in Orders
          BY DEF Workable
        <4>2. CASE x >= book.first
          <5>1. Good(s.book[o], o \in s.received, o, x - 1, book.base <= book.first)
            BY <2>2, <2>4, <4>2
          <5>2. book.base <= book.first \/ x > Base
            BY <1>1, <2>6 DEF Workable
          <5>3. Good(r.book[o], o \in r.received, o, x, book.base <= book.first)
            BY <1>3, <2>1, <3>1, <4>1, <4>2, <5>1, <5>2, GoodChange DEF Workable
          <5> QED
            BY <2>4, <4>2, <5>3
        <4>3. CASE x < book.first
          <5>1. log[x].order \notin U
            BY <1>1, <1>8, <2>6, <4>3 DEF Workable
          <5>2. r.book[o] = s.book[o] /\ (o \in r.received <=> o \in s.received)
            BY <3>3, <4>1, <5>1 DEF Untouched
          <5> QED
            BY <2>2, <2>3, <4>3, <5>2 DEF Good
        <4> QED
          BY <1>1, <4>2, <4>3
      <3> QED
        BY <1>3, <1>5, <3>2, <3>3, <3>4 DEF Walked
    <2> QED
      BY <1>1, <2>5, <2>6
  <1> QED
    BY <1>6, <1>7, <1>8

\* The backlog is worked down: what is left are the messages after some t2.
LEMMA WorkedDown ==
  ASSUME NEW X, NEW U, NEW t, NEW c, Workable(X, U, t, c), Applying \in Work,
         \A o \in U : Good(orderbook[o], o \in book.received, o, t, book.base <= book.first)
  PROVE  /\ ApplyBacklog(X) \in Work /\ ApplyBacklog(X).left \in SUBSET X
         /\ \E t2 \in (book.first - 1)..c :
              /\ \A m \in book.first..c :
                   m \in ApplyBacklog(X).left <=> m > t2 /\ Kept(m)
              /\ \A o \in U : Good(ApplyBacklog(X).book[o], o \in ApplyBacklog(X).received,
                                  o, t2, book.base <= book.first)
  <1> DEFINE N == Len(log)
  <1>1. /\ N \in Nat /\ t \in Nat /\ c \in Nat /\ t <= c /\ book.first \in Nat
        /\ book.first <= t + 1 /\ c <= N /\ book.first >= 1
    BY DEF Workable, LegalLog, BaseFound
  <1>2. PICK g : /\ g[0] = Applying
                 /\ \A i \in 1..N : g[i] = WorkOn(g[i - 1], i, X)
                 /\ ApplyBacklog(X) = g[N]
    BY <1>1, BacklogWalked
  <1>3. Walked(g[0], X, U, t, c, 0)
    <2>1. Applying.book = orderbook /\ Applying.received = book.received /\ Applying.left = {}
      BY DEF Applying
    <2>2. Reached(t, c, 0) = t
      BY <1>1 DEF Reached
    <2>3. LeftOver(X, 0, 0) = {}
      BY DEF LeftOver, Workable
    <2>4. 0 \in 0..0
      OBVIOUS
    <2> QED
      BY <1>2, <2>1, <2>2, <2>3, <2>4 DEF Walked
  <1> DEFINE bad == {x \in 0..N : ~Walked(g[x], X, U, t, c, x)}
  <1>4. bad = {}
    <2>1. SUFFICES ASSUME bad # {} PROVE FALSE
      OBVIOUS
    <2>2. bad \subseteq Nat
      OBVIOUS
    <2>3. PICK x \in bad : \A i \in bad : x <= i
      <3> HIDE DEF bad
      <3> QED
        BY <2>1, <2>2, LeastNumber
    <2>4. x \in 1..N /\ x - 1 \in 0..N /\ x - 1 \notin bad
      BY <1>1, <1>3, <2>3
    <2>5. Walked(g[x - 1], X, U, t, c, x - 1)
      BY <2>4
    <2>6. Walked(WorkOn(g[x - 1], x, X), X, U, t, c, x)
      BY <2>4, <2>5, WalkedNext
    <2> QED
      BY <1>2, <2>3, <2>4, <2>6
  <1>5. Walked(g[N], X, U, t, c, N)
    BY <1>1, <1>4
  <1>6. PICK s : s = ApplyBacklog(X)
    OBVIOUS
  <1>7. PICK f \in 0..N :
          /\ s.left = LeftOver(X, f, N)
          /\ \A o \in U : Good(s.book[o], o \in s.received, o, Reached(t, c, f),
                              book.base <= book.first)
    BY <1>2, <1>5, <1>6 DEF Walked
  <1>8. s \in Work
    BY <1>2, <1>5, <1>6 DEF Walked
  <1>9. PICK t2 : t2 = Reached(t, c, f)
    OBVIOUS
  <1>10. t2 \in (book.first - 1)..c
    BY <1>1, <1>9 DEF Reached
  <1>11. ASSUME NEW m \in book.first..c PROVE m \in s.left <=> m > t2 /\ Kept(m)
    <2>1. m \in X <=> m > t /\ Kept(m)
      BY DEF Workable
    <2>2. m \in s.left <=> m \in X /\ f < m
      BY <1>1, <1>7 DEF LeftOver
    <2>3. m > t2 <=> m > t /\ m > f
      BY <1>1, <1>9 DEF Reached
    <2> QED
      BY <2>1, <2>2, <2>3
  <1>12. s.left \in SUBSET X
    BY <1>7 DEF LeftOver
  <1> QED
    BY <1>6, <1>7, <1>8, <1>9, <1>10, <1>11, <1>12

-----------------------------------------------------------------------------
(* The handler.  Messages come in order, and after all that were handled.   *)

HandlerRecord ==
  [first : Nat, current : Nat, base : Nat, backlog : SUBSET Nat, received : SUBSET Orders]

HandlerTypes ==
  /\ book \in HandlerRecord /\ orderbook \in [Orders -> Nat] \cup {NoBook}
  /\ resets \in SUBSET Nat /\ cleared \in SUBSET Nat
  /\ bases \in Seq(Nat) /\ answers \in Seq(Nat)
  /\ \A i \in 1..Len(answers) : answers[i] <= Len(log)
  /\ \A m \in skipped : m = 0 \/ m \in 1..Len(log)

Handled(x) == x <= sent /\ \A i \in 1..Len(line) : x < line[i]

InOrder ==
  /\ sent \in 0..Len(log) /\ line \in Seq(Nat)
  /\ \A i \in 1..Len(line) : 0 < line[i] /\ line[i] <= sent
  /\ \A i, j \in 1..Len(line) : i < j => line[i] < line[j]
  /\ \A x \in resets \cup cleared \cup book.backlog : Handled(x)
  /\ Handled(book.first) /\ Handled(book.current)
  /\ \A m \in book.backlog : 0 < m /\ Kept(m)
  /\ \A x \in cleared : book.first = 0 \/ x < book.first
  /\ \A m \in book.backlog : book.first = 0 \/ m <= book.current
  /\ book.first <= book.current
  /\ book.first = 0 => book.current = 0

\* Of the messages since the first those up to t have been worked on.
WorkedUpTo(t) ==
  \A m \in book.first..book.current : m \in book.backlog <=> m > t /\ Kept(m)

NoBase ==
  /\ bases = <<>> /\ skipped = {}
  /\ book.first # 0 => WorkedUpTo(book.first - 1)

\* All old messages of the backlog are applied as well.
Free == book.base <= book.first \/ book.backlog = {}

GoodBook(t) ==
  \A o \in Orders :
    Disturbed(o) \/ Good(orderbook[o], o \in book.received, o, t, Free)

BaseTaken ==
  /\ BaseFound /\ bases # <<>>
  /\ book.base = Base \/ book.base <= book.first
  /\ \A m \in book.backlog : m < book.first => m <= book.base \/ m \in skipped
  /\ \E t \in (book.first - 1)..book.current : WorkedUpTo(t) /\ GoodBook(t)

\* Of a book that a restart is going to throw away nothing is said.
BookInv == resets = {} => IF orderbook = NoBook THEN NoBase ELSE BaseTaken

CoinbaseInv == Orders # {} => LegalLog /\ HandlerTypes /\ InOrder /\ BookInv

LEMMA NoBookIs ==
  ASSUME Orders # {}, NEW b \in [Orders -> Nat]
  PROVE  b # NoBook
  <1>1. DOMAIN b # DOMAIN NoBook
    BY DEF NoBook
  <1> QED
    BY <1>1

LEMMA FeedInitInv == ASSUME FeedInit PROVE CoinbaseInv
  <1>1. LegalLog
    BY DEF FeedInit, LegalLog
  <1>2. HandlerTypes
    BY DEF FeedInit, HandlerTypes, HandlerRecord, Blank
  <1>3. InOrder
    BY DEF FeedInit, InOrder, Handled, Blank
  <1> QED
    BY <1>1, <1>2, <1>3 DEF CoinbaseInv, BookInv, FeedInit

-----------------------------------------------------------------------------
(* The steps of the exchange.                                              *)

LEMMA AppendLog ==
  ASSUME LegalLog, NEW c \in OrderChange, log' = Append(log, c)
  PROVE  /\ Len(log) \in Nat /\ Len(log') = Len(log) + 1 /\ log'[Len(log) + 1] = c
         /\ log' \in Seq(OrderChange)
         /\ \A i \in 1..Len(log) : log'[i] = log[i]
  BY DEF LegalLog

LEMMA VolumesBefore ==
  ASSUME LegalLog, NEW c \in OrderChange, log' = Append(log, c),
         NEW o, NEW n \in 0..Len(log)
  PROVE  LastChange(o, n)' = LastChange(o, n) /\ VolumeAt(o, n)' = VolumeAt(o, n)
  <1>1. n \in Nat /\ Len(log) \in Nat /\ \A i \in 1..n : log'[i] = log[i]
    BY AppendLog DEF LegalLog
  <1>2. {i \in 1..n : log'[i].order = o /\ log'[i].type # "match"}
          = {i \in 1..n : log[i].order = o /\ log[i].type # "match"}
    BY <1>1
  <1>3. LastChange(o, n)' = LastChange(o, n)
    BY <1>2 DEF LastChange
  <1>4. PICK k \in 0..n : k = LastChange(o, n)
    BY <1>1, LastIs
  <1>5. k # 0 => log'[k] = log[k]
    BY <1>1, <1>4
  <1> QED
    BY <1>3, <1>4, <1>5 DEF VolumeAt

LEMMA LegalNext ==
  ASSUME LegalLog, NEW o \in Orders, ExchangeStep(o)
  PROVE  LegalLog' /\ \E c \in OrderChange : log' = Append(log, c)
  <1>0. PICK N \in Nat : N = Len(log)
    BY DEF LegalLog
  <1>1. PICK type \in ChangeTypes, size \in Nat :
          /\ log' = Append(log, [order |-> o, type |-> type, size |-> size])
          /\ \/ type = "received" /\ Stage(o) = "none"
             \/ type = "open" /\ Stage(o) = "received" /\ size = 2
             \/ type = "change" /\ Stage(o) = "open" /\ size = 1
             \/ type = "done" /\ Stage(o) \in {"received", "open", "change"}
             \/ type = "match"
    BY DEF ExchangeStep, Happens, ChangeTypes
  <1>2. PICK c \in OrderChange : c = [order |-> o, type |-> type, size |-> size]
    BY DEF OrderChange
  <1>3. /\ N \in Nat /\ Len(log') = N + 1 /\ log'[N + 1] = c /\ log' \in Seq(OrderChange)
        /\ \A i \in 1..N : log'[i] = log[i]
    BY <1>0, <1>1, <1>2, AppendLog
  <1>4. PICK j \in 0..N : j = LastChange(o, N)
    BY <1>3, LastIs
  <1>5. /\ j # 0 => KeptOf(o, j)
        /\ \A i \in 1..N : KeptOf(o, i) => i <= j
    BY <1>3, <1>4, LastIs
  <1>6. Stage(o) = IF j = 0 THEN "none" ELSE log[j].type
    BY <1>0, <1>4 DEF Stage
  <1>7. \A i \in 1..N :
          KeptOf(o, i) /\ i # j =>
            /\ log[i].type # "done" /\ log[j].type # "received"
            /\ log[j].type = "open" => log[i].type = "received"
    <2>1. SUFFICES ASSUME NEW i \in 1..N, KeptOf(o, i), i # j
                   PROVE  /\ log[i].type # "done" /\ log[j].type # "received"
                          /\ log[j].type = "open" => log[i].type = "received"
      BY Zenon
    <2>2. i < j /\ j \in 1..N /\ SameOrder(i, j)
      BY <1>3, <1>5, <2>1 DEF SameOrder, KeptOf
    <2> QED
      BY <1>0, <2>2 DEF LegalLog
  <1>8. \A i \in 1..N : (i < N + 1) /\ SameOrder(i, N + 1)' => KeptOf(o, i) /\ type # "match"
    BY <1>2, <1>3 DEF SameOrder, KeptOf, Kept
  <1>9. ASSUME NEW i \in 1..N, SameOrder(i, N + 1)'
        PROVE  /\ log[i].type # "done" /\ type # "received"
               /\ type = "open" => log[i].type = "received"
    <2>1. KeptOf(o, i) /\ type # "match" /\ i <= j /\ j # 0
      BY <1>3, <1>5, <1>8, <1>9
    <2>2. j \in 1..N /\ log[j].type \in ChangeTypes
      BY <1>0, <2>1, KeptTypes
    <2>3. Stage(o) = log[j].type /\ Stage(o) # "none"
      BY <1>6, <2>1, <2>2 DEF ChangeTypes
    <2>4. CASE i = j
      BY <1>1, <2>1, <2>3, <2>4
    <2>5. CASE i # j
      <3>1. /\ log[i].type # "done" /\ log[j].type # "received"
            /\ log[j].type = "open" => log[i].type = "received"
        BY <1>7, <2>1, <2>5
      <3> QED
        BY <1>1, <2>1, <2>3, <3>1
    <2> QED
      BY <2>4, <2>5
  <1>10. type = "open" =>
           size = 2 /\ \E i \in 1..N : SameOrder(i, N + 1)' /\ log[i].type = "received"
    <2>1. SUFFICES ASSUME type = "open"
                   PROVE  /\ size = 2
                          /\ \E i \in 1..N : SameOrder(i, N + 1)' /\ log[i].type = "received"
      OBVIOUS
    <2>2. j \in 1..N /\ log[j].type = "received" /\ size = 2
      BY <1>1, <1>6, <2>1
    <2>3. SameOrder(j, N + 1)'
      BY <1>2, <1>3, <1>5, <2>1, <2>2 DEF SameOrder, KeptOf, Kept
    <2> QED
      BY <2>2, <2>3
  <1>11. type = "change" => size = 1 /\ \E i \in 1..N : SameOrder(i, N + 1)' /\ log[i].type = "open"
    <2>1. SUFFICES ASSUME type = "change"
                   PROVE  size = 1 /\ \E i \in 1..N : SameOrder(i, N + 1)' /\ log[i].type = "open"
      OBVIOUS
    <2>2. j \in 1..N /\ log[j].type = "open" /\ size = 1
      BY <1>1, <1>6, <2>1
    <2>3. SameOrder(j, N + 1)'
      BY <1>2, <1>3, <1>5, <2>1, <2>2 DEF SameOrder, KeptOf, Kept
    <2> QED
      BY <2>2, <2>3
  <1>12. \A i, m \in 1..N : SameOrder(i, m)' <=> SameOrder(i, m)
    BY <1>3 DEF SameOrder, Kept
  <1>13. LegalLog'
    <2>1. ASSUME NEW m \in 1..(N + 1)
          PROVE  /\ log'[m].type = "open" =>
                      /\ log'[m].size = 2
                      /\ \E i \in 1..(m - 1) : SameOrder(i, m)' /\ log'[i].type = "received"
                 /\ log'[m].type = "change" =>
                      /\ log'[m].size = 1
                      /\ \E i \in 1..(m - 1) : SameOrder(i, m)' /\ log'[i].type = "open"
      <3>1. CASE m = N + 1
        <4>1. m - 1 = N
          BY <1>3, <3>1
        <4> QED
          BY <1>2, <1>3, <1>10, <1>11, <3>1, <4>1
      <3>2. CASE m # N + 1
        <4>1. m \in 1..N /\ log'[m] = log[m]
          BY <1>3, <3>2
        <4>2. \A i \in 1..(m - 1) : i \in 1..N /\ log'[i] = log[i]
          BY <1>3, <4>1
        <4>3. /\ log[m].type = "open" =>
                   /\ log[m].size = 2
                   /\ \E i \in 1..(m - 1) : SameOrder(i, m) /\ log[i].type = "received"
              /\ log[m].type = "change" =>
                   /\ log[m].size = 1
                   /\ \E i \in 1..(m - 1) : SameOrder(i, m) /\ log[i].type = "open"
          BY <1>0, <4>1 DEF LegalLog
        <4> QED
          BY <1>12, <4>1, <4>2, <4>3
      <3> QED
        BY <3>1, <3>2
    <2>2. ASSUME NEW i \in 1..(N + 1), NEW m \in 1..(N + 1), i < m, SameOrder(i, m)'
          PROVE  /\ log'[i].type # "done" /\ log'[m].type # "received"
                 /\ log'[m].type = "open" => log'[i].type = "received"
      <3>1. i \in 1..N /\ log'[i] = log[i]
        BY <1>3, <2>2
      <3>2. CASE m = N + 1
        BY <1>2, <1>3, <1>9, <2>2, <3>1, <3>2
      <3>3. CASE m # N + 1
        <4>1. m \in 1..N /\ log'[m] = log[m]
          BY <1>3, <3>3
        <4> QED
          BY <1>0, <1>12, <2>2, <3>1, <4>1 DEF LegalLog
      <3> QED
        BY <3>2, <3>3
    <2> QED
      BY <1>3, <2>1, <2>2 DEF LegalLog
  <1> QED
    BY <1>1, <1>2, <1>13

-----------------------------------------------------------------------------
(* What was good stays good while the log grows.                           *)

LogGrows == log' = log \/ \E c \in OrderChange : log' = Append(log, c)

LEMMA PastKept ==
  ASSUME LegalLog, LogGrows
  PROVE  /\ Len(log) \in Nat /\ Len(log') \in Nat /\ Len(log) <= Len(log')
         /\ \A i \in 1..Len(log) : log'[i] = log[i] /\ (Kept(i)' <=> Kept(i))
         /\ \A o : \A n \in 0..Len(log) : /\ LastChange(o, n)' = LastChange(o, n)
                                       /\ VolumeAt(o, n)' = VolumeAt(o, n)
  <1>1. CASE log' = log
    <2>1. \A o, n : LastChange(o, n)' = LastChange(o, n) /\ VolumeAt(o, n)' = VolumeAt(o, n)
      BY <1>1 DEF LastChange, VolumeAt
    <2> QED
      BY <1>1, <2>1 DEF LegalLog, Kept
  <1>2. ASSUME NEW c \in OrderChange, log' = Append(log, c)
        PROVE  /\ Len(log) \in Nat /\ Len(log') \in Nat /\ Len(log) <= Len(log')
               /\ \A i \in 1..Len(log) : log'[i] = log[i] /\ (Kept(i)' <=> Kept(i))
    <2>1. /\ Len(log) \in Nat /\ Len(log') = Len(log) + 1
          /\ \A i \in 1..Len(log) : log'[i] = log[i]
      BY <1>2, AppendLog
    <2> QED
      BY <2>1 DEF Kept
  <1>3. ASSUME NEW c \in OrderChange, log' = Append(log, c)
        PROVE  \A o : \A n \in 0..Len(log) : /\ LastChange(o, n)' = LastChange(o, n)
                                         /\ VolumeAt(o, n)' = VolumeAt(o, n)
    BY <1>3, VolumesBefore
  <1> QED
    BY <1>1, <1>2, <1>3 DEF LogGrows

LEMMA GoodKept ==
  ASSUME LegalLog, LogGrows, BaseFound, bases' = bases, book'.first = book.first,
         NEW o, NEW v, NEW heard, NEW free, NEW t \in 0..Len(log), Good(v, heard, o, t, free)
  PROVE  Good(v, heard, o, t, free)'
  <1>1. Base' = Base /\ Base \in 0..Len(log) /\ Base \in Nat
    BY DEF Base, BaseFound, LegalLog
  <1>2. /\ LastChange(o, t)' = LastChange(o, t) /\ VolumeAt(o, t)' = VolumeAt(o, t)
        /\ VolumeAt(o, Base)' = VolumeAt(o, Base)
    <2>1. PICK b \in 0..Len(log) : b = Base
      BY <1>1
    <2>2. VolumeAt(o, b)' = VolumeAt(o, b)
      BY PastKept
    <2>3. VolumeAt(o, Base)' = VolumeAt(o, b)'
      <3>1. Base' = b
        BY <1>1, <2>1
      <3> QED
        BY <3>1 DEF VolumeAt, LastChange
    <2> QED
      BY <2>1, <2>2, <2>3, PastKept
  <1>3. LastChange(o, t) # 0 => log'[LastChange(o, t)] = log[LastChange(o, t)]
    <2>1. PICK k \in 0..t : k = LastChange(o, t)
      BY LastIs, PastKept
    <2> QED
      BY <2>1, PastKept
  <1>4. Orphan(o) => Orphan(o)'
    <2>1. SUFFICES ASSUME Orphan(o) PROVE Orphan(o)'
      OBVIOUS
    <2>2. PICK r \in 1..Base, p \in (Base + 1)..Len(log) :
            /\ log[r].order = o /\ log[r].type = "received"
            /\ log[p].order = o /\ log[p].type = "open"
      BY <2>1 DEF Orphan, Base
    <2>3. /\ log'[r] = log[r] /\ log'[p] = log[p] /\ p \in (Base + 1)..Len(log')
      BY <1>1, <2>2, PastKept
    <2>4. r \in 1..Last(bases') /\ p \in (Last(bases') + 1)..Len(log')
      BY <1>1, <2>2, <2>3 DEF Base
    <2> QED
      BY <2>2, <2>3, <2>4 DEF Orphan
  <1>5. LastChange(o, t) > Base => LastChange(o, t) # 0
    BY <1>1
  <1> QED
    BY <1>1, <1>2, <1>3, <1>4, <1>5 DEF Good

LEMMA GoodBookNext ==
  ASSUME LegalLog, LogGrows, BaseFound, bases' = bases, book'.first = book.first,
         NEW t \in 0..Len(log), NEW U, \A o \in Orders : o \in U \/ Disturbed(o)',
         NEW s, orderbook' = s.book, book'.received = s.received,
         NEW free, free => Free',
         \A o \in U : Good(s.book[o], o \in s.received, o, t, free)
  PROVE  GoodBook(t)'
  <1>1. ASSUME NEW o \in Orders, o \in U
        PROVE  Good(s.book[o], o \in s.received, o, t, Free)'
    <2>1. Good(s.book[o], o \in s.received, o, t, free)'
      BY <1>1, GoodKept
    <2> QED
      BY <2>1 DEF Good
  <1> QED
    BY <1>1 DEF GoodBook

LEMMA WalkTypes ==
  ASSUME LegalLog, Applying \in Work, NEW X \in SUBSET (1..Len(log)), \A m \in X : Kept(m)
  PROVE  ApplyBacklog(X) \in Work /\ ApplyBacklog(X).left \in SUBSET X
  <1> DEFINE N == Len(log)
             Fine(s) == s \in Work /\ s.left \in SUBSET X
  <1>1. N \in Nat
    BY DEF LegalLog
  <1>2. PICK g : /\ g[0] = Applying
                 /\ \A i \in 1..N : g[i] = WorkOn(g[i - 1], i, X)
                 /\ ApplyBacklog(X) = g[N]
    BY <1>1, BacklogWalked
  <1>3. ASSUME NEW s, Fine(s), NEW i \in 1..N PROVE Fine(WorkOn(s, i, X))
    <2>1. CASE i \notin X
      BY <1>3, <2>1 DEF WorkOn
    <2>2. CASE i \in X /\ ~s.ok
      <3>1. WorkOn(s, i, X) = [s EXCEPT !.left = @ \cup {i}]
        BY <2>2 DEF WorkOn
      <3>2. [s EXCEPT !.left = @ \cup {i}].left = s.left \cup {i}
        BY <1>3 DEF Work
      <3>3. [s EXCEPT !.left = @ \cup {i}] \in Work
        <4>1. i \in Nat
          BY <1>1
        <4>2. PICK o : o \in Orders
          BY <2>2, KeptTypes
        <4> QED
          BY <1>3, <4>1, <4>2, WorkNew
      <3> QED
        BY <1>3, <2>2, <3>1, <3>2, <3>3
    <2>3. CASE i \in X /\ s.ok
      <3>1. WorkOn(s, i, X) = IF i > book.base THEN ApplyChange(s, i) ELSE s
        BY <2>3 DEF WorkOn
      <3>2. ApplyChange(s, i) \in Work /\ ApplyChange(s, i).left = s.left
        BY <1>3, <2>3, ApplyIs
      <3> QED
        BY <1>3, <3>1, <3>2
    <2> QED
      BY <2>1, <2>2, <2>3
  <1>4. Fine(g[0])
    BY <1>2 DEF Applying
  <1> DEFINE bad == {x \in 0..N : ~Fine(g[x])}
  <1>5. bad = {}
    <2>1. SUFFICES ASSUME bad # {} PROVE FALSE
      OBVIOUS
    <2>2. bad \subseteq Nat
      OBVIOUS
    <2>3. PICK x \in bad : \A i \in bad : x <= i
      <3> HIDE DEF bad
      <3> QED
        BY <2>1, <2>2, LeastNumber
    <2>4. x \in 1..N /\ x - 1 \in 0..N /\ x - 1 \notin bad
      BY <1>1, <1>4, <2>3
    <2>5. Fine(g[x - 1])
      BY <2>4
    <2>6. Fine(g[x])
      <3> HIDE DEF Fine
      <3> QED
        BY <1>2, <1>3, <2>4, <2>5
    <2> QED
      BY <2>3, <2>6
  <1> QED
    BY <1>1, <1>2, <1>5

-----------------------------------------------------------------------------
(* The rest of onMessage.                                                  *)

LEMMA ApplyingTypes ==
  ASSUME HandlerTypes, orderbook # NoBook
  PROVE  /\ Applying \in Work /\ Applying.book = orderbook
         /\ Applying.received = book.received /\ Applying.left = {}
  BY DEF HandlerTypes, HandlerRecord, Applying, Work

LEMMA ProcessTypes ==
  ASSUME Orders # {}, LegalLog, HandlerTypes,
         \A m \in book.backlog : m \in 1..Len(log) /\ Kept(m),
         NEW n \in 1..Len(log), NEW b \in HandlerRecord, b.backlog = book.backlog,
         Process(n, b)
  PROVE  /\ book' \in HandlerRecord /\ orderbook' \in [Orders -> Nat] \cup {NoBook}
         /\ book'.first = b.first /\ book'.current = b.current /\ book'.base = b.base
         /\ \A m \in book'.backlog : (m \in book.backlog \/ m = n) /\ Kept(m)
         /\ orderbook' = NoBook <=> orderbook = NoBook
  <1>1. n \in Nat /\ b.backlog \in SUBSET Nat
    BY DEF LegalLog, HandlerRecord
  <1>2. CASE ~Kept(n)
    BY <1>2 DEF Process, Kept, HandlerTypes
  <1>3. CASE Kept(n) /\ orderbook = NoBook
    <2>1. book' = [b EXCEPT !.backlog = @ \cup {n}] /\ orderbook' = orderbook
      BY <1>3 DEF Process, Kept
    <2> QED
      BY <1>1, <1>3, <2>1 DEF HandlerRecord
  <1>4. CASE Kept(n) /\ orderbook # NoBook
    <2>1. PICK s : s = IF b.backlog = {} THEN ApplyChange(Applying, n)
                                         ELSE ApplyBacklog(b.backlog \cup {n})
      OBVIOUS
    <2>2. orderbook' = s.book /\ book' = [b EXCEPT !.received = s.received, !.backlog = s.left]
      BY <1>4, <2>1 DEF Process, Kept
    <2>3. s \in Work /\ s.left \subseteq b.backlog \cup {n}
      <3>1. Applying \in Work /\ Applying.left = {}
        BY <1>4, ApplyingTypes
      <3>2. CASE b.backlog = {}
        <4>1. ApplyChange(Applying, n) \in Work /\ ApplyChange(Applying, n).left = {}
          BY <1>4, <3>1, ApplyIs
        <4> QED
          BY <2>1, <3>2, <4>1
      <3>3. CASE b.backlog # {}
        <4>1. PICK X : X = b.backlog \cup {n}
          OBVIOUS
        <4>2. X \in SUBSET (1..Len(log)) /\ \A m \in X : Kept(m)
          BY <1>4, <4>1
        <4>3. ApplyBacklog(X) \in Work /\ ApplyBacklog(X).left \in SUBSET X
          BY <3>1, <4>2, WalkTypes
        <4> QED
          BY <2>1, <3>3, <4>1, <4>3
      <3> QED
        BY <3>2, <3>3
    <2>4. s.book \in [Orders -> Nat] /\ s.received \in SUBSET Orders /\ s.left \in SUBSET Nat
      BY <2>3 DEF Work
    <2>5. s.book # NoBook
      BY <2>4, NoBookIs
    <2>6. book' \in HandlerRecord
      BY <2>2, <2>4 DEF HandlerRecord
    <2>7. /\ book'.first = b.first /\ book'.current = b.current /\ book'.base = b.base
          /\ book'.backlog = s.left
      BY <2>2 DEF HandlerRecord
    <2> QED
      BY <1>4, <2>2, <2>3, <2>4, <2>5, <2>6, <2>7
  <1> QED
    BY <1>2, <1>3, <1>4

LEMMA BaseTakenNext ==
  ASSUME LegalLog, LogGrows, BaseTaken, bases' = bases, book'.first = book.first,
         book'.base = book.base, skipped \subseteq skipped',
         \A m \in book'.backlog : m < book.first => m \in book.backlog \/ m \in skipped',
         NEW t \in (book.first - 1)..book'.current, WorkedUpTo(t)', GoodBook(t)'
  PROVE  BaseTaken'
  <1>1. Base' = Base /\ BaseFound
    BY DEF Base, BaseTaken
  <1>2. BaseFound'
    BY <1>1, PastKept DEF BaseFound
  <1> QED
    BY <1>1, <1>2 DEF BaseTaken

LEMMA DisturbedKept ==
  ASSUME LegalLog, LogGrows, skipped \subseteq skipped', NEW o, Disturbed(o),
         \A m \in skipped : m = 0 \/ m \in 1..Len(log)
  PROVE  Disturbed(o)'
  <1>1. PICK m \in skipped : m # 0 /\ log[m].order = o
    BY DEF Disturbed
  <1>2. log'[m] = log[m]
    BY <1>1, PastKept
  <1> QED
    BY <1>1, <1>2 DEF Disturbed

\* The types and the order of things, when the handler does nothing.
LEMMA TypesKept ==
  ASSUME LegalLog, LogGrows, HandlerTypes,
         UNCHANGED <<orderbook, book, resets, cleared, bases, answers, skipped>>
  PROVE  HandlerTypes'
  BY PastKept DEF HandlerTypes

LEMMA OrderKept ==
  ASSUME LegalLog, LogGrows, HandlerTypes, InOrder,
         UNCHANGED <<sent, line, book, resets, cleared>>
  PROVE  InOrder'
  <1>1. \A x : Handled(x)' <=> Handled(x)
    BY DEF Handled
  <1>2. \A m \in book.backlog : Kept(m)' <=> Kept(m)
    <2>1. \A m \in book.backlog : m \in Nat /\ 0 < m /\ m <= sent
      BY DEF InOrder, Handled, HandlerTypes, HandlerRecord
    <2>2. \A m \in book.backlog : m \in 1..Len(log)
      BY <2>1, PastKept DEF InOrder
    <2> QED
      BY <2>2, PastKept
  <1>3. sent' \in 0..Len(log')
    BY PastKept DEF InOrder
  <1> QED
    BY <1>1, <1>2, <1>3 DEF InOrder

LEMMA WorkedKept ==
  ASSUME LegalLog, LogGrows, HandlerTypes, InOrder, book.first # 0,
         book'.first = book.first, book'.current = book.current,
         book'.backlog = book.backlog, NEW t, WorkedUpTo(t)
  PROVE  WorkedUpTo(t)'
  <1>1. book.first \in Nat /\ book.current \in Nat /\ book.current <= sent /\ sent \in 0..Len(log)
    BY DEF HandlerTypes, HandlerRecord, InOrder, Handled
  <1>2. \A m \in book.first..book.current : Kept(m)' <=> Kept(m)
    BY <1>1, PastKept
  <1> QED
    BY <1>2 DEF WorkedUpTo

\* The book is not touched.
LEMMA Quiet ==
  ASSUME Orders # {}, LegalLog, HandlerTypes, InOrder, BookInv, LogGrows,
         resets' = resets, orderbook' = orderbook, book' = book, bases' = bases,
         skipped \subseteq skipped', orderbook = NoBook => skipped' = skipped
  PROVE  BookInv'
  <1>1. SUFFICES ASSUME resets = {}
                 PROVE  IF orderbook = NoBook THEN NoBase' ELSE BaseTaken'
    BY DEF BookInv
  <1>2. CASE orderbook = NoBook
    <2>1. NoBase
      BY <1>1, <1>2 DEF BookInv
    <2> QED
      BY <1>2, <2>1, WorkedKept DEF NoBase
  <1>3. CASE orderbook # NoBook
    <2>1. BaseTaken
      BY <1>1, <1>3 DEF BookInv
    <2>2. PICK t \in (book.first - 1)..book.current : WorkedUpTo(t) /\ GoodBook(t)
      BY <2>1 DEF BaseTaken
    <2>3. /\ book.first \in Nat \ {0} /\ book.current \in Nat /\ book.current <= Len(log)
          /\ Len(log) \in Nat
      BY <2>1 DEF BaseTaken, BaseFound, HandlerTypes, HandlerRecord, InOrder, Handled, LegalLog
    <2>4. WorkedUpTo(t)'
      BY <2>2, <2>3, WorkedKept
    <2>5. GoodBook(t)'
      <3>1. PICK s : s = Applying
        OBVIOUS
      <3>2. s.book = orderbook /\ s.received = book.received
        BY <1>3, <3>1, ApplyingTypes
      <3>3. PICK U : U = {o \in Orders : ~Disturbed(o)}
        OBVIOUS
      <3>4. PICK free : free = Free
        OBVIOUS
      <3>5. free => Free'
        BY <3>4 DEF Free
      <3>6. \A o \in Orders : o \in U \/ Disturbed(o)'
        BY <3>3, DisturbedKept DEF HandlerTypes
      <3>7. \A o \in U : Good(s.book[o], o \in s.received, o, t, free)
        BY <2>2, <3>2, <3>3, <3>4 DEF GoodBook
      <3>8. t \in 0..Len(log)
        BY <2>3
      <3> QED
        BY <2>1, <3>2, <3>5, <3>6, <3>7, <3>8, GoodBookNext DEF BaseTaken
    <2> QED
      BY <1>3, <2>1, <2>2, <2>4, <2>5, BaseTakenNext
  <1> QED
    BY <1>2, <1>3

-----------------------------------------------------------------------------
(* The steps of the exchange, of the connection and of Redis.              *)

LEMMA ExchangeStepKeeps ==
  ASSUME Orders # {}, LegalLog, HandlerTypes, InOrder, BookInv,
         NEW o \in Orders, ExchangeStep(o)
  PROVE  LegalLog' /\ HandlerTypes' /\ InOrder' /\ BookInv'
  <1>1. LegalLog' /\ LogGrows
    BY LegalNext DEF LogGrows
  <1>2. UNCHANGED <<sent, line, gaps, go, orderbook, book, resets, cleared, asked, answers,
                    skipped, bases>>
    BY DEF ExchangeStep, Happens
  <1> QED
    BY <1>1, <1>2, TypesKept, OrderKept, Quiet

LEMMA WireStepKeeps ==
  ASSUME Orders # {}, LegalLog, HandlerTypes, InOrder, BookInv, Send \/ Miss
  PROVE  LegalLog' /\ HandlerTypes' /\ InOrder' /\ BookInv'
  <1>1. /\ UNCHANGED <<log, orderbook, book, resets, cleared, answers, skipped, bases>>
        /\ sent < Len(log) /\ sent' = sent + 1
        /\ line' = line \/ line' = Append(line, sent + 1)
    BY DEF Send, Miss
  <1>2. LogGrows /\ LegalLog'
    <2>1. \A i, j : SameOrder(i, j)' <=> SameOrder(i, j)
      BY <1>1 DEF SameOrder, Kept
    <2> QED
      BY <1>1, <2>1 DEF LogGrows, LegalLog
  <1>3. sent \in Nat /\ Len(log) \in Nat /\ line \in Seq(Nat)
    BY DEF InOrder, LegalLog
  <1>4. /\ line' \in Seq(Nat)
        /\ \A i \in 1..Len(line') : \/ i \in 1..Len(line) /\ line'[i] = line[i]
                                    \/ i > Len(line) /\ line'[i] = sent + 1
    <2>1. CASE line' = line
      BY <1>3, <2>1
    <2>2. CASE line' = Append(line, sent + 1)
      BY <1>3, <2>2
    <2> QED
      BY <1>1, <2>1, <2>2
  <1>5. /\ sent' \in 0..Len(log')
        /\ \A i \in 1..Len(line') : 0 < line'[i] /\ line'[i] <= sent'
    <2>1. sent' \in 0..Len(log')
      BY <1>1, <1>3
    <2>2. ASSUME NEW i \in 1..Len(line') PROVE 0 < line'[i] /\ line'[i] <= sent'
      <3>1. CASE i \in 1..Len(line) /\ line'[i] = line[i]
        <4>1. line[i] \in Nat /\ 0 < line[i] /\ line[i] <= sent
          BY <1>3, <3>1 DEF InOrder
        <4> QED
          BY <1>1, <1>3, <3>1, <4>1
      <3>2. CASE line'[i] = sent + 1
        BY <1>1, <1>3, <3>2
      <3> QED
        BY <1>4, <3>1, <3>2
    <2> QED
      BY <2>1, <2>2
  <1>6. ASSUME NEW i \in 1..Len(line'), NEW j \in 1..Len(line'), i < j
        PROVE  line'[i] < line'[j]
    <2>1. Len(line') <= Len(line) + 1 /\ Len(line) \in Nat
      <3>1. CASE line' = line
        BY <1>3, <3>1
      <3>2. CASE line' = Append(line, sent + 1)
        BY <1>3, <3>2
      <3> QED
        BY <1>1, <3>1, <3>2
    <2>2. i \in 1..Len(line) /\ line'[i] = line[i]
      BY <1>3, <1>4, <1>6, <2>1
    <2>3. line[i] <= sent /\ line[i] \in Nat
      BY <1>3, <2>2 DEF InOrder
    <2>4. CASE j \in 1..Len(line) /\ line'[j] = line[j]
      BY <1>6, <2>2, <2>4 DEF InOrder
    <2>5. CASE line'[j] = sent + 1
      BY <1>3, <2>2, <2>3, <2>5
    <2> QED
      BY <1>4, <2>4, <2>5
  <1>7. \A x \in Nat : Handled(x) => Handled(x)'
    BY <1>1, <1>3, <1>4 DEF Handled
  <1>8. InOrder'
    <2>1. \A m \in book.backlog : Kept(m)' <=> Kept(m)
      BY <1>1 DEF Kept
    <2>2. /\ book.first \in Nat /\ book.current \in Nat
          /\ \A x \in resets \cup cleared \cup book.backlog : x \in Nat
      BY DEF HandlerTypes, HandlerRecord
    <2> QED
      BY <1>1, <1>4, <1>5, <1>6, <1>7, <2>1, <2>2 DEF InOrder
  <1> QED
    BY <1>1, <1>2, <1>8, TypesKept, Quiet

LEMMA LostKeeps ==
  ASSUME Orders # {}, LegalLog, InOrder, ConnectionLost
  PROVE  LegalLog' /\ HandlerTypes' /\ InOrder' /\ BookInv'
  <1>1. LegalLog'
    BY DEF ConnectionLost, LegalLog, SameOrder, Kept
  <1>2. /\ line' = <<>> /\ orderbook' = NoBook /\ book' = Blank
        /\ resets' = {0} /\ cleared' = {} /\ asked' = 0 /\ answers' = <<>>
        /\ skipped' = {} /\ bases' = <<>> /\ UNCHANGED <<log, sent>>
    BY DEF ConnectionLost
  <1>3. HandlerTypes'
    BY <1>2 DEF HandlerTypes, HandlerRecord, Blank
  <1>4. InOrder'
    <2>1. sent \in 0..Len(log) /\ sent \in Nat
      BY DEF InOrder, LegalLog
    <2> QED
      BY <1>2, <2>1 DEF InOrder, Handled, Blank
  <1>5. BookInv'
    BY <1>2 DEF BookInv
  <1> QED
    BY <1>1, <1>3, <1>4, <1>5

LEMMA LegalStays == ASSUME LegalLog, log' = log PROVE LegalLog' /\ LogGrows
  BY DEF LegalLog, SameOrder, Kept, LogGrows

LEMMA FlagKeeps ==
  ASSUME Orders # {}, LegalLog, HandlerTypes, InOrder, BookInv, Flag
  PROVE  LegalLog' /\ HandlerTypes' /\ InOrder' /\ BookInv'
  BY LegalStays, TypesKept, OrderKept, Quiet DEF Flag

LEMMA AnswerKeeps ==
  ASSUME Orders # {}, LegalLog, HandlerTypes, InOrder, BookInv, NEW n \in Nat, Answer(n)
  PROVE  LegalLog' /\ HandlerTypes' /\ InOrder' /\ BookInv'
  <1>1. /\ UNCHANGED <<log, sent, line, orderbook, book, resets, cleared, skipped, bases>>
        /\ answers' = Append(answers, n) /\ n <= Len(log)
    BY DEF Answer, LegalLog
  <1>2. LegalLog' /\ LogGrows
    BY <1>1, LegalStays
  <1>3. /\ answers' \in Seq(Nat)
        /\ \A i \in 1..Len(answers') : answers'[i] <= Len(log')
    BY <1>1 DEF HandlerTypes
  <1>4. HandlerTypes'
    BY <1>1, <1>3 DEF HandlerTypes
  <1> QED
    BY <1>1, <1>2, <1>4, OrderKept, Quiet

LEMMA ResetKeeps ==
  ASSUME Orders # {}, LegalLog, HandlerTypes, InOrder, NEW n \in Nat, Reset(n)
  PROVE  LegalLog' /\ HandlerTypes' /\ InOrder' /\ BookInv'
  <1>1. /\ n \in resets /\ resets' = resets \ {n} /\ cleared' = cleared \cup {n}
        /\ orderbook' = NoBook /\ book' = Blank /\ skipped' = {} /\ bases' = <<>>
        /\ UNCHANGED <<log, sent, line, answers>>
    BY DEF Reset
  <1>2. LegalLog'
    BY <1>1, LegalStays
  <1>3. HandlerTypes'
    BY <1>1 DEF HandlerTypes, HandlerRecord, Blank
  <1>4. \A x : Handled(x)' <=> Handled(x)
    BY <1>1 DEF Handled
  <1>5. InOrder'
    <2>1. Handled(0)
      BY DEF InOrder, Handled
    <2>2. /\ Blank.first = 0 /\ Blank.current = 0 /\ Blank.backlog = {}
      BY DEF Blank
    <2>3. \A x \in resets' \cup cleared' \cup book'.backlog : Handled(x)'
      BY <1>1, <1>4, <2>2 DEF InOrder
    <2>4. /\ book'.first = 0 /\ book'.current = 0 /\ book'.backlog = {}
      BY <1>1, <2>2
    <2>5. /\ Handled(book.first)' /\ Handled(book.current)'
      BY <1>1, <2>1, <2>4 DEF Handled
    <2>6. /\ sent' \in 0..Len(log') /\ line' \in Seq(Nat)
          /\ \A i \in 1..Len(line') : 0 < line'[i] /\ line'[i] <= sent'
          /\ \A i, j \in 1..Len(line') : i < j => line'[i] < line'[j]
      BY <1>1 DEF InOrder
    <2>7. /\ \A m \in book'.backlog : 0 < m /\ Kept(m)'
          /\ \A x \in cleared' : book'.first = 0 \/ x < book'.first
          /\ \A m \in book'.backlog : book'.first = 0 \/ m <= book'.current
          /\ book'.first <= book'.current
          /\ book'.first = 0 => book'.current = 0
      BY <2>4
    <2> QED
      BY <2>3, <2>5, <2>6, <2>7 DEF InOrder
  <1>6. BookInv'
    BY <1>1 DEF BookInv, NoBase, Blank
  <1> QED
    BY <1>2, <1>3, <1>5, <1>6

-----------------------------------------------------------------------------
(* What the rest of onMessage does to a book that has its base.            *)

\* A message in sequence, or the one that a restart goes on with.
Place(n, b) ==
  /\ b.first = book.first /\ b.base = book.base /\ b.backlog = book.backlog
  /\ b.received = book.received
  /\ \/ n = book.current + 1 /\ b.current = n
     \/ n < book.first /\ b.current = book.current /\ n \in skipped'

Going ==
  /\ Orders # {} /\ LegalLog /\ HandlerTypes /\ InOrder
  /\ orderbook # NoBook /\ BaseTaken
  /\ log' = log /\ bases' = bases /\ skipped \subseteq skipped'

Undisturbed(U) == U \in SUBSET Orders /\ \A o \in Orders : o \in U <=> ~Disturbed(o)'

LEMMA GoingIs ==
  ASSUME Going, NEW U, Undisturbed(U), NEW t, GoodBook(t)
  PROVE  /\ Applying \in Work /\ Applying.book = orderbook
         /\ Applying.received = book.received /\ Applying.left = {}
         /\ LogGrows /\ BaseFound
         /\ book.first \in Nat \ {0} /\ book.current \in Nat /\ book.base \in Nat
         /\ book.first <= book.current /\ book.current <= Len(log) /\ Len(log) \in Nat
         /\ \A o \in U : Good(orderbook[o], o \in book.received, o, t, Free)
         /\ \A m \in book.backlog : m \in 1..sent /\ Kept(m)
         /\ \A m \in skipped' \ {0} : log[m].order \notin U
  <1>1. /\ Applying \in Work /\ Applying.book = orderbook
        /\ Applying.received = book.received /\ Applying.left = {}
    BY ApplyingTypes DEF Going
  <1>2. LogGrows
    BY DEF Going, LogGrows
  <1>3. /\ BaseFound
        /\ book.first \in Nat \ {0} /\ book.current \in Nat /\ book.base \in Nat
        /\ book.first <= book.current /\ book.current <= Len(log) /\ Len(log) \in Nat
    BY DEF Going, BaseTaken, BaseFound, HandlerTypes, HandlerRecord, InOrder, Handled,
           LegalLog
  <1>4. \A o \in U : ~Disturbed(o)
    <2>1. \A o : Disturbed(o) => Disturbed(o)'
      BY <1>2, DisturbedKept DEF Going, HandlerTypes
    <2> QED
      BY <2>1 DEF Undisturbed
  <1>5. \A m \in book.backlog : m \in 1..sent /\ Kept(m)
    BY DEF Going, InOrder, Handled, HandlerTypes, HandlerRecord
  <1>6. ASSUME NEW m \in skipped' \ {0} PROVE log[m].order \notin U
    <2>1. ASSUME log[m].order \in U PROVE FALSE
      <3>1. PICK o \in Orders : o = log[m].order
        BY <2>1 DEF Undisturbed
      <3>2. log'[m].order = o
        BY <3>1 DEF Going
      <3>3. Disturbed(o)'
        BY <1>6, <3>2 DEF Disturbed
      <3> QED
        BY <2>1, <3>1, <3>3 DEF Undisturbed
    <2> QED
      BY <2>1
  <1>7. \A o \in U : Good(orderbook[o], o \in book.received, o, t, Free)
    BY <1>4 DEF GoodBook, Undisturbed
  <1> QED
    BY <1>1, <1>2, <1>3, <1>5, <1>6, <1>7

\* A match changes nothing.
LEMMA MatchGood ==
  ASSUME Going, NEW n \in 1..Len(log), NEW b \in HandlerRecord, Place(n, b), Process(n, b),
         ~Kept(n)
  PROVE  BaseTaken'
  <1>1. PICK t \in (book.first - 1)..book.current : WorkedUpTo(t) /\ GoodBook(t)
    BY DEF Going, BaseTaken
  <1>2. PICK U : U = {o \in Orders : ~Disturbed(o)'}
    OBVIOUS
  <1>3. Undisturbed(U)
    BY <1>2 DEF Undisturbed
  <1>4. orderbook' = orderbook /\ book' = b
    BY DEF Process, Kept
  <1>5. PICK s : s = Applying
    OBVIOUS
  <1>6. PICK free : free = Free
    OBVIOUS
  <1>7. free => Free'
    BY <1>4, <1>6 DEF Free, Place
  <1>8. /\ book.first \in Nat \ {0} /\ book.current \in Nat /\ book.current <= Len(log)
        /\ Len(log) \in Nat /\ LogGrows /\ BaseFound /\ LegalLog
        /\ \A m \in book.backlog : m \in Nat /\ Kept(m)
    BY <1>1, <1>3, GoingIs DEF Going
  <1>9. GoodBook(t)'
    <2>1. s.book = orderbook /\ s.received = book.received
      BY <1>1, <1>3, <1>5, GoingIs
    <2>2. \A o \in U : Good(s.book[o], o \in s.received, o, t, free)
      BY <1>1, <1>3, <1>6, <2>1, GoingIs
    <2>3. \A o \in Orders : o \in U \/ Disturbed(o)'
      BY <1>3 DEF Undisturbed
    <2>4. t \in 0..Len(log)
      BY <1>8
    <2>5. bases' = bases /\ book'.first = book.first
      BY <1>4 DEF Place, Going
    <2>6. orderbook' = s.book /\ book'.received = s.received
      BY <1>4, <2>1 DEF Place
    <2> QED
      BY <1>7, <1>8, <2>2, <2>3, <2>4, <2>5, <2>6, GoodBookNext
  <1>10. WorkedUpTo(t)'
    <2>1. ASSUME NEW m \in book.first..b.current
          PROVE  m \in b.backlog <=> m > t /\ Kept(m)
      <3>1. CASE m \in book.first..book.current
        BY <1>1, <3>1 DEF WorkedUpTo, Place
      <3>2. CASE m = n
        <4>1. m \notin b.backlog
          BY <1>8, <3>2 DEF Place
        <4> QED
          BY <3>2, <4>1
      <3> QED
        BY <1>8, <3>1, <3>2 DEF Place
    <2> QED
      BY <1>4, <2>1 DEF WorkedUpTo, Place, Kept, Going
  <1>11. t \in (book.first - 1)..book'.current
    BY <1>4, <1>8 DEF Place
  <1> QED
    BY <1>4, <1>8, <1>9, <1>10, <1>11, BaseTakenNext DEF Going, Place

\* No backlog: the change is applied.
LEMMA DirectGood ==
  ASSUME Going, NEW n \in 1..Len(log), NEW b \in HandlerRecord, Place(n, b), Process(n, b),
         Kept(n), book.backlog = {}
  PROVE  BaseTaken'
  <1>1. PICK t \in (book.first - 1)..book.current : WorkedUpTo(t) /\ GoodBook(t)
    BY DEF Going, BaseTaken
  <1>2. PICK U : U = {o \in Orders : ~Disturbed(o)'}
    OBVIOUS
  <1>3. Undisturbed(U)
    BY <1>2 DEF Undisturbed
  <1>4. PICK s : s = ApplyChange(Applying, n)
    OBVIOUS
  <1>5. /\ orderbook' = s.book
        /\ book' = [b EXCEPT !.received = s.received, !.backlog = s.left]
    BY <1>4 DEF Process, Kept, Going, Place
  <1>6. /\ book.first \in Nat \ {0} /\ book.current \in Nat /\ book.first <= book.current
        /\ book.current <= Len(log)
        /\ Len(log) \in Nat /\ LogGrows /\ BaseFound /\ LegalLog
        /\ Applying \in Work /\ Applying.book = orderbook
        /\ Applying.received = book.received /\ Applying.left = {}
        /\ \A o \in U : Good(orderbook[o], o \in book.received, o, t, TRUE)
    <2>1. \A o \in U : Good(orderbook[o], o \in book.received, o, t, Free)
      BY <1>1, <1>3, GoingIs
    <2>2. \A o \in U : Good(orderbook[o], o \in book.received, o, t, TRUE)
      BY <2>1 DEF Free, Good
    <2> QED
      BY <1>1, <1>3, <2>2, GoingIs DEF Going
  <1>7. s \in Work /\ s.left = {}
    BY <1>4, <1>6, ApplyIs
  <1>8. /\ book'.first = book.first /\ book'.current = b.current /\ book'.base = book.base
        /\ book'.backlog = {} /\ book'.received = s.received
    BY <1>5, <1>7 DEF HandlerRecord, Place
  <1>9. Free'
    BY <1>8 DEF Free
  <1>10. \A m \in (t + 1)..book.current : ~Kept(m)
    BY <1>1, <1>6 DEF WorkedUpTo
  <1>11. \A o \in Orders : o \in U \/ Disturbed(o)'
    BY <1>3 DEF Undisturbed
  <1>12. bases' = bases /\ skipped \subseteq skipped' /\ BaseTaken /\ log' = log
    BY DEF Going
  <1>13. CASE n = book.current + 1 /\ b.current = n
    <2>1. ASSUME NEW o \in U
          PROVE  Good(s.book[o], o \in s.received, o, n, TRUE)
      <3>1. o \in Orders /\ orderbook[o] \in Nat
        BY <1>3, <1>6 DEF Work, Undisturbed
      <3>2. \A m \in (t + 1)..book.current : ~KeptOf(o, m)
        BY <1>10 DEF KeptOf
      <3>3. book.current \in 0..Len(log) /\ t \in 0..book.current
        BY <1>6
      <3>4. Good(orderbook[o], o \in book.received, o, t, TRUE)
        BY <1>6, <2>1
      <3>5. Good(orderbook[o], o \in book.received, o, book.current, TRUE)
        <4>1. PICK c : c = book.current
          OBVIOUS
        <4>2. PICK v : v = orderbook[o]
          OBVIOUS
        <4>3. PICK heard : heard = (o \in book.received)
          OBVIOUS
        <4>4. Good(v, heard, o, t, TRUE) /\ v \in Nat
          BY <3>1, <3>4, <4>2, <4>3 DEF Good
        <4>5. Good(v, heard, o, c, TRUE)
          <5>1. c \in 0..Len(log) /\ t \in 0..c /\ \A i \in (t + 1)..c : ~KeptOf(o, i)
            BY <3>2, <3>3, <4>1
          <5>2. LegalLog /\ BaseFound
            BY <1>6
          <5>3. heard => heard
            OBVIOUS
          <5> QED
            BY <4>4, <5>1, <5>2, <5>3, GoodSpan, Zenon
        <4> QED
          BY <4>1, <4>2, <4>3, <4>5 DEF Good
      <3>6. book.current = n - 1 /\ n >= book.first
        BY <1>6, <1>13
      <3>7. Good(Applying.book[o], o \in Applying.received, o, n - 1, TRUE)
        BY <1>6, <3>5, <3>6
      <3> QED
        BY <1>4, <1>6, <3>1, <3>6, <3>7, GoodChange
    <2>2. GoodBook(n)'
      <3>1. n \in 0..Len(log)
        OBVIOUS
      <3> QED
        BY <1>5, <1>6, <1>8, <1>9, <1>11, <1>12, <2>1, <3>1, GoodBookNext
    <2>3. WorkedUpTo(n)'
      BY <1>6, <1>8, <1>13 DEF WorkedUpTo
    <2>4. n \in (book.first - 1)..book'.current
      BY <1>6, <1>8, <1>13 DEF Going, InOrder
    <2> QED
      BY <1>6, <1>8, <1>12, <2>2, <2>3, <2>4, BaseTakenNext
  <1>14. CASE n < book.first /\ b.current = book.current /\ n \in skipped'
    <2>1. log[n].order \notin U
      BY <1>1, <1>3, <1>6, <1>14, GoingIs
    <2>2. ASSUME NEW o \in U
          PROVE  Good(s.book[o], o \in s.received, o, t, TRUE)
      <3>1. o \in Orders /\ o # log[n].order
        BY <1>3, <2>1 DEF Undisturbed
      <3>2. Untouched(Applying, s, o)
        BY <1>4, <1>6, <3>1, ApplyIs
      <3>3. Good(orderbook[o], o \in book.received, o, t, TRUE)
        BY <1>6, <2>2
      <3> QED
        BY <1>6, <3>2, <3>3 DEF Untouched, Good
    <2>3. GoodBook(t)'
      <3>1. t \in 0..Len(log)
        BY <1>6
      <3> QED
        BY <1>5, <1>6, <1>8, <1>9, <1>11, <1>12, <2>2, <3>1, GoodBookNext
    <2>4. WorkedUpTo(t)'
      BY <1>1, <1>8, <1>12, <1>14 DEF WorkedUpTo, Kept
    <2>5. t \in (book.first - 1)..book'.current
      BY <1>8, <1>14
    <2> QED
      BY <1>6, <1>8, <1>12, <2>3, <2>4, <2>5, BaseTakenNext
  <1> QED
    BY <1>13, <1>14 DEF Place

\* The change goes to the backlog, which is worked down.
LEMMA BacklogGood ==
  ASSUME Going, NEW n \in 1..Len(log), NEW b \in HandlerRecord, Place(n, b), Process(n, b),
         Kept(n), book.backlog # {}
  PROVE  BaseTaken'
  <1>1. PICK t \in (book.first - 1)..book.current : WorkedUpTo(t) /\ GoodBook(t)
    BY DEF Going, BaseTaken
  <1>2. PICK U : U = {o \in Orders : ~Disturbed(o)'}
    OBVIOUS
  <1>3. Undisturbed(U)
    BY <1>2 DEF Undisturbed
  <1>4. PICK X : X = book.backlog \cup {n}
    OBVIOUS
  <1>5. PICK s : s = ApplyBacklog(X)
    OBVIOUS
  <1>6. /\ orderbook' = s.book
        /\ book' = [b EXCEPT !.received = s.received, !.backlog = s.left]
    BY <1>4, <1>5 DEF Process, Kept, Going, Place
  <1>7. /\ book.first \in Nat \ {0} /\ book.current \in Nat /\ book.base \in Nat
        /\ book.first <= book.current /\ book.current <= Len(log)
        /\ Len(log) \in Nat /\ LogGrows /\ BaseFound /\ LegalLog
        /\ Applying \in Work /\ Applying.book = orderbook
        /\ Applying.received = book.received /\ Applying.left = {}
        /\ \A o \in U : Good(orderbook[o], o \in book.received, o, t, Free)
        /\ \A m \in book.backlog : m \in 1..sent /\ Kept(m)
        /\ \A m \in skipped' \ {0} : log[m].order \notin U
    BY <1>1, <1>3, GoingIs DEF Going
  <1>8. PICK c : c = b.current
    OBVIOUS
  <1>9. /\ c \in book.first..Len(log) /\ t \in (book.first - 1)..c
        /\ book.current <= c /\ ((n = c /\ n = book.current + 1) \/ n < book.first)
    BY <1>7, <1>8 DEF Place
  <1>10. \A m \in X : m \in 1..c /\ Kept(m)
    <2>1. \A m \in book.backlog : m \in 1..book.current
      BY <1>7 DEF Going, InOrder
    <2> QED
      BY <1>4, <1>7, <1>9, <2>1
  <1>11. \A m \in book.first..c : m \in X <=> m > t /\ Kept(m)
    <2>1. ASSUME NEW m \in book.first..c PROVE m \in X <=> m > t /\ Kept(m)
      <3>1. CASE m \in book.first..book.current
        <4>1. m # n
          BY <1>7, <1>9, <3>1
        <4>2. m \in book.backlog <=> m > t /\ Kept(m)
          BY <1>1, <3>1 DEF WorkedUpTo
        <4> QED
          BY <1>4, <4>1, <4>2
      <3>2. CASE m = n
        <4>1. n > t
          BY <1>7, <1>9, <3>2
        <4> QED
          BY <1>4, <3>2, <4>1
      <3> QED
        BY <1>7, <1>8, <1>9, <3>1, <3>2 DEF Place
    <2> QED
      BY <2>1
  <1>12. \A m \in X : m < book.first => m <= book.base \/ log[m].order \notin U
    <2>1. ASSUME NEW m \in X, m < book.first, ~(m <= book.base)
          PROVE  log[m].order \notin U
      <3>1. m \in skipped'
        <4>1. CASE m = n
          BY <1>7, <1>9, <2>1, <4>1 DEF Place
        <4>2. CASE m # n
          BY <1>4, <2>1, <4>2 DEF Going, BaseTaken
        <4> QED
          BY <4>1, <4>2
      <3>2. m # 0
        BY <1>10, <2>1
      <3> QED
        BY <1>7, <3>1, <3>2
    <2> QED
      BY <2>1
  <1>13. PICK free : free = (book.base <= book.first)
    OBVIOUS
  <1>14. Workable(X, U, t, c)
    BY <1>3, <1>7, <1>9, <1>10, <1>11, <1>12 DEF Workable, Undisturbed, Going, BaseTaken
  <1>15. \A o \in U : Good(orderbook[o], o \in book.received, o, t, book.base <= book.first)
    BY <1>7 DEF Free, Good
  <1>16. PICK t2 \in (book.first - 1)..c :
           /\ \A m \in book.first..c : m \in s.left <=> m > t2 /\ Kept(m)
           /\ \A o \in U : Good(s.book[o], o \in s.received, o, t2, book.base <= book.first)
    BY <1>5, <1>7, <1>14, <1>15, WorkedDown
  <1>17. s \in Work /\ s.left \in SUBSET X
    BY <1>5, <1>7, <1>14, <1>15, WorkedDown
  <1>18. /\ book'.first = book.first /\ book'.current = c /\ book'.base = book.base
         /\ book'.backlog = s.left /\ book'.received = s.received
    BY <1>6, <1>8, <1>17 DEF HandlerRecord, Place
  <1>19. bases' = bases /\ skipped \subseteq skipped' /\ BaseTaken /\ log' = log
    BY DEF Going
  <1>20. GoodBook(t2)'
    <2>1. free => Free'
      BY <1>13, <1>18 DEF Free
    <2>2. \A o \in Orders : o \in U \/ Disturbed(o)'
      BY <1>3 DEF Undisturbed
    <2>3. \A o \in U : Good(s.book[o], o \in s.received, o, t2, free)
      BY <1>13, <1>16 DEF Good
    <2>4. t2 \in 0..Len(log)
      BY <1>7, <1>9
    <2> QED
      BY <1>6, <1>7, <1>18, <1>19, <2>1, <2>2, <2>3, <2>4, GoodBookNext
  <1>21. WorkedUpTo(t2)'
    BY <1>16, <1>18, <1>19 DEF WorkedUpTo, Kept
  <1>22. \A m \in book'.backlog : m < book.first => m \in book.backlog \/ m \in skipped'
    <2>1. ASSUME NEW m \in X, m < book.first PROVE m \in book.backlog \/ m \in skipped'
      BY <1>4, <1>7, <1>9, <2>1 DEF Place
    <2> QED
      BY <1>17, <1>18, <2>1
  <1> QED
    BY <1>7, <1>16, <1>18, <1>19, <1>20, <1>21, <1>22, BaseTakenNext

LEMMA ProcessGood ==
  ASSUME Going, NEW n \in 1..Len(log), NEW b \in HandlerRecord, Place(n, b), Process(n, b)
  PROVE  BaseTaken'
  BY MatchGood, DirectGood, BacklogGood

-----------------------------------------------------------------------------
(* onMessage, and the restart that goes on with its message.               *)

LEMMA HeadTaken ==
  ASSUME LegalLog, InOrder, line # <<>>, line' = Tail(line), sent' = sent, log' = log
  PROVE  /\ Head(line) \in 1..sent /\ Head(line) \in 1..Len(log)
         /\ line' \in Seq(Nat) /\ sent' \in 0..Len(log')
         /\ \A i \in 1..Len(line') : 0 < line'[i] /\ line'[i] <= sent'
         /\ \A i, j \in 1..Len(line') : i < j => line'[i] < line'[j]
         /\ \A x \in Nat : Handled(x) => Handled(x)' /\ x < Head(line)
         /\ Head(line) <= sent' /\ \A i \in 1..Len(line') : Head(line) < line'[i]
  <1>1. line \in Seq(Nat) /\ Len(line) \in Nat \ {0} /\ sent \in Nat /\ Len(log) \in Nat
    BY DEF InOrder, LegalLog
  <1>2. /\ line' \in Seq(Nat) /\ Len(line') = Len(line) - 1 /\ Head(line) = line[1]
        /\ \A i \in 1..Len(line') : line'[i] = line[i + 1] /\ i + 1 \in 1..Len(line)
    BY <1>1
  <1>3. Head(line) \in 1..sent /\ Head(line) \in 1..Len(log) /\ sent' \in 0..Len(log')
    BY <1>1, <1>2 DEF InOrder
  <1>4. \A i \in 1..Len(line') : 0 < line'[i] /\ line'[i] <= sent'
    BY <1>1, <1>2 DEF InOrder
  <1>5. \A i, j \in 1..Len(line') : i < j => line'[i] < line'[j]
    BY <1>1, <1>2 DEF InOrder
  <1>6. \A x \in Nat : Handled(x) => Handled(x)' /\ x < Head(line)
    BY <1>1, <1>2 DEF Handled
  <1>7. Head(line) <= sent' /\ \A i \in 1..Len(line') : Head(line) < line'[i]
    BY <1>1, <1>2, <1>3 DEF InOrder
  <1> QED
    BY <1>2, <1>3, <1>4, <1>5, <1>6, <1>7

LEMMA OnMessageKeeps ==
  ASSUME Orders # {}, LegalLog, HandlerTypes, InOrder, BookInv, OnMessage
  PROVE  LegalLog' /\ HandlerTypes' /\ InOrder' /\ BookInv'
  <1>1. /\ line # <<>> /\ line' = Tail(line)
        /\ UNCHANGED <<log, sent, gaps, go, cleared, asked, answers, skipped, bases>>
    BY DEF OnMessage
  <1>2. PICK n : n = Head(line)
    OBVIOUS
  <1>3. PICK b : b = IF book.first = 0 THEN [book EXCEPT !.first = n] ELSE book
    OBVIOUS
  <1>4. LegalLog' /\ LogGrows
    BY <1>1, LegalStays
  <1>5. n \in 1..sent /\ n \in 1..Len(log)
    BY <1>1, <1>2, HeadTaken
  <1>6. \A x \in Nat : Handled(x) => Handled(x)' /\ x < n
    BY <1>1, <1>2, HeadTaken
  <1>7. /\ line' \in Seq(Nat) /\ sent' \in 0..Len(log')
        /\ \A i \in 1..Len(line') : 0 < line'[i] /\ line'[i] <= sent'
        /\ \A i, j \in 1..Len(line') : i < j => line'[i] < line'[j]
    BY <1>1, HeadTaken
  <1>8. Handled(n)'
    <2>1. n <= sent' /\ \A i \in 1..Len(line') : n < line'[i]
      BY <1>1, <1>2, HeadTaken
    <2> QED
      BY <2>1 DEF Handled
  <1>9. /\ book \in HandlerRecord /\ book.first \in Nat /\ book.current \in Nat
        /\ book.backlog \subseteq Nat /\ resets \subseteq Nat /\ cleared \subseteq Nat
        /\ n \in Nat
    BY <1>5 DEF HandlerTypes, HandlerRecord, LegalLog
  <1>10. /\ \A x \in resets \cup cleared \cup book.backlog : Handled(x)' /\ x < n
         /\ \A x \in {book.first, book.current} : Handled(x)' /\ x < n
    BY <1>6, <1>9 DEF InOrder
  <1>11. /\ b \in HandlerRecord /\ b.first = IF book.first = 0 THEN n ELSE book.first
         /\ b.current = book.current /\ b.base = book.base /\ b.backlog = book.backlog
         /\ b.received = book.received
    BY <1>3, <1>9 DEF HandlerRecord
  <1>12. book.first # 0 => book.first <= book.current
    BY DEF InOrder
  <1>13. CASE ~go
    <2>1. UNCHANGED <<orderbook, book, resets>>
      BY <1>13 DEF OnMessage
    <2>2. InOrder'
      <3>1. \A m \in book.backlog : Kept(m)' <=> Kept(m)
        BY <1>1 DEF Kept
      <3>2. /\ \A x \in resets \cup cleared \cup book.backlog : Handled(x)'
            /\ Handled(book.first)' /\ Handled(book.current)'
        BY <1>10, <2>1
      <3> QED
        BY <1>1, <1>7, <2>1, <3>1, <3>2 DEF InOrder
    <2> QED
      BY <1>1, <1>4, <2>1, <2>2, TypesKept, Quiet
  <1>14. CASE go /\ ~InSequence(n, b)
    <2>1. resets' = resets \cup {n} /\ book' = b /\ orderbook' = orderbook
      BY <1>2, <1>3, <1>14 DEF OnMessage
    <2>2. b = book /\ book.first # 0
      BY <1>3, <1>11, <1>14 DEF InSequence
    <2>3. HandlerTypes'
      BY <1>1, <1>9, <2>1, <2>2 DEF HandlerTypes
    <2>4. InOrder'
      <3>1. \A m \in book.backlog : Kept(m)' <=> Kept(m)
        BY <1>1 DEF Kept
      <3>2. /\ \A x \in resets' \cup cleared \cup book.backlog : Handled(x)'
            /\ Handled(book.first)' /\ Handled(book.current)'
        BY <1>8, <1>10, <2>1, <2>2
      <3> QED
        BY <1>1, <1>7, <2>1, <2>2, <3>1, <3>2 DEF InOrder
    <2>5. BookInv'
      BY <2>1 DEF BookInv
    <2> QED
      BY <1>4, <2>3, <2>4, <2>5
  <1>15. CASE go /\ InSequence(n, b)
    <2>1. PICK a : a = [b EXCEPT !.current = n]
      OBVIOUS
    <2>2. Process(n, a) /\ resets' = resets
      BY <1>2, <1>3, <1>15, <2>1 DEF OnMessage
    <2>3. /\ a \in HandlerRecord /\ a.first = b.first /\ a.current = n /\ a.base = book.base
          /\ a.backlog = book.backlog /\ a.received = book.received
      BY <1>9, <1>11, <2>1 DEF HandlerRecord
    <2>4. \A m \in book.backlog : m \in 1..Len(log) /\ Kept(m) /\ m < n
      BY <1>5, <1>9, <1>10 DEF InOrder, Handled
    <2>5. /\ book' \in HandlerRecord /\ orderbook' \in [Orders -> Nat] \cup {NoBook}
          /\ book'.first = b.first /\ book'.current = n /\ book'.base = book.base
          /\ \A m \in book'.backlog : (m \in book.backlog \/ m = n) /\ Kept(m)
          /\ orderbook' = NoBook <=> orderbook = NoBook
      BY <1>5, <2>2, <2>3, <2>4, ProcessTypes
    <2>6. HandlerTypes'
      BY <1>1, <2>2, <2>5 DEF HandlerTypes
    <2>7. InOrder'
      <3>1. \A m : Kept(m)' <=> Kept(m)
        BY <1>1 DEF Kept
      <3>2. \A m \in book'.backlog : Handled(m)' /\ 0 < m /\ Kept(m)' /\ m <= n
        BY <1>5, <1>8, <1>9, <1>10, <2>4, <2>5, <3>1
      <3>3. Handled(book.first)' /\ Handled(book.current)'
        BY <1>8, <1>10, <1>11, <2>5
      <3>4. \A x \in resets' \cup cleared' : Handled(x)'
        BY <1>1, <1>10, <2>2
      <3>5. \A x \in cleared' : x < book'.first
        BY <1>1, <1>9, <1>10, <1>11, <2>5 DEF InOrder
      <3>6. book'.first <= book'.current /\ book'.first # 0
        BY <1>5, <1>9, <1>10, <1>11, <2>5
      <3> QED
        BY <1>7, <2>5, <3>2, <3>3, <3>4, <3>5, <3>6 DEF InOrder
    <2>8. ASSUME resets = {}, orderbook = NoBook PROVE NoBase'
      <3>1. NoBase
        BY <2>8 DEF BookInv
      <3>2. /\ ~Kept(n) => book' = a
            /\ Kept(n) => book' = [a EXCEPT !.backlog = @ \cup {n}]
        BY <2>2, <2>8 DEF Process, Kept
      <3>3. book'.backlog = IF Kept(n) THEN book.backlog \cup {n} ELSE book.backlog
        BY <2>3, <3>2 DEF HandlerRecord
      <3>4. n \notin book.backlog
        BY <1>9, <2>4
      <3>5. ASSUME NEW m \in b.first..n
            PROVE  m \in book'.backlog <=> m > b.first - 1 /\ Kept(m)
        <4>1. CASE m = n
          BY <1>9, <1>11, <3>3, <3>4, <4>1
        <4>2. CASE m # n
          <5>1. book.first # 0 /\ n = book.current + 1 /\ m \in book.first..book.current
            BY <1>9, <1>10, <1>11, <1>15, <3>5, <4>2 DEF InSequence
          <5>2. m \in book.backlog <=> m > book.first - 1 /\ Kept(m)
            BY <3>1, <5>1 DEF NoBase, WorkedUpTo
          <5> QED
            BY <1>11, <3>3, <4>2, <5>1, <5>2
        <4> QED
          BY <4>1, <4>2
      <3>6. WorkedUpTo(book.first - 1)'
        BY <1>1, <2>5, <3>5 DEF WorkedUpTo, Kept
      <3> QED
        BY <1>1, <3>1, <3>6 DEF NoBase
    <2>9. ASSUME resets = {}, orderbook # NoBook PROVE BaseTaken'
      <3>1. BaseTaken
        BY <2>9 DEF BookInv
      <3>2. book.first # 0 /\ b.first = book.first /\ n = book.current + 1
        BY <1>9, <1>10, <1>11, <1>15, <3>1 DEF BaseTaken, BaseFound, InSequence
      <3>3. Going
        BY <1>1, <2>9, <3>1 DEF Going
      <3>4. Place(n, a)
        BY <2>3, <3>2 DEF Place
      <3> QED
        BY <1>5, <2>2, <2>3, <3>3, <3>4, ProcessGood
    <2>10. BookInv'
      BY <2>2, <2>5, <2>8, <2>9 DEF BookInv
    <2> QED
      BY <1>4, <2>6, <2>7, <2>10
  <1> QED
    BY <1>13, <1>14, <1>15

\* What AskForBase does to the order of things.
LEMMA AskKeeps ==
  ASSUME Orders # {}, LegalLog, HandlerTypes, InOrder, BookInv, NEW n \in Nat, AskForBase(n)
  PROVE  LegalLog' /\ HandlerTypes' /\ InOrder' /\ BookInv'
  <1>1. /\ n \in cleared /\ cleared' = cleared \ {n}
        /\ skipped' = IF orderbook = NoBook THEN skipped ELSE skipped \cup {n}
        /\ UNCHANGED <<log, sent, line, gaps, go, resets, answers, bases>>
    BY DEF AskForBase
  <1>2. LegalLog' /\ LogGrows
    BY <1>1, LegalStays
  <1>3. /\ n <= sent /\ Handled(n) /\ sent \in 0..Len(log) /\ Len(log) \in Nat
        /\ book.first = 0 \/ n < book.first
        /\ book \in HandlerRecord /\ book.first \in Nat /\ book.current \in Nat
        /\ book.first <= book.current /\ book.backlog \subseteq Nat
    BY <1>1 DEF InOrder, Handled, LegalLog, HandlerTypes, HandlerRecord
  <1>4. \A x : Handled(x)' <=> Handled(x)
    BY <1>1 DEF Handled
  <1>5. \A m : Kept(m)' <=> Kept(m)
    BY <1>1 DEF Kept
  <1>6. \A m \in skipped' : m = 0 \/ m \in 1..Len(log')
    BY <1>1, <1>3 DEF HandlerTypes
  <1>7. skipped \subseteq skipped' /\ (orderbook = NoBook => skipped' = skipped)
    BY <1>1
  <1>8. /\ sent' \in 0..Len(log') /\ line' \in Seq(Nat)
        /\ \A i \in 1..Len(line') : 0 < line'[i] /\ line'[i] <= sent'
        /\ \A i, j \in 1..Len(line') : i < j => line'[i] < line'[j]
    BY <1>1 DEF InOrder
  <1>9. CASE n = 0
    <2>1. UNCHANGED <<orderbook, book>>
      BY <1>9 DEF AskForBase
    <2>2. HandlerTypes'
      BY <1>1, <1>6, <2>1 DEF HandlerTypes
    <2>3. InOrder'
      <3>1. /\ \A x \in resets' \cup cleared' \cup book'.backlog : Handled(x)'
            /\ Handled(book.first)' /\ Handled(book.current)'
        BY <1>1, <1>4, <2>1 DEF InOrder
      <3> QED
        BY <1>1, <1>5, <1>8, <2>1, <3>1 DEF InOrder
    <2>4. BookInv'
      BY <1>1, <1>2, <1>7, <2>1, Quiet
    <2> QED
      BY <1>2, <2>2, <2>3, <2>4
  <1>10. CASE n # 0
    <2>1. Process(n, book) /\ n \in 1..Len(log)
      BY <1>3, <1>10 DEF AskForBase
    <2>2. \A m \in book.backlog : m \in 1..Len(log) /\ Kept(m)
      BY <1>3 DEF InOrder, Handled
    <2>3. /\ book' \in HandlerRecord /\ orderbook' \in [Orders -> Nat] \cup {NoBook}
          /\ book'.first = book.first /\ book'.current = book.current
          /\ book'.base = book.base
          /\ \A m \in book'.backlog : (m \in book.backlog \/ m = n) /\ Kept(m)
          /\ orderbook' = NoBook <=> orderbook = NoBook
      BY <1>3, <2>1, <2>2, ProcessTypes
    <2>4. HandlerTypes'
      BY <1>1, <1>6, <2>3 DEF HandlerTypes
    <2>5. InOrder'
      <3>1. \A m \in book'.backlog : /\ Handled(m)' /\ 0 < m /\ Kept(m)'
                                     /\ book.first = 0 \/ m <= book.current
        BY <1>3, <1>4, <1>5, <1>10, <2>3 DEF InOrder
      <3>2. /\ \A x \in resets' \cup cleared' : Handled(x)'
            /\ Handled(book.first)' /\ Handled(book.current)'
        BY <1>1, <1>4, <2>3 DEF InOrder
      <3>3. /\ \A x \in cleared' : book'.first = 0 \/ x < book'.first
            /\ book'.first <= book'.current
            /\ book'.first = 0 => book'.current = 0
        BY <1>1, <2>3 DEF InOrder
      <3> QED
        BY <1>8, <2>3, <3>1, <3>2, <3>3 DEF InOrder
    <2>6. ASSUME resets = {}, orderbook = NoBook PROVE NoBase'
      <3>1. NoBase /\ bases' = bases /\ skipped' = skipped
        BY <1>1, <1>7, <2>6 DEF BookInv
      <3>2. SUFFICES ASSUME book.first # 0 PROVE WorkedUpTo(book.first - 1)'
        BY <2>3, <3>1 DEF NoBase
      <3>3. /\ ~Kept(n) => book' = book
            /\ Kept(n) => book' = [book EXCEPT !.backlog = @ \cup {n}]
        BY <2>1, <2>6 DEF Process, Kept
      <3>4. book'.backlog = IF Kept(n) THEN book.backlog \cup {n} ELSE book.backlog
        BY <1>3, <3>3 DEF HandlerRecord
      <3>5. \A m \in book.first..book.current : m # n
        BY <1>3, <3>2
      <3>6. \A m \in book.first..book.current :
              m \in book'.backlog <=> m > book.first - 1 /\ Kept(m)
        BY <3>1, <3>2, <3>4, <3>5 DEF NoBase, WorkedUpTo
      <3> QED
        BY <1>5, <2>3, <3>6 DEF WorkedUpTo
    <2>7. ASSUME resets = {}, orderbook # NoBook PROVE BaseTaken'
      <3>1. BaseTaken
        BY <2>7 DEF BookInv
      <3>2. n < book.first /\ n \in skipped'
        BY <1>1, <1>3, <2>7, <3>1 DEF BaseTaken, BaseFound
      <3>3. Going
        BY <1>1, <1>7, <2>7, <3>1 DEF Going
      <3>4. Place(n, book)
        BY <3>2 DEF Place
      <3> QED
        BY <1>3, <2>1, <3>3, <3>4, ProcessGood
    <2>8. BookInv'
      BY <1>1, <2>3, <2>6, <2>7 DEF BookInv
    <2> QED
      BY <1>2, <2>4, <2>5, <2>8
  <1> QED
    BY <1>9, <1>10

-----------------------------------------------------------------------------
(* The base orderbook, and all the steps together.                         *)

\* A base was answered for the book's first message or an earlier one.
LEMMA OldBaseGood ==
  ASSUME Going, NEW n \in Nat, n <= book.first, book' = [book EXCEPT !.base = n],
         orderbook' = orderbook,
         \A m \in book.backlog : n < m /\ m < book.first => m \in skipped'
  PROVE  BaseTaken'
  <1>1. PICK t \in (book.first - 1)..book.current : WorkedUpTo(t) /\ GoodBook(t)
    BY DEF Going, BaseTaken
  <1>2. PICK U : U = {o \in Orders : ~Disturbed(o)'}
    OBVIOUS
  <1>3. Undisturbed(U)
    BY <1>2 DEF Undisturbed
  <1>4. /\ book.first \in Nat \ {0} /\ book.current \in Nat /\ book.current <= Len(log)
        /\ Len(log) \in Nat /\ LogGrows /\ BaseFound /\ LegalLog
        /\ \A m \in book.backlog : m \in Nat
    BY <1>1, <1>3, GoingIs DEF Going
  <1>5. /\ book'.first = book.first /\ book'.current = book.current /\ book'.base = n
        /\ book'.backlog = book.backlog /\ book'.received = book.received
    BY DEF Going, HandlerTypes, HandlerRecord
  <1>6. Free'
    BY <1>5 DEF Free
  <1>7. PICK s : s = Applying
    OBVIOUS
  <1>8. GoodBook(t)'
    <2>1. s.book = orderbook /\ s.received = book.received
      BY <1>1, <1>3, <1>7, GoingIs
    <2>2. \A o \in U : Good(orderbook[o], o \in book.received, o, t, Free)
      BY <1>1, <1>3, GoingIs
    <2>3. \A o \in U : Good(s.book[o], o \in s.received, o, t, TRUE)
      BY <2>1, <2>2 DEF Good
    <2>4. \A o \in Orders : o \in U \/ Disturbed(o)'
      BY <1>3 DEF Undisturbed
    <2>5. t \in 0..Len(log)
      BY <1>4
    <2>6. bases' = bases /\ orderbook' = s.book /\ book'.received = s.received
      BY <1>5, <2>1 DEF Going
    <2> QED
      BY <1>4, <1>5, <1>6, <2>3, <2>4, <2>5, <2>6, GoodBookNext
  <1>9. WorkedUpTo(t)'
    BY <1>1, <1>5 DEF WorkedUpTo, Kept, Going
  <1>10. \A m \in book'.backlog : m < book'.first => m <= book'.base \/ m \in skipped'
    BY <1>4, <1>5
  <1>11. bases' = bases /\ bases # <<>> /\ Base' = Base /\ BaseFound'
    BY <1>4, <1>5 DEF Going, BaseTaken, BaseFound, Base
  <1> QED
    BY <1>5, <1>8, <1>9, <1>10, <1>11 DEF BaseTaken

\* A base is accepted.
LEMMA NewBaseGood ==
  ASSUME Orders # {}, LegalLog, HandlerTypes, InOrder, BookInv, resets = {},
         NEW n \in 1..Len(log), ~TooOld(n), book' = [book EXCEPT !.base = n],
         orderbook' = [o \in Orders |-> VolumeAt(o, n)], bases' = Append(bases, n),
         skipped' = skipped \cup {m \in n + 1..book.current :
                               m \notin book.backlog \cup resets \cup cleared
                               /\ log[m].type # "match"},
         log' = log, cleared' = cleared
  PROVE  BaseTaken'
  <1>1. /\ book.first \in Nat \ {0} /\ book.current \in Nat /\ book.first < n
        /\ book.first <= book.current /\ book.current <= Len(log)
        /\ Len(log) \in Nat /\ LogGrows /\ n \in Nat /\ bases \in Seq(Nat)
    BY DEF TooOld, HandlerTypes, HandlerRecord, InOrder, Handled, LegalLog, LogGrows
  <1>2. /\ book'.first = book.first /\ book'.current = book.current /\ book'.base = n
        /\ book'.backlog = book.backlog /\ book'.received = book.received
    BY DEF HandlerTypes, HandlerRecord
  <1>3. Base' = n /\ bases' # <<>>
    <2>1. Len(bases') = Len(bases) + 1 /\ bases'[Len(bases) + 1] = n /\ Len(bases) \in Nat
      BY <1>1
    <2> QED
      BY <2>1 DEF Base, Last
  <1>4. BaseFound'
    BY <1>1, <1>2, <1>3 DEF BaseFound
  <1>5. PICK t \in (book.first - 1)..book.current : WorkedUpTo(t)
    <2>1. CASE orderbook = NoBook
      BY <1>1, <2>1 DEF BookInv, NoBase
    <2>2. CASE orderbook # NoBook
      BY <2>2 DEF BookInv, BaseTaken
    <2> QED
      BY <2>1, <2>2
  <1>6. WorkedUpTo(t)'
    BY <1>2, <1>5 DEF WorkedUpTo, Kept
  <1>7. \A m \in book'.backlog : m < book'.first => m <= book'.base
    BY <1>1, <1>2 DEF HandlerTypes, HandlerRecord
  <1>8. ASSUME NEW o \in Orders, ~Disturbed(o)'
        PROVE  Good(orderbook[o], o \in book.received, o, t, Free)'
    <2>1. PICK v : v = VolumeAt(o, n)
      OBVIOUS
    <2>2. orderbook'[o] = v
      BY <2>1
    <2>3. ASSUME NEW m \in (n + 1)..t PROVE ~KeptOf(o, m)
      <3>1. SUFFICES ASSUME KeptOf(o, m) PROVE FALSE
        OBVIOUS
      <3>2. m \in book.first..book.current /\ m \in (n + 1)..book.current /\ m # 0
        BY <1>1, <1>5
      <3>3. m \notin book.backlog
        BY <1>1, <1>5, <3>2 DEF WorkedUpTo
      <3>4. m \notin cleared
        BY <1>1, <3>2 DEF InOrder, HandlerTypes
      <3>5. m \in skipped'
        BY <3>1, <3>2, <3>3, <3>4 DEF KeptOf, Kept
      <3>6. log'[m].order = o
        BY <3>1 DEF KeptOf
      <3>7. Disturbed(o)'
        BY <3>2, <3>5, <3>6 DEF Disturbed
      <3> QED
        BY <1>8, <3>7
    <2>4. /\ VolumeAt(o, n)' = VolumeAt(o, n) /\ VolumeAt(o, t)' = VolumeAt(o, t)
          /\ LastChange(o, t)' = LastChange(o, t)
      BY DEF VolumeAt, LastChange
    <2>5. t \in Nat
      BY <1>1
    <2>6. t <= n => ~(LastChange(o, t) > n)
      <3>1. LastChange(o, t) \in 0..t
        BY <2>5, LastIs
      <3> QED
        BY <1>1, <2>5, <3>1
    <2>7. t > n => VolumeAt(o, t) = v /\ ~(LastChange(o, t) > n)
      <3>1. SUFFICES ASSUME t > n PROVE VolumeAt(o, t) = v /\ ~(LastChange(o, t) > n)
        OBVIOUS
      <3>2. LastChange(o, t) = LastChange(o, n) /\ VolumeAt(o, t) = VolumeAt(o, n)
        <4>1. n \in 0..t
          BY <1>1, <2>5, <3>1
        <4> QED
          BY <2>3, <2>5, <4>1, SameSpan
      <3>3. LastChange(o, n) \in 0..n
        BY <1>1, LastIs
      <3> QED
        BY <1>1, <2>1, <3>2, <3>3
    <2>8. VolumeAt(o, Base)' = v
      <3>1. VolumeAt(o, Base)' = VolumeAt(o, n)'
        BY <1>3 DEF VolumeAt, LastChange
      <3> QED
        BY <2>1, <2>4, <3>1
    <2>9. (t >= n => VolumeAt(o, t)' = v) /\ ~(LastChange(o, t)' > n)
      BY <1>1, <2>1, <2>4, <2>5, <2>6, <2>7
    <2> QED
      BY <1>3, <2>2, <2>8, <2>9 DEF Good
  <1>9. GoodBook(t)'
    BY <1>8 DEF GoodBook
  <1> QED
    BY <1>2, <1>3, <1>4, <1>5, <1>6, <1>7, <1>9 DEF BaseTaken

\* What is left are elements of the sequence.
LEMMA RemovedFrom ==
  ASSUME NEW q \in Seq(Nat), NEW i \in 1..Len(q)
  PROVE  /\ RemoveAt(q, i) \in Seq(Nat)
         /\ \A j \in 1..Len(RemoveAt(q, i)) : \E k \in 1..Len(q) : RemoveAt(q, i)[j] = q[k]
  <1>1. PICK l : l = SubSeq(q, 1, i - 1)
    OBVIOUS
  <1>2. PICK r : r = SubSeq(q, i + 1, Len(q))
    OBVIOUS
  <1>3. Len(q) \in Nat /\ i \in Nat
    OBVIOUS
  <1>4. /\ l \in Seq(Nat) /\ Len(l) = i - 1 /\ \A j \in 1..Len(l) : l[j] = q[j]
    BY <1>1, <1>3
  <1>5. /\ r \in Seq(Nat) /\ Len(r) = Len(q) - i /\ \A j \in 1..Len(r) : r[j] = q[i + j]
    BY <1>2, <1>3
  <1>6. RemoveAt(q, i) = l \o r
    BY <1>1, <1>2 DEF RemoveAt
  <1>7. /\ l \o r \in Seq(Nat) /\ Len(l \o r) = Len(l) + Len(r)
        /\ \A j \in 1..Len(l \o r) : (l \o r)[j] = IF j <= Len(l) THEN l[j] ELSE r[j - Len(l)]
    <2>1. l \in Seq(Nat) /\ r \in Seq(Nat)
      BY <1>4, <1>5
    <2> QED
      BY <2>1, ConcatProperties
  <1>8. ASSUME NEW j \in 1..Len(l \o r) PROVE \E k \in 1..Len(q) : (l \o r)[j] = q[k]
    <2>1. CASE j <= Len(l)
      <3>1. j \in 1..Len(l) /\ j \in 1..Len(q)
        BY <1>3, <1>4, <2>1
      <3> QED
        BY <1>4, <1>7, <1>8, <2>1, <3>1
    <2>2. CASE ~(j <= Len(l))
      <3>1. j - Len(l) \in 1..Len(r) /\ i + (j - Len(l)) \in 1..Len(q)
        BY <1>3, <1>4, <1>5, <1>7, <2>2
      <3> QED
        BY <1>5, <1>7, <1>8, <2>2, <3>1
    <2> QED
      BY <2>1, <2>2
  <1> QED
    BY <1>6, <1>7, <1>8

LEMMA ParseKeeps ==
  ASSUME Orders # {}, LegalLog, HandlerTypes, InOrder, BookInv,
         NEW i \in DOMAIN answers, ParseResponse(i)
  PROVE  LegalLog' /\ HandlerTypes' /\ InOrder' /\ BookInv'
  <1>1. PICK n : n = answers[i]
    OBVIOUS
  <1>2. /\ book' = [book EXCEPT !.base = n] /\ Take(i)
        /\ UNCHANGED <<log, sent, line, gaps, go, resets, cleared>>
    BY <1>1 DEF ParseResponse
  <1>3. n \in Nat /\ n <= Len(log) /\ i \in 1..Len(answers) /\ Len(log) \in Nat
    BY <1>1 DEF HandlerTypes, LegalLog
  <1>4. LegalLog' /\ LogGrows
    BY <1>2, LegalStays
  <1>5. /\ book'.first = book.first /\ book'.current = book.current /\ book'.base = n
        /\ book'.backlog = book.backlog /\ book'.received = book.received
        /\ book' \in HandlerRecord
    BY <1>2, <1>3 DEF HandlerTypes, HandlerRecord
  <1>6. InOrder'
    <2>1. \A x : Handled(x)' <=> Handled(x)
      BY <1>2 DEF Handled
    <2>2. \A m : Kept(m)' <=> Kept(m)
      BY <1>2 DEF Kept
    <2>3. /\ \A x \in resets' \cup cleared' \cup book'.backlog : Handled(x)'
          /\ Handled(book.first)' /\ Handled(book.current)'
      BY <1>2, <1>5, <2>1 DEF InOrder
    <2> QED
      BY <1>2, <1>5, <2>2, <2>3 DEF InOrder
  <1>7. /\ answers' \in Seq(Nat)
        /\ \A j \in 1..Len(answers') : answers'[j] <= Len(log')
    <2>1. answers' = RemoveAt(answers, i) /\ answers \in Seq(Nat)
      BY <1>2 DEF Take, HandlerTypes
    <2>2. /\ answers' \in Seq(Nat)
          /\ \A j \in 1..Len(answers') : \E k \in 1..Len(answers) : answers'[j] = answers[k]
      BY <1>3, <2>1, RemovedFrom
    <2> QED
      BY <1>2, <2>2 DEF HandlerTypes
  <1>8. CASE TooOld(n)
    <2>1. /\ orderbook' = orderbook /\ bases' = bases
          /\ skipped' = IF orderbook = NoBook THEN skipped
                        ELSE skipped \cup {m \in book.backlog : n < m /\ m < book.first}
      BY <1>1, <1>8 DEF ParseResponse
    <2>2. \A m \in skipped' : m = 0 \/ m \in 1..Len(log')
      <3>1. \A m \in book.backlog : m \in 1..Len(log)
        BY DEF InOrder, Handled, HandlerTypes, HandlerRecord
      <3> QED
        BY <1>2, <2>1, <3>1 DEF HandlerTypes
    <2>3. HandlerTypes'
      BY <1>2, <1>5, <1>7, <2>1, <2>2 DEF HandlerTypes
    <2>4. ASSUME resets = {}, orderbook = NoBook PROVE NoBase'
      <3>1. NoBase
        BY <2>4 DEF BookInv
      <3> QED
        BY <1>2, <1>5, <2>1, <2>4, <3>1 DEF NoBase, WorkedUpTo, Kept
    <2>5. ASSUME resets = {}, orderbook # NoBook PROVE BaseTaken'
      <3>1. BaseTaken
        BY <2>5 DEF BookInv
      <3>2. n <= book.first
        BY <1>8, <3>1 DEF TooOld, BaseTaken, BaseFound
      <3>3. Going
        BY <1>2, <2>1, <2>5, <3>1 DEF Going
      <3> QED
        BY <1>2, <1>3, <2>1, <2>5, <3>2, <3>3, OldBaseGood
    <2>6. BookInv'
      BY <1>2, <2>1, <2>4, <2>5 DEF BookInv
    <2> QED
      BY <1>4, <1>6, <2>3, <2>6
  <1>9. CASE ~TooOld(n)
    <2>1. /\ orderbook' = [o \in Orders |-> VolumeAt(o, n)] /\ bases' = Append(bases, n)
          /\ skipped' = skipped \cup {m \in n + 1..book.current :
                               m \notin book.backlog \cup resets \cup cleared
                               /\ log[m].type # "match"}
      BY <1>1, <1>9 DEF ParseResponse
    <2>2. \A m \in skipped' : m = 0 \/ m \in 1..Len(log')
      <3>1. book.current <= Len(log) /\ book.current \in Nat
        BY DEF InOrder, Handled, HandlerTypes, HandlerRecord
      <3> QED
        BY <1>2, <1>3, <2>1, <3>1 DEF HandlerTypes
    <2>3. orderbook' \in [Orders -> Nat]
      BY <1>3, <2>1, BookVolumes
    <2>4. bases' \in Seq(Nat)
      BY <1>3, <2>1 DEF HandlerTypes
    <2>5. HandlerTypes'
      BY <1>2, <1>5, <1>7, <2>2, <2>3, <2>4 DEF HandlerTypes
    <2>6. n \in 1..Len(log)
      BY <1>3, <1>9 DEF TooOld, HandlerTypes, HandlerRecord
    <2>7. resets = {} => BaseTaken'
      BY <1>2, <1>9, <2>1, <2>6, NewBaseGood
    <2>8. orderbook' # NoBook
      BY <2>3, NoBookIs
    <2>9. BookInv'
      BY <1>2, <2>7, <2>8 DEF BookInv
    <2> QED
      BY <1>4, <1>6, <2>5, <2>9
  <1> QED
    BY <1>8, <1>9

LEMMA FeedStepInv == ASSUME CoinbaseInv, [FeedNext]_feedVars PROVE CoinbaseInv'
  <1> SUFFICES ASSUME Orders # {} PROVE LegalLog' /\ HandlerTypes' /\ InOrder' /\ BookInv'
    BY DEF CoinbaseInv
  <1>1. LegalLog /\ HandlerTypes /\ InOrder /\ BookInv
    BY DEF CoinbaseInv
  <1>2. \A n \in 0..MaxLog : n \in Nat
    OBVIOUS
  <1>3. ASSUME NEW o \in Orders, ExchangeStep(o)
        PROVE  LegalLog' /\ HandlerTypes' /\ InOrder' /\ BookInv'
    BY <1>1, <1>3, ExchangeStepKeeps
  <1>4. CASE Send \/ Miss
    BY <1>1, <1>4, WireStepKeeps
  <1>5. CASE ConnectionLost
    BY <1>1, <1>5, LostKeeps
  <1>6. CASE Flag
    BY <1>1, <1>6, FlagKeeps
  <1>7. CASE OnMessage
    BY <1>1, <1>7, OnMessageKeeps
  <1>8. ASSUME NEW n \in 0..MaxLog, Reset(n) \/ AskForBase(n) \/ Answer(n)
        PROVE  LegalLog' /\ HandlerTypes' /\ InOrder' /\ BookInv'
    BY <1>1, <1>2, <1>8, ResetKeeps, AskKeeps, AnswerKeeps
  <1>9. ASSUME NEW i \in DOMAIN answers, ParseResponse(i)
        PROVE  LegalLog' /\ HandlerTypes' /\ InOrder' /\ BookInv'
    BY <1>1, <1>9, ParseKeeps
  <1>10. CASE UNCHANGED feedVars
    <2>1. /\ UNCHANGED <<log, sent, line, orderbook, book, resets, cleared, answers, skipped,
                         bases>>
      BY <1>10 DEF feedVars
    <2>2. LegalLog' /\ LogGrows
      BY <1>1, <2>1, LegalStays
    <2> QED
      BY <1>1, <2>1, <2>2, TypesKept, OrderKept, Quiet
  <1> QED
    BY <1>3, <1>4, <1>5, <1>6, <1>7, <1>8, <1>9, <1>10 DEF FeedNext

LEMMA SyncedFollows == ASSUME CoinbaseInv PROVE BookFollowsStream
  <1>1. SUFFICES ASSUME Synced, NEW o \in Orders, ~Disturbed(o)
                 PROVE  \/ orderbook[o] = VolumeAt(o, book.current)
                        \/ Orphan(o) /\ orderbook[o] = 0
    BY DEF BookFollowsStream
  <1>2. /\ LegalLog /\ HandlerTypes /\ InOrder /\ BaseTaken
        /\ orderbook # NoBook /\ book.backlog = {} /\ book.current >= Base
    BY <1>1 DEF CoinbaseInv, BookInv, Synced, Base
  <1>3. PICK t \in (book.first - 1)..book.current : WorkedUpTo(t) /\ GoodBook(t)
    BY <1>2 DEF BaseTaken
  <1>4. /\ book.first \in Nat \ {0} /\ book.current \in Nat /\ book.current <= Len(log)
        /\ Len(log) \in Nat /\ BaseFound
    BY <1>2 DEF BaseTaken, BaseFound, HandlerTypes, HandlerRecord, InOrder, Handled, LegalLog
  <1>5. PICK c : c = book.current
    OBVIOUS
  <1>6. PICK v : v = orderbook[o]
    OBVIOUS
  <1>7. PICK heard : heard = (o \in book.received)
    OBVIOUS
  <1>8. v \in Nat
    BY <1>2, <1>6 DEF HandlerTypes
  <1>9. Good(v, heard, o, t, TRUE)
    <2>1. Good(orderbook[o], o \in book.received, o, t, Free)
      BY <1>1, <1>3 DEF GoodBook
    <2> QED
      BY <1>6, <1>7, <2>1 DEF Good
  <1>10. c \in 0..Len(log) /\ t \in 0..c
    BY <1>4, <1>5
  <1>11. \A m \in (t + 1)..c : ~KeptOf(o, m)
    BY <1>2, <1>3, <1>4, <1>5 DEF WorkedUpTo, KeptOf
  <1>12. heard => heard
    OBVIOUS
  <1>13. Good(v, heard, o, c, TRUE)
    BY <1>2, <1>4, <1>8, <1>9, <1>10, <1>11, <1>12, GoodSpan, Zenon
  <1> QED
    BY <1>2, <1>5, <1>6, <1>13 DEF Good

\* The book of Coinbase is the exchange's once its backlog is worked down, but
\* for the orders that a restart, a second base or an old one disturbed, or that
\* were received before the base (onMessage, parse_response and apply_backlog of
\* CoinbaseOrderbookWebsocket).
THEOREM BookFollowsAlways == ServiceSpec => []BookFollowsStream
  <1>1. ServiceInit => CoinbaseInv
    BY PartsStart, FeedInitInv
  <1>2. CoinbaseInv /\ [ServiceNext]_<<feedsVars, serviceVars>> => CoinbaseInv'
    BY PartsStep, FeedStepInv
  <1>3. CoinbaseInv => BookFollowsStream
    BY SyncedFollows
  <1> QED
    BY <1>1, <1>2, <1>3, PTL DEF ServiceSpec

-----------------------------------------------------------------------------
(* The backfill.  Trades are written newest first: where a row is, the     *)
(* newer trades are or were; a run begins again at one of its own rows.    *)

Distinct(rows) == \A i, j \in DOMAIN rows : i # j => rows[i] # rows[j]

Older == {t \in archive : \A r \in recorded : t.time < r.time}

SomeShort == \E r \in recorded : r.id < 10

TradeOrder ==
  /\ archive \subseteq [id : 1..99, time : Nat] /\ recorded \subseteq archive
  /\ \A s, t \in archive : s.id <= t.id => s.time <= t.time

\* What a row of the table tells of the newer trades.
NewestFirst(rows) ==
  \A t \in Older : \A r \in ToSet(rows) :
    r.time < t.time => t \in ToSet(rows) \/ \E q \in ToSet(rows) : q.time = t.time

\* Of the older trades a run has some to write, the others have been written.
Backfilled(rows, new, todo, runs) ==
  /\ rows \in Seq(archive) /\ new \in Seq(archive) /\ todo \subseteq archive
  /\ NewestFirst(rows)
  /\ \A t \in Older : \/ t \in todo \/ t \in ToSet(rows) \/ t \in ToSet(new)
                      \/ runs > 1 /\ \E q \in ToSet(rows) : q.time = t.time
  /\ \A r \in ToSet(new), t \in todo : t.time <= r.time
  /\ runs = 1 =>
       /\ Distinct(rows) /\ Distinct(new) /\ ToSet(rows) \cap ToSet(new) = {}
       /\ todo \cap (ToSet(rows) \cup ToSet(new)) = {}
       /\ SomeShort \/ recorded \cap (todo \cup ToSet(rows) \cup ToSet(new)) = {}

JobRecord ==
  [at : {"idle", "writing", "done"}, todo : SUBSET archive, index : Nat, runs : Nat]

BackfillInv ==
  history.about = "backfill" =>
    /\ TradeOrder /\ job \in JobRecord
    /\ job.at = "idle" =>
         /\ table \in Seq(archive) /\ added = <<>> /\ NewestFirst(table)
         /\ job.runs = 0 => table = <<>>
    /\ job.at = "writing" => job.runs > 0 /\ Backfilled(table, added, job.todo, job.runs)
    /\ job.at = "done" => job.runs > 0 /\ Backfilled(table, <<>>, {}, job.runs)

LEMMA AppendSet ==
  ASSUME NEW S, NEW q \in Seq(S), NEW x \in S
  PROVE  /\ Append(q, x) \in Seq(S) /\ ToSet(Append(q, x)) = ToSet(q) \cup {x}
         /\ Distinct(q) /\ x \notin ToSet(q) => Distinct(Append(q, x))
  <1>1. PICK r : r = Append(q, x)
    OBVIOUS
  <1>2. /\ r \in Seq(S) /\ Len(q) \in Nat /\ Len(r) = Len(q) + 1 /\ r[Len(q) + 1] = x
        /\ DOMAIN r = 1..(Len(q) + 1) /\ DOMAIN q = 1..Len(q)
        /\ \A i \in 1..Len(q) : r[i] = q[i]
    BY <1>1
  <1>3. ASSUME NEW y \in ToSet(r) PROVE y \in ToSet(q) \cup {x}
    <2>1. PICK i \in 1..(Len(q) + 1) : r[i] = y
      BY <1>2, <1>3 DEF ToSet
    <2>2. i \in 1..Len(q) \/ i = Len(q) + 1
      BY <1>2
    <2> QED
      BY <1>2, <2>1, <2>2 DEF ToSet
  <1>4. ASSUME NEW y \in ToSet(q) \cup {x} PROVE y \in ToSet(r)
    <2>1. CASE y \in ToSet(q)
      <3>1. PICK i \in 1..Len(q) : q[i] = y
        BY <1>2, <2>1 DEF ToSet
      <3>2. i \in 1..(Len(q) + 1) /\ r[i] = y
        BY <1>2, <3>1
      <3> QED
        BY <1>2, <3>2 DEF ToSet
    <2>2. CASE y = x
      <3>1. Len(q) + 1 \in 1..(Len(q) + 1)
        BY <1>2
      <3> QED
        BY <1>2, <2>2, <3>1 DEF ToSet
    <2> QED
      BY <1>4, <2>1, <2>2
  <1>5. ASSUME Distinct(q), x \notin ToSet(q) PROVE Distinct(r)
    <2>1. \A i \in 1..Len(q) : q[i] # x
      BY <1>2, <1>5 DEF ToSet
    <2>2. ASSUME NEW i \in 1..(Len(q) + 1), NEW j \in 1..(Len(q) + 1), i # j
          PROVE  r[i] # r[j]
      <3>1. CASE i \in 1..Len(q) /\ j \in 1..Len(q)
        BY <1>2, <1>5, <2>2, <3>1 DEF Distinct
      <3>2. CASE i = Len(q) + 1 \/ j = Len(q) + 1
        <4>1. i \in 1..Len(q) \/ j \in 1..Len(q)
          BY <1>2, <2>2, <3>2
        <4> QED
          BY <1>2, <2>1, <2>2, <3>2, <4>1
      <3> QED
        BY <1>2, <3>1, <3>2
    <2> QED
      BY <1>2, <2>2 DEF Distinct
  <1> QED
    BY <1>1, <1>2, <1>3, <1>4, <1>5

LEMMA ConcatSet ==
  ASSUME NEW S, NEW p \in Seq(S), NEW q \in Seq(S)
  PROVE  /\ p \o q \in Seq(S) /\ ToSet(p \o q) = ToSet(p) \cup ToSet(q)
         /\ (Distinct(p) /\ Distinct(q) /\ ToSet(p) \cap ToSet(q) = {}) => Distinct(p \o q)
  <1>1. PICK r : r = p \o q
    OBVIOUS
  <1>2. /\ r \in Seq(S) /\ Len(r) = Len(p) + Len(q)
        /\ \A i \in 1..(Len(p) + Len(q)) : r[i] = IF i <= Len(p) THEN p[i] ELSE q[i - Len(p)]
    BY <1>1, ConcatProperties
  <1>3. /\ Len(p) \in Nat /\ Len(q) \in Nat
        /\ DOMAIN p = 1..Len(p) /\ DOMAIN q = 1..Len(q) /\ DOMAIN r = 1..(Len(p) + Len(q))
    BY <1>2
  <1>4. ASSUME NEW i \in 1..(Len(p) + Len(q))
        PROVE  \/ i \in 1..Len(p) /\ r[i] = p[i]
               \/ i - Len(p) \in 1..Len(q) /\ i > Len(p) /\ r[i] = q[i - Len(p)]
    BY <1>2, <1>3
  <1>5. ASSUME NEW y \in ToSet(r) PROVE y \in ToSet(p) \cup ToSet(q)
    <2>1. PICK i \in 1..(Len(p) + Len(q)) : r[i] = y
      BY <1>3, <1>5 DEF ToSet
    <2> QED
      BY <1>3, <1>4, <2>1 DEF ToSet
  <1>6. ASSUME NEW y \in ToSet(p) \cup ToSet(q) PROVE y \in ToSet(r)
    <2>1. CASE y \in ToSet(p)
      <3>1. PICK i \in 1..Len(p) : p[i] = y
        BY <1>3, <2>1 DEF ToSet
      <3>2. i \in 1..(Len(p) + Len(q)) /\ r[i] = y
        BY <1>2, <1>3, <3>1
      <3> QED
        BY <1>3, <3>2 DEF ToSet
    <2>2. CASE y \in ToSet(q)
      <3>1. PICK i \in 1..Len(q) : q[i] = y
        BY <1>3, <2>2 DEF ToSet
      <3>2. PICK k \in 1..(Len(p) + Len(q)) : k = Len(p) + i
        BY <1>3, <3>1
      <3>3. ~(k <= Len(p)) /\ k - Len(p) = i
        BY <1>3, <3>1, <3>2
      <3>4. r[k] = y
        BY <1>2, <3>1, <3>3
      <3> QED
        BY <1>3, <3>4 DEF ToSet
    <2> QED
      BY <1>6, <2>1, <2>2
  <1>7. ASSUME Distinct(p), Distinct(q), ToSet(p) \cap ToSet(q) = {} PROVE Distinct(r)
    <2>1. \A i \in 1..Len(p), j \in 1..Len(q) : p[i] # q[j]
      BY <1>3, <1>7 DEF ToSet
    <2>2. ASSUME NEW i \in 1..(Len(p) + Len(q)), NEW j \in 1..(Len(p) + Len(q)), i # j
          PROVE  r[i] # r[j]
      <3>1. CASE i \in 1..Len(p) /\ j \in 1..Len(p)
        BY <1>2, <1>3, <1>7, <2>2, <3>1 DEF Distinct
      <3>2. CASE i > Len(p) /\ j > Len(p)
        <4>1. /\ i - Len(p) \in 1..Len(q) /\ j - Len(p) \in 1..Len(q)
              /\ i - Len(p) # j - Len(p)
          BY <1>3, <2>2, <3>2
        <4>2. q[i - Len(p)] # q[j - Len(p)]
          BY <1>3, <1>7, <4>1 DEF Distinct
        <4>3. ~(i <= Len(p)) /\ ~(j <= Len(p))
          BY <1>3, <2>2, <3>2
        <4>4. r[i] = q[i - Len(p)] /\ r[j] = q[j - Len(p)]
          BY <1>2, <4>3
        <4> QED
          BY <4>2, <4>4
      <3>3. CASE i \in 1..Len(p) /\ j > Len(p)
        <4>1. r[i] = p[i] /\ r[j] = q[j - Len(p)] /\ j - Len(p) \in 1..Len(q)
          BY <1>2, <1>3, <3>3
        <4> QED
          BY <2>1, <3>3, <4>1
      <3>4. CASE i > Len(p) /\ j \in 1..Len(p)
        <4>1. r[j] = p[j] /\ r[i] = q[i - Len(p)] /\ i - Len(p) \in 1..Len(q)
          BY <1>2, <1>3, <3>4
        <4> QED
          BY <2>1, <3>4, <4>1
      <3> QED
        BY <1>3, <3>1, <3>2, <3>3, <3>4
    <2> QED
      BY <1>3, <2>2 DEF Distinct
  <1> QED
    BY <1>1, <1>2, <1>5, <1>6, <1>7

LEMMA NoRows == ToSet(<<>>) = {} /\ Distinct(<<>>)
  BY DEF ToSet, Distinct

\* A trade is written.
LEMMA Wrote ==
  ASSUME NEW rows, NEW new, NEW todo, NEW runs, Backfilled(rows, new, todo, runs),
         TradeOrder, NEW t \in todo, ComesFirst(t, todo)
  PROVE  Backfilled(rows, Append(new, t), todo \ {t}, runs)
  <1>1. /\ rows \in Seq(archive) /\ new \in Seq(archive) /\ todo \subseteq archive
        /\ t \in archive
    BY DEF Backfilled
  <1>2. PICK more : more = Append(new, t)
    OBVIOUS
  <1>3. /\ more \in Seq(archive) /\ ToSet(more) = ToSet(new) \cup {t}
        /\ Distinct(new) /\ t \notin ToSet(new) => Distinct(more)
    BY <1>1, <1>2, AppendSet
  <1>4. \A r \in ToSet(more), u \in todo \ {t} : u.time <= r.time
    <2>1. \A u \in todo : u.time <= t.time
      <3>1. \A u \in todo : u.time \in Nat /\ t.time \in Nat
        BY <1>1 DEF TradeOrder
      <3> QED
        BY <3>1 DEF ComesFirst
    <2> QED
      BY <1>3, <2>1 DEF Backfilled
  <1>5. ASSUME runs = 1
        PROVE  /\ Distinct(rows) /\ Distinct(more) /\ ToSet(rows) \cap ToSet(more) = {}
               /\ (todo \ {t}) \cap (ToSet(rows) \cup ToSet(more)) = {}
               /\ \/ SomeShort
                  \/ recorded \cap ((todo \ {t}) \cup ToSet(rows) \cup ToSet(more)) = {}
    <2>1. /\ Distinct(rows) /\ Distinct(new) /\ ToSet(rows) \cap ToSet(new) = {}
          /\ todo \cap (ToSet(rows) \cup ToSet(new)) = {}
          /\ SomeShort \/ recorded \cap (todo \cup ToSet(rows) \cup ToSet(new)) = {}
      BY <1>5 DEF Backfilled
    <2>2. t \notin ToSet(new) /\ t \notin ToSet(rows)
      BY <2>1
    <2> QED
      BY <1>3, <2>1, <2>2
  <1>6. \A u \in Older : \/ u \in todo \ {t} \/ u \in ToSet(rows) \/ u \in ToSet(more)
                         \/ runs > 1 /\ \E q \in ToSet(rows) : q.time = u.time
    BY <1>3 DEF Backfilled
  <1> QED
    BY <1>1, <1>2, <1>3, <1>4, <1>5, <1>6 DEF Backfilled

\* The session is committed.
LEMMA Committed ==
  ASSUME NEW rows, NEW new, NEW todo, NEW runs, Backfilled(rows, new, todo, runs), TradeOrder
  PROVE  Backfilled(rows \o new, <<>>, todo, runs)
  <1>1. /\ rows \in Seq(archive) /\ new \in Seq(archive) /\ todo \subseteq archive
    BY DEF Backfilled
  <1>2. PICK all : all = rows \o new
    OBVIOUS
  <1>3. /\ all \in Seq(archive) /\ ToSet(all) = ToSet(rows) \cup ToSet(new)
        /\ (Distinct(rows) /\ Distinct(new) /\ ToSet(rows) \cap ToSet(new) = {}) =>
             Distinct(all)
    BY <1>1, <1>2, ConcatSet
  <1>4. NewestFirst(all)
    <2>1. ASSUME NEW t \in Older, NEW r \in ToSet(all), r.time < t.time
          PROVE  t \in ToSet(all) \/ \E q \in ToSet(all) : q.time = t.time
      <3>1. CASE r \in ToSet(rows)
        BY <1>3, <2>1, <3>1 DEF Backfilled, NewestFirst
      <3>2. CASE r \in ToSet(new)
        <4>1. r \in archive /\ t \in archive
          BY <1>1, <3>2 DEF ToSet, Older
        <4>2. ~(t.time <= r.time)
          BY <2>1, <4>1 DEF TradeOrder
        <4>3. t \notin todo
          BY <3>2, <4>2 DEF Backfilled
        <4> QED
          BY <1>3, <4>3 DEF Backfilled
      <3> QED
        BY <1>3, <3>1, <3>2
    <2> QED
      BY <2>1 DEF NewestFirst
  <1>5. \A t \in Older : \/ t \in todo \/ t \in ToSet(all)
                         \/ runs > 1 /\ \E q \in ToSet(all) : q.time = t.time
    BY <1>3 DEF Backfilled
  <1>6. ASSUME runs = 1
        PROVE  /\ Distinct(all) /\ todo \cap ToSet(all) = {}
               /\ SomeShort \/ recorded \cap (todo \cup ToSet(all)) = {}
    BY <1>3, <1>6 DEF Backfilled
  <1>7. <<>> \in Seq(archive)
    OBVIOUS
  <1> QED
    BY <1>1, <1>2, <1>3, <1>4, <1>5, <1>6, <1>7, NoRows DEF Backfilled

LEMMA BackfillInitInv == ASSUME BackfillInit PROVE BackfillInv
  <1>1. PICK times \in [Ids -> Seconds] :
          /\ \A i, j \in Ids : i < j => times[i] <= times[j]
          /\ archive = {[id |-> i, time |-> times[i]] : i \in Ids}
    BY DEF BackfillInit
  <1>2. PICK n \in Ids : recorded = {t \in archive : t.id >= n}
    BY DEF BackfillInit
  <1>3. \A i \in Ids : i \in 1..99 /\ times[i] \in Nat
    BY BackfillAssumption
  <1>4. \A s, t \in archive : s.id <= t.id => s.time <= t.time
    <2>1. ASSUME NEW i \in Ids, NEW j \in Ids, i <= j PROVE times[i] <= times[j]
      <3>1. i = j \/ i < j
        BY <1>3, <2>1
      <3> QED
        BY <1>1, <1>3, <3>1
    <2> QED
      BY <1>1, <2>1
  <1>5. TradeOrder
    BY <1>1, <1>2, <1>3, <1>4 DEF TradeOrder
  <1>6. job \in JobRecord /\ job.at = "idle"
    BY DEF BackfillInit, JobRecord
  <1>7. table = <<>> /\ added = <<>> /\ table \in Seq(archive)
    BY DEF BackfillInit
  <1>8. NewestFirst(table)
    BY <1>7, NoRows DEF NewestFirst
  <1> QED
    BY <1>5, <1>6, <1>7, <1>8 DEF BackfillInv

\* A run begins.
LEMMA Starts ==
  ASSUME TradeOrder, job \in JobRecord, table \in Seq(archive), NewestFirst(table),
         job.runs = 0 => table = <<>>, NEW first \in FirstRows
  PROVE  Backfilled(table, <<>>, {t \in archive : t.time < first.time}, job.runs + 1)
  <1> DEFINE todo == {t \in archive : t.time < first.time}
  <1>1. job.runs \in Nat
    BY DEF JobRecord
  <1>2. \A r \in ToSet(table) : r \in archive
    BY DEF ToSet
  <1>3. first \in archive /\ (table # <<>> => first \in ToSet(table))
        /\ (table = <<>> => first \in recorded)
    BY <1>2 DEF FirstRows, TradeOrder
  <1>4. \A t \in archive : t.time \in Nat /\ t.id \in 1..99
    BY DEF TradeOrder
  <1>5. ASSUME NEW t \in Older
        PROVE  \/ t \in todo \/ t \in ToSet(table)
               \/ job.runs + 1 > 1 /\ \E q \in ToSet(table) : q.time = t.time
    <2>1. t \in archive /\ (first \in recorded => t.time < first.time)
      BY DEF Older
    <2>2. CASE table = <<>>
      BY <1>3, <2>1, <2>2
    <2>3. CASE table # <<>>
      <3>1. job.runs + 1 > 1 /\ first \in ToSet(table)
        BY <1>1, <1>3, <2>3
      <3>2. t.time < first.time \/ t.time = first.time \/ first.time < t.time
        BY <1>3, <1>4, <2>1
      <3> QED
        BY <2>1, <3>1, <3>2 DEF NewestFirst
    <2> QED
      BY <2>2, <2>3
  <1>6. ASSUME job.runs + 1 = 1
        PROVE  SomeShort \/ recorded \cap todo = {}
    <2>1. table = <<>>
      BY <1>1, <1>6
    <2>2. first \in recorded /\ \A u \in recorded : TextRank(first.id) <= TextRank(u.id)
      BY <2>1 DEF FirstRows
    <2>3. SUFFICES ASSUME ~SomeShort, NEW r \in recorded PROVE r \notin todo
      OBVIOUS
    <2>4. r \in archive /\ first \in archive
      BY <1>3 DEF TradeOrder
    <2>5. ~(first.id < 10) /\ ~(r.id < 10)
      BY <2>2, <2>3 DEF SomeShort
    <2>6. first.id <= r.id
      <3>1. TextRank(first.id) <= TextRank(r.id)
        BY <2>2, <2>3
      <3>2. PICK i \in 1..99, j \in 1..99 : i = first.id /\ j = r.id
        BY <1>4, <2>4
      <3>3. TextRank(first.id) = 2 * i + 1 /\ TextRank(r.id) = 2 * j + 1
        BY <2>5, <3>2 DEF TextRank
      <3>4. i <= j
        BY <3>1, <3>3
      <3> QED
        BY <3>2, <3>4
    <2>7. first.time <= r.time
      BY <2>4, <2>6 DEF TradeOrder
    <2> QED
      BY <1>4, <2>4, <2>7
  <1>7. job.runs + 1 = 1 => table = <<>>
    BY <1>1
  <1>8. <<>> \in Seq(archive) /\ todo \subseteq archive
    OBVIOUS
  <1> HIDE DEF todo
  <1>9. Backfilled(table, <<>>, todo, job.runs + 1)
    BY <1>5, <1>6, <1>7, <1>8, NoRows DEF Backfilled
  <1> QED
    BY <1>9 DEF todo

LEMMA BackfillStepInv ==
  ASSUME BackfillInv, [BackfillNext]_backfillVars, history' = history
  PROVE  BackfillInv'
  <1> SUFFICES ASSUME history.about = "backfill" PROVE BackfillInv'
    BY DEF BackfillInv
  <1>1. TradeOrder /\ job \in JobRecord
    BY DEF BackfillInv
  <1>2. ASSUME archive' = archive, recorded' = recorded
        PROVE  /\ TradeOrder' /\ JobRecord' = JobRecord
               /\ \A rows : NewestFirst(rows)' <=> NewestFirst(rows)
               /\ \A rows, new, todo, runs :
                    Backfilled(rows, new, todo, runs)' <=> Backfilled(rows, new, todo, runs)
    <2>1. TradeOrder' /\ Older' = Older /\ (SomeShort' <=> SomeShort) /\ JobRecord' = JobRecord
      BY <1>1, <1>2 DEF TradeOrder, Older, SomeShort, JobRecord
    <2>2. \A rows : NewestFirst(rows)' <=> NewestFirst(rows)
      BY <2>1 DEF NewestFirst
    <2>3. \A rows, new, todo, runs :
            Backfilled(rows, new, todo, runs)' <=> Backfilled(rows, new, todo, runs)
      BY <1>2, <2>1, <2>2 DEF Backfilled
    <2> QED
      BY <2>1, <2>2, <2>3
  <1>3. CASE UNCHANGED backfillVars
    <2>1. UNCHANGED <<archive, recorded, table, added, job>>
      BY <1>3 DEF backfillVars
    <2> QED
      BY <1>2, <2>1 DEF BackfillInv
  <1>4. CASE StartBackfill
    <2>1. /\ UNCHANGED <<archive, recorded, table, added>> /\ job.at = "idle"
          /\ table \in Seq(archive) /\ added = <<>> /\ NewestFirst(table)
          /\ job.runs = 0 => table = <<>>
      BY <1>4 DEF StartBackfill, BackfillInv
    <2>2. PICK first \in FirstRows :
            job' = [at |-> "writing", index |-> 0, runs |-> job.runs + 1,
                    todo |-> {t \in archive : t.time < first.time}]
      BY <1>4 DEF StartBackfill
    <2>3. Backfilled(table, <<>>, {t \in archive : t.time < first.time}, job.runs + 1)
      BY <1>1, <2>1, Starts
    <2>4. job.runs \in Nat
      BY <1>1 DEF JobRecord
    <2>5. /\ job' \in JobRecord /\ job'.at = "writing" /\ job'.runs > 0
          /\ job'.todo = {t \in archive : t.time < first.time} /\ job'.runs = job.runs + 1
      BY <2>2, <2>4 DEF JobRecord
    <2>6. Backfilled(table', added', job'.todo, job'.runs)
      BY <2>1, <2>3, <2>5
    <2> QED
      BY <1>2, <2>1, <2>5, <2>6 DEF BackfillInv
  <1>5. ASSUME NEW t \in job.todo, WriteTrade(t) PROVE BackfillInv'
    <2>1. /\ UNCHANGED <<archive, recorded>> /\ job.at = "writing" /\ ComesFirst(t, job.todo)
          /\ job' = [job EXCEPT !.todo = @ \ {t}, !.index = @ + 1]
      BY <1>5 DEF WriteTrade
    <2>2. job.runs > 0 /\ Backfilled(table, added, job.todo, job.runs)
      BY <2>1 DEF BackfillInv
    <2>3. Backfilled(table, Append(added, t), job.todo \ {t}, job.runs)
      BY <1>1, <2>1, <2>2, Wrote
    <2>4. Backfilled(table', added', job.todo \ {t}, job.runs)
      <3>1. CASE table' = table \o Append(added, t) /\ added' = <<>>
        BY <1>1, <2>3, <3>1, Committed
      <3>2. CASE added' = Append(added, t) /\ UNCHANGED table
        BY <2>3, <3>2
      <3> QED
        BY <1>5, <3>1, <3>2 DEF WriteTrade
    <2>5. /\ job.index + 1 \in Nat /\ job.todo \ {t} \subseteq archive
          /\ job' = [at |-> "writing", todo |-> job.todo \ {t}, index |-> job.index + 1,
                     runs |-> job.runs]
      <3>1. /\ job.index \in Nat /\ job.runs \in Nat /\ job.todo \subseteq archive
            /\ job = [at |-> job.at, todo |-> job.todo, index |-> job.index, runs |-> job.runs]
        BY <1>1 DEF JobRecord
      <3>2. job' = [at |-> job.at, todo |-> job.todo \ {t}, index |-> job.index + 1,
                    runs |-> job.runs]
        BY <2>1, <3>1
      <3>3. job.index + 1 \in Nat /\ job.todo \ {t} \subseteq archive
        BY <3>1
      <3> QED
        BY <2>1, <3>2, <3>3, Zenon
    <2>6. /\ job' \in JobRecord /\ job'.at = "writing" /\ job'.runs = job.runs
          /\ job'.todo = job.todo \ {t}
      BY <1>1, <2>5 DEF JobRecord
    <2>7. Backfilled(table', added', job'.todo, job'.runs)
      BY <2>4, <2>6
    <2> QED
      BY <1>2, <2>1, <2>2, <2>6, <2>7 DEF BackfillInv
  <1>6. CASE EndBackfill
    <2>1. /\ UNCHANGED <<archive, recorded>> /\ job.at = "writing" /\ job.todo = {}
          /\ table' = table \o added /\ added' = <<>> /\ job' = [job EXCEPT !.at = "done"]
      BY <1>6 DEF EndBackfill
    <2>2. job.runs > 0 /\ Backfilled(table, added, {}, job.runs)
      BY <2>1 DEF BackfillInv
    <2>3. Backfilled(table', <<>>, {}, job.runs)
      BY <1>1, <2>1, <2>2, Committed
    <2>4. job' \in JobRecord /\ job'.at = "done" /\ job'.runs = job.runs
      BY <1>1, <2>1 DEF JobRecord
    <2>5. Backfilled(table', <<>>, {}, job'.runs)
      BY <2>3, <2>4
    <2> QED
      BY <1>2, <2>1, <2>2, <2>4, <2>5 DEF BackfillInv
  <1>7. CASE CutShort
    <2>1. /\ UNCHANGED <<archive, recorded, table>> /\ job.at = "writing"
          /\ added' = <<>> /\ job' = [job EXCEPT !.at = "idle"]
      BY <1>7 DEF CutShort
    <2>2. job.runs > 0 /\ table \in Seq(archive) /\ NewestFirst(table)
      BY <2>1 DEF BackfillInv, Backfilled
    <2>3. job' \in JobRecord /\ job'.at = "idle" /\ job'.runs = job.runs
      BY <1>1, <2>1 DEF JobRecord
    <2>4. table' \in Seq(archive) /\ NewestFirst(table') /\ ~(job'.runs = 0)
      BY <1>1, <2>1, <2>2, <2>3 DEF JobRecord
    <2>5. table' \in Seq(archive') /\ NewestFirst(table)'
      BY <1>2, <2>1, <2>2
    <2> QED
      BY <1>2, <2>1, <2>3, <2>4, <2>5 DEF BackfillInv
  <1> QED
    BY <1>3, <1>4, <1>5, <1>6, <1>7 DEF BackfillNext

LEMMA BackfillDone == ASSUME BackfillInv PROVE BackfillComplete
  <1> SUFFICES ASSUME history.about = "backfill", job.at = "done" PROVE BackfillComplete
    BY DEF BackfillComplete
  <1>1. job.runs \in Nat /\ job.runs > 0 /\ Backfilled(table, <<>>, {}, job.runs)
    BY DEF BackfillInv, JobRecord
  <1>2. ToSet(<<>>) = {}
    BY NoRows
  <1>3. ASSUME NEW t \in archive, \A r \in recorded : t.time < r.time
        PROVE  t \in ToSet(table) \/ (job.runs > 1 /\ \E r \in ToSet(table) : r.time = t.time)
    BY <1>1, <1>2, <1>3 DEF Backfilled, Older
  <1>4. ASSUME NEW t \in archive, ~(job.runs > 1), ~SomeShort
        PROVE  /\ ~(t \in recorded /\ t \in ToSet(table))
               /\ ~\E i, j \in DOMAIN table : i # j /\ table[i] = t /\ table[j] = t
    <2>1. job.runs = 1
      BY <1>1, <1>4
    <2> QED
      BY <1>1, <1>4, <2>1 DEF Backfilled, Distinct
  <1> QED
    BY <1>3, <1>4 DEF BackfillComplete, SomeShort

\* When the backfill has ended, every trade older than our own is in the table,
\* once, whatever the archive and however often the script was cut short: but for
\* what a later run takes its own rows for, and for ids with fewer digits.
THEOREM BackfillAlwaysComplete == ServiceSpec => []BackfillComplete
  <1>1. ServiceInit => BackfillInv
    <2>1. ASSUME ServiceInit, history.about = "backfill" PROVE BackfillInit
      <3>1. \A h \in VolumeArchives : h.about = "volumes"
        <4>1. \A trades, polled, lost : VolumeArchive(trades, polled, lost).about = "volumes"
          BY DEF VolumeArchive
        <4>2. \A ours, theirs : \A h \in ArchivesOf(ours, theirs) : h.about = "volumes"
          BY <4>1 DEF ArchivesOf
        <4> QED
          BY <4>2 DEF VolumeArchives
      <3>2. \A h \in TradeHistories : h.about = "answers"
        BY DEF TradeHistories
      <3> QED
        BY <2>1, <3>1, <3>2 DEF ServiceInit
    <2> QED
      BY <2>1, BackfillInitInv DEF BackfillInv
  <1>2. BackfillInv /\ [ServiceNext]_<<feedsVars, serviceVars>> => BackfillInv'
    <2> SUFFICES ASSUME BackfillInv, [ServiceNext]_<<feedsVars, serviceVars>>
                 PROVE  BackfillInv'
      OBVIOUS
    <2>1. history' = history
      BY DEF ServiceNext, serviceVars
    <2>2. CASE history.about = "backfill"
      <3>1. [BackfillNext]_backfillVars
        BY <2>2 DEF ServiceNext, serviceVars
      <3> QED
        BY <2>1, <3>1, BackfillStepInv
    <2>3. CASE history.about # "backfill"
      BY <2>1, <2>3 DEF BackfillInv
    <2> QED
      BY <2>2, <2>3
  <1>3. BackfillInv => BackfillComplete
    BY BackfillDone
  <1> QED
    BY <1>1, <1>2, <1>3, PTL DEF ServiceSpec

-----------------------------------------------------------------------------
(* The volumes of any archive.                                             *)

Archived ==
  /\ history.now \in Nat
  /\ IsFiniteSet(history.trades) /\ history.missing \subseteq history.trades
  /\ \A t \in history.trades : t.time \in Nat
  /\ IsFiniteSet(history.tickers)
  /\ \A k \in history.tickers :
       /\ k.time \in Nat
       /\ k.volume = RollingVolume(history.trades, k.market, k.time)

\* A set of trades that can be counted.
Countable(S) == IsFiniteSet(S) /\ \A t \in S : t.time \in Nat

LEMMA ArchiveCounts ==
  ASSUME Archived
  PROVE  Countable(history.trades) /\ Countable(history.missing) /\ Countable(Recorded(history))
  <1>1. Recorded(history) \subseteq history.trades
    BY DEF Recorded
  <1>2. \A S : S \subseteq history.trades => IsFiniteSet(S)
    BY FS_Subset DEF Archived
  <1> QED
    BY <1>1, <1>2 DEF Archived, Countable

LEMMA WithinCounts ==
  ASSUME NEW S, Countable(S), NEW m, NEW a, NEW b
  PROVE  /\ IsFiniteSet(Within(S, m, a, b)) /\ Cardinality(Within(S, m, a, b)) \in Nat
         /\ Cardinality(Within(S, m, a, b)) <= Cardinality(S) /\ Cardinality(S) \in Nat
  <1>1. Within(S, m, a, b) \subseteq S
    BY DEF Within
  <1> QED
    BY <1>1, FS_Subset, FS_CardinalityType DEF Countable

LEMMA WithinSplit ==
  ASSUME NEW S, Countable(S), NEW m, NEW a \in Int, NEW b \in Int, NEW c \in Int, a <= b, b <= c
  PROVE  Cardinality(Within(S, m, a, c))
           = Cardinality(Within(S, m, a, b)) + Cardinality(Within(S, m, b, c))
  <1> DEFINE A == Within(S, m, a, b)
             B == Within(S, m, b, c)
  <1>1. Within(S, m, a, c) = A \cup B /\ A \cap B = {}
    BY DEF Within, Countable
  <1>2. IsFiniteSet(A) /\ IsFiniteSet(B)
    BY WithinCounts
  <1> HIDE DEF A, B
  <1>3. Cardinality(A \cup B) = Cardinality(A) + Cardinality(B) - Cardinality({})
    BY <1>1, <1>2, FS_Union
  <1>4. Cardinality(A) \in Nat /\ Cardinality(B) \in Nat /\ Cardinality({}) = 0
    BY <1>2, FS_CardinalityType, FS_EmptySet
  <1> QED
    BY <1>1, <1>3, <1>4 DEF A, B

\* What is recorded of a period.
LEMMA RecordedCount ==
  ASSUME Archived, NEW m, NEW a, NEW b
  PROVE  /\ Within(Recorded(history), m, a, b)
              = Within(history.trades, m, a, b) \ Within(history.missing, m, a, b)
         /\ Cardinality(Within(Recorded(history), m, a, b))
              = CountMade(m, a, b) - CountMissing(m, a, b)
         /\ CountMade(m, a, b) \in Nat /\ CountMissing(m, a, b) \in Nat
         /\ Known(TradeVolume(history, m, a, b)) = CountMade(m, a, b) - CountMissing(m, a, b)
         /\ TradeVolume(history, m, a, b) \in {None} \cup 0..Cardinality(history.trades)
  <1> DEFINE R == Within(Recorded(history), m, a, b)
             M == Within(history.trades, m, a, b)
             L == Within(history.missing, m, a, b)
  <1>1. R = M \ L /\ M \cap L = L
    BY DEF Archived, Within, Recorded
  <1>2. IsFiniteSet(M) /\ Cardinality(M) \in Nat /\ IsFiniteSet(L) /\ Cardinality(L) \in Nat
        /\ Cardinality(M) <= Cardinality(history.trades) /\ Cardinality(history.trades) \in Nat
    BY ArchiveCounts, WithinCounts
  <1>3. CountMade(m, a, b) = Cardinality(M) /\ CountMissing(m, a, b) = Cardinality(L)
    BY DEF CountMade, CountMissing
  <1>4. IsFiniteSet(R) /\ (R = {} <=> Cardinality(R) = 0) /\ Cardinality(R) \in Nat
    <2>1. IsFiniteSet(R)
      BY ArchiveCounts, WithinCounts
    <2> HIDE DEF R
    <2> QED
      BY <2>1, FS_EmptySet, FS_CardinalityType
  <1>5. TradeVolume(history, m, a, b) = IF R = {} THEN None ELSE Cardinality(R)
    BY DEF TradeVolume
  <1> HIDE DEF R, M, L
  <1>6. Cardinality(R) = Cardinality(M) - Cardinality(L)
    <2>1. Cardinality(M \ L) = Cardinality(M) - Cardinality(M \cap L)
      BY <1>2, FS_Difference
    <2> QED
      BY <1>1, <2>1
  <1>7. Known(TradeVolume(history, m, a, b)) = Cardinality(R)
    BY <1>4, <1>5 DEF Known, None
  <1>8. TradeVolume(history, m, a, b) \in {None} \cup 0..Cardinality(history.trades)
    BY <1>2, <1>4, <1>5, <1>6
  <1> QED
    BY <1>1, <1>2, <1>3, <1>6, <1>7, <1>8 DEF R, M, L

LEMMA MadeSplit ==
  ASSUME Archived, NEW m, NEW a \in Int, NEW b \in Int, NEW c \in Int, a <= b, b <= c
  PROVE  CountMade(m, a, c) = CountMade(m, a, b) + CountMade(m, b, c)
  BY ArchiveCounts, WithinSplit DEF CountMade

\* A ticker's volume, against that of the day it was taken for.
LEMMA DayIsExplained ==
  ASSUME Archived, NEW m, NEW start \in Nat,
         NEW volume \in DayVolumes(history, m, start)
  PROVE  volume \in {None} \cup 0..Cardinality(history.trades)
         /\ (volume = None \/ DayExplained(m, start, volume))
  <1> USE VolumeAssumption
  <1> DEFINE end == start + Day
             rows == {k \in history.tickers :
                        k.market = m /\ end < k.time /\ k.time < end + Delay5}
  <1>1. CASE rows = {}
    BY <1>1 DEF DayVolumes
  <1>2. CASE rows # {}
    <2>1. PICK k \in rows : volume = k.volume
      BY <1>2 DEF DayVolumes
    <2> DEFINE t == k.time
    <2>2. /\ t \in Nat /\ end < t /\ t < end + Delay5
          /\ volume = Cardinality(Within(history.trades, m, t - Day + 1, t + 1))
      BY <2>1 DEF Archived, RollingVolume
    <2>3. t \in (start + Day + 1)..(start + Day + Delay5 - 1)
      BY <2>2
    <2> HIDE DEF t
    <2> DEFINE begin == t - Day + 1
               next == t + 1
    <2>4. /\ begin \in Int /\ next \in Int /\ end \in Int
          /\ start <= begin /\ begin <= next /\ start <= end /\ end <= next
      BY <2>2
    <2>5. /\ volume \in Nat /\ volume <= Cardinality(history.trades)
          /\ Cardinality(history.trades) \in Nat /\ volume = CountMade(m, begin, next)
      BY <2>2, ArchiveCounts, WithinCounts DEF CountMade
    <2> HIDE DEF begin, next, end
    <2>6. /\ CountMade(m, start, next) = CountMade(m, start, end) + CountMade(m, end, next)
          /\ CountMade(m, start, next) = CountMade(m, start, begin) + CountMade(m, begin, next)
          /\ CountMade(m, start, end) \in Nat /\ CountMade(m, end, next) \in Nat
          /\ CountMade(m, start, begin) \in Nat
      BY <2>4, MadeSplit, RecordedCount
    <2>7. volume - CountMade(m, start, end)
            = CountMade(m, end, next) - CountMade(m, start, begin)
      BY <2>5, <2>6
    <2>8. DayExplained(m, start, volume)
      BY <2>3, <2>7 DEF DayExplained, begin, next, end
    <2> QED
      BY <2>5, <2>8
  <1> QED
    BY <1>1, <1>2

\* Multiples of a step that follow each other are at least a step apart.
LEMMA NextMultiple ==
  ASSUME NEW s \in Nat \ {0}, NEW a \in Nat, NEW b \in Nat, a % s = 0, b % s = 0, a < b
  PROVE  a + s <= b
  <1> DEFINE p == a \div s
             q == b \div s
  <1>1. p \in Nat /\ q \in Nat /\ a = s * p /\ b = s * q
    OBVIOUS
  <1> HIDE DEF p, q
  <1>2. p + 1 <= q
    BY <1>1
  <1>3. s * (p + 1) <= s * q
    BY <1>1, <1>2
  <1> QED
    BY <1>1, <1>3

LEMMA MultipleBelow ==
  ASSUME NEW s \in Nat \ {0}, NEW a \in Nat
  PROVE  \E t \in Nat : t % s = 0 /\ t <= a /\ a < t + s
  <1> DEFINE p == a \div s
  <1>1. p \in Nat /\ a = s * p + (a % s) /\ a % s \in 0..(s - 1)
    OBVIOUS
  <1> HIDE DEF p
  <1>2. s * p \in Nat
    BY <1>1
  <1>3. (s * p) % s = 0
    BY <1>1
  <1> QED
    BY <1>1, <1>2, <1>3

LEMMA WisdomCounts ==
  ASSUME Archived, NEW m, NEW a, NEW b
  PROVE  WisdomVolume(history, m, a, b) \in 0..Cardinality(history.trades)
  <1> DEFINE U == UNION {Within(history.trades, m, t, t + WisdomStep(a, b)) :
                           t \in {i \in a..(b - 1) : i % WisdomStep(a, b) = 0}}
  <1>1. U \subseteq history.trades
    BY DEF Within
  <1>2. Cardinality(U) \in Nat /\ Cardinality(U) <= Cardinality(history.trades)
    <2> HIDE DEF U
    <2> QED
      BY <1>1, FS_Subset, FS_CardinalityType DEF Archived
  <1>3. WisdomVolume(history, m, a, b) = Cardinality(U)
    BY DEF WisdomVolume
  <1>4. Cardinality(history.trades) \in Nat
    BY FS_CardinalityType DEF Archived
  <1> HIDE DEF U
  <1> QED
    BY <1>2, <1>3, <1>4

\* Bitcoinwisdom's steps make up a period that they fit.
LEMMA WisdomIsMade ==
  ASSUME Archived, NEW m, NEW start \in Nat, NEW end \in Nat, start < end, Aligned(start, end)
  PROVE  WisdomVolume(history, m, start, end) = CountMade(m, start, end)
  <1> DEFINE step == WisdomStep(start, end)
             begins == {t \in start..(end - 1) : t % step = 0}
             parts == {Within(history.trades, m, t, t + step) : t \in begins}
  <1>1. step \in Nat \ {0} /\ start % step = 0 /\ end % step = 0
    BY VolumeAssumption DEF WisdomStep, Aligned
  <1>2. WisdomVolume(history, m, start, end) = Cardinality(UNION parts)
    BY DEF WisdomVolume
  <1> HIDE DEF step
  <1>3. ASSUME NEW t \in begins PROVE start <= t /\ t + step <= end /\ t \in Nat
    <2>1. t \in Nat /\ start <= t /\ t < end /\ t % step = 0
      OBVIOUS
    <2> QED
      BY <1>1, <2>1, NextMultiple
  <1>4. UNION parts \subseteq Within(history.trades, m, start, end)
    <2>1. ASSUME NEW t \in begins, NEW x \in Within(history.trades, m, t, t + step)
          PROVE  x \in Within(history.trades, m, start, end)
      <3>1. /\ x \in history.trades /\ x.market = m
            /\ t <= x.time /\ x.time < t + step /\ x.time \in Nat
        BY DEF Within, Archived
      <3>2. start <= t /\ t + step <= end /\ t \in Nat
        BY <1>3
      <3>3. start <= x.time /\ x.time < end
        BY <1>1, <3>1, <3>2
      <3> QED
        BY <3>1, <3>3 DEF Within
    <2> HIDE DEF begins
    <2> QED
      BY <2>1
  <1>5. Within(history.trades, m, start, end) \subseteq UNION parts
    <2>1. ASSUME NEW x \in Within(history.trades, m, start, end)
          PROVE  \E t \in begins : x \in Within(history.trades, m, t, t + step)
      <3>1. /\ x \in history.trades /\ x.market = m
            /\ start <= x.time /\ x.time < end /\ x.time \in Nat
        BY DEF Within, Archived
      <3>2. PICK t \in Nat : t % step = 0 /\ t <= x.time /\ x.time < t + step
        BY <1>1, <3>1, MultipleBelow
      <3>3. start <= t
        <4>1. SUFFICES ASSUME t < start PROVE FALSE
          BY <3>2
        <4>2. t + step <= start
          BY <1>1, <3>2, <4>1, NextMultiple
        <4> QED
          BY <1>1, <3>1, <3>2, <4>2
      <3>4. t \in begins
        BY <3>1, <3>2, <3>3
      <3> QED
        BY <3>1, <3>2, <3>4 DEF Within
    <2> HIDE DEF begins
    <2> QED
      BY <2>1
  <1> HIDE DEF parts
  <1>6. UNION parts = Within(history.trades, m, start, end)
    BY <1>4, <1>5
  <1> QED
    BY <1>2, <1>6 DEF CountMade

LEMMA PeriodIsExplained ==
  ASSUME Archived, NEW start \in Nat, NEW end \in Nat, start < end
  PROVE  PeriodExplained(start, end)
  <1> SUFFICES ASSUME NEW m \in Markets, NEW volume \in VolumeInPeriod(history, m, start, end)
               PROVE  IF FromTickers(start, end)
                        THEN volume = None \/ DayExplained(m, start, volume)
                        ELSE IF start > EarliestTrade
                          THEN Known(volume) = CountMade(m, start, end) - CountMissing(m, start, end)
                          ELSE volume = None \/ (Aligned(start, end) => volume = CountMade(m, start, end))
    BY DEF PeriodExplained
  <1>1. CASE FromTickers(start, end)
    <2>1. volume \in DayVolumes(history, m, start)
      BY <1>1 DEF VolumeInPeriod, FromTickers
    <2> QED
      BY <1>1, <2>1, DayIsExplained
  <1>2. CASE ~FromTickers(start, end) /\ start > EarliestTrade
    <2>1. volume = TradeVolume(history, m, start, end)
      BY <1>2 DEF VolumeInPeriod, FromTickers
    <2> QED
      BY <1>2, <2>1, RecordedCount
  <1>3. CASE ~FromTickers(start, end) /\ ~(start > EarliestTrade)
    <2>1. volume = IF m \in Listed THEN WisdomVolume(history, m, start, end) ELSE None
      BY <1>3 DEF VolumeInPeriod, FromTickers
    <2> QED
      BY <1>3, <2>1, WisdomIsMade
  <1> QED
    BY <1>1, <1>2, <1>3

\* What is known of the volumes v, by market.
KnownOf(v) == [m \in Markets |-> Known(v[m])]
Volumes == [Markets -> {None} \cup 0..Cardinality(history.trades)]

LEMMA KnownSums ==
  ASSUME Archived, NEW v \in Volumes
  PROVE  /\ \A m \in Markets : KnownOf(v)[m] \in Nat
         /\ Summands(KnownOf(v), Markets)
  <1>1. Cardinality(history.trades) \in Nat
    BY FS_CardinalityType DEF Archived
  <1>2. ASSUME NEW m \in Markets PROVE KnownOf(v)[m] \in Nat
    BY <1>1 DEF Volumes, KnownOf, Known
  <1>3. IsFiniteSet(Markets)
    BY VolumeAssumption, FS_Union DEF Markets
  <1> QED
    BY <1>2, <1>3 DEF Summands

LEMMA KnownSum ==
  ASSUME Archived, NEW v \in Volumes
  PROVE  SumKnown(v) = Total(KnownOf(v), Markets)
  <1> DEFINE Q(g) == g = [T \in SUBSET Markets |-> IF T = {} THEN 0
                           ELSE Known(v[Pick(T)]) + g[T \ {Pick(T)}]]
             s == CHOOSE g : Q(g)
  <1>1. \A T \in SUBSET Markets : T # {} => Known(v[Pick(T)]) = KnownOf(v)[Pick(T)]
    <2>1. \A T \in SUBSET Markets : T # {} => Pick(T) \in Markets
      BY DEF Pick
    <2> QED
      BY <2>1 DEF KnownOf
  <1>2. \A g : Q(g) <=> Sums(g, KnownOf(v), SUBSET Markets)
    BY <1>1 DEF Sums
  <1>3. \E g : Q(g)
    BY <1>2, KnownSums, SumsExist
  <1>4. Q(s)
    BY <1>3
  <1> HIDE DEF s, Q
  <1>5. Sums(s, KnownOf(v), SUBSET Markets)
    BY <1>2, <1>4
  <1>6. s[Markets] = Total(KnownOf(v), Markets)
    BY <1>5, KnownSums, TotalIs
  <1> QED
    BY <1>6 DEF SumKnown, MapThenSumSet, MapThenFoldSet, Pick, s, Q

\* The total of some markets, when nothing is known of the others.
LEMMA TotalsAre ==
  ASSUME Archived, NEW v \in Volumes, NEW D, D \subseteq Markets,
         \A m \in Markets \ D : v[m] = None, NEW w, w = [m \in D |-> v[m]]
  PROVE  /\ Totals(w).included = {m \in Markets : Known(v[m]) > 0}
         /\ Totals(w).volume = SumKnown(v)
  <1> DEFINE E == {m \in D : w[m] \notin {None, 0}}
  <1>1. DOMAIN w = D
    OBVIOUS
  <1>9. Totals(w) = [volume |-> Total(w, E), included |-> E]
    BY <1>1 DEF Totals, MapThenSumSet, MapThenFoldSet, Total, Sums, Pick
  <1>2. ASSUME NEW m \in Markets
        PROVE  /\ m \in E <=> Known(v[m]) > 0
               /\ m \in E => w[m] = KnownOf(v)[m]
               /\ m \notin E => KnownOf(v)[m] = 0
    <2>1. Cardinality(history.trades) \in Nat
      BY FS_CardinalityType DEF Archived
    <2>2. v[m] = None \/ v[m] \in Nat
      BY <2>1 DEF Volumes
    <2>3. m \in D => w[m] = v[m]
      OBVIOUS
    <2> QED
      BY <2>2, <2>3 DEF Known, KnownOf, None
  <1>3. E \subseteq Markets
    OBVIOUS
  <1> HIDE DEF E
  <1>4. Summands(w, E)
    <2>1. \A m \in E : w[m] \in Int
      BY <1>2, <1>3, KnownSums
    <2> QED
      BY <1>3, <2>1, KnownSums, FS_Subset DEF Summands
  <1>5. Total(w, E) = Total(KnownOf(v), E)
    BY <1>2, <1>3, <1>4, SameTotal
  <1>6. Total(KnownOf(v), Markets) = Total(KnownOf(v), E)
    <2>1. \A m \in Markets \ E : KnownOf(v)[m] = 0
      BY <1>2
    <2> QED
      BY <1>3, <2>1, KnownSums, TotalOfPart
  <1>8. E = {m \in Markets : Known(v[m]) > 0}
    BY <1>2, <1>3
  <1> QED
    BY <1>9, <1>5, <1>6, <1>8, KnownSum

LEMMA TotalAddsUp ==
  ASSUME Archived, NEW start \in Nat, NEW end \in Nat, start < end
  PROVE  TotalIsSum(start, end)
  <1> SUFFICES ASSUME NEW total \in TotalInPeriod(history, start, end)
               PROVE  \E v \in Volumes :
                        /\ \A m \in Markets : v[m] \in VolumeInPeriod(history, m, start, end)
                        /\ total.included = {m \in Markets : Known(v[m]) > 0}
                        /\ total.volume = SumKnown(v)
    BY DEF TotalIsSum, Volumes
  <1>1. CASE IsPastSingleDay(history, start, end) /\ start > EarliestTicker
    <2> DEFINE found == [m \in Markets |-> DayVolumes(history, m, start)]
    <2>1. PICK f \in [Markets -> UNION {found[m] : m \in Markets}] :
            (\A m \in Markets : f[m] \in found[m]) /\ total = Totals(f)
      BY <1>1 DEF TotalInPeriod, TotalOnDay
    <2>2. \A m \in Markets : f[m] \in DayVolumes(history, m, start)
      BY <2>1
    <2>3. f \in Volumes
      BY <2>1, <2>2, DayIsExplained DEF Volumes
    <2>4. f = [m \in Markets |-> f[m]]
      BY <2>1
    <2>5. \A m \in Markets : f[m] \in VolumeInPeriod(history, m, start, end)
      BY <1>1, <2>2 DEF VolumeInPeriod
    <2>6. /\ Totals(f).included = {m \in Markets : Known(f[m]) > 0}
          /\ Totals(f).volume = SumKnown(f)
      BY <2>3, <2>4, TotalsAre
    <2> QED
      BY <2>1, <2>3, <2>5, <2>6
  <1>2. CASE ~(IsPastSingleDay(history, start, end) /\ start > EarliestTicker)
             /\ start > EarliestTrade
    <2> DEFINE f == [m \in Markets |-> TradeVolume(history, m, start, end)]
    <2>1. total = Totals(f)
      BY <1>2 DEF TotalInPeriod, TotalFromTrades
    <2>2. f \in Volumes
      BY RecordedCount DEF Volumes
    <2>3. \A m \in Markets : f[m] \in VolumeInPeriod(history, m, start, end)
      BY <1>2 DEF VolumeInPeriod
    <2>4. f = [m \in Markets |-> f[m]]
      OBVIOUS
    <2> HIDE DEF f
    <2>5. /\ Totals(f).included = {m \in Markets : Known(f[m]) > 0}
          /\ Totals(f).volume = SumKnown(f)
      BY <2>2, <2>4, TotalsAre
    <2> QED
      BY <2>1, <2>2, <2>3, <2>5
  <1>3. CASE ~(IsPastSingleDay(history, start, end) /\ start > EarliestTicker)
             /\ ~(start > EarliestTrade)
    <2> DEFINE w == [m \in Listed |-> WisdomVolume(history, m, start, end)]
               f == [m \in Markets |-> IF m \in Listed
                                          THEN WisdomVolume(history, m, start, end) ELSE None]
    <2>1. total = Totals(w)
      BY <1>3 DEF TotalInPeriod, TotalFromWisdom
    <2>2. f \in Volumes
      BY WisdomCounts DEF Volumes
    <2>3. \A m \in Markets : f[m] \in VolumeInPeriod(history, m, start, end)
      BY <1>3 DEF VolumeInPeriod
    <2>4. /\ Listed \subseteq Markets /\ w = [m \in Listed |-> f[m]]
          /\ \A m \in Markets \ Listed : f[m] = None
      BY DEF Markets
    <2> HIDE DEF f, w
    <2>5. /\ Totals(w).included = {m \in Markets : Known(f[m]) > 0}
          /\ Totals(w).volume = SumKnown(f)
      BY <2>2, <2>4, TotalsAre
    <2> QED
      BY <2>1, <2>2, <2>3, <2>5
  <1> QED
    BY <1>1, <1>2, <1>3

-----------------------------------------------------------------------------
(* The hours of a period.                                                  *)

HourOf(t) == (t.time % Day) \div Hour

\* The rows of the hours that hourly reports, and of one time.
RowsOf(rows, start, hourly) ==
  [h \in hourly |-> {t \in rows : start + HourOf(t) * Hour = h.time}]
RowsAt(rows, start, time) == {t \in rows : start + HourOf(t) * Hour = time}

LEMMA SameHour ==
  ASSUME NEW i \in Nat, NEW j \in Nat, NEW start \in Nat, start + i * Hour = start + j * Hour
  PROVE  i = j
  <1>1. Hour \in Nat /\ Hour > 0
    BY VolumeAssumption
  <1>2. i * Hour \in Nat /\ j * Hour \in Nat
    BY <1>1
  <1>3. i * Hour = j * Hour
    BY <1>2
  <1>4. ASSUME NEW a \in Nat, NEW b \in Nat, a < b PROVE a * Hour < b * Hour
    BY <1>1, <1>4
  <1>5. ~(i < j) /\ ~(j < i)
    <2>1. i < j => i * Hour < j * Hour
      BY <1>4
    <2>2. j < i => j * Hour < i * Hour
      BY <1>4
    <2> QED
      BY <1>2, <1>3, <2>1, <2>2
  <1> QED
    BY <1>5

LEMMA HourIsNumber == ASSUME NEW t, t.time \in Nat PROVE HourOf(t) \in Nat
  <1>1. Day \in Nat \ {0} /\ Hour \in Nat \ {0}
    BY VolumeAssumption
  <1>2. t.time % Day \in Nat
    BY <1>1
  <1> QED
    BY <1>1, <1>2 DEF HourOf

\* An hour is reported with the number of its rows.
LEMMA HourlyIs ==
  ASSUME NEW rows, Countable(rows), NEW start \in Nat
  PROVE  /\ IsFiniteSet(HourlyOf(rows, start))
         /\ \A h \in HourlyOf(rows, start) :
              h.volume = Cardinality(RowsAt(rows, start, h.time)) /\ h.volume \in Nat
         /\ \A g, h \in HourlyOf(rows, start) : g.time = h.time => g = h
         /\ \A t \in rows : \E h \in HourlyOf(rows, start) : h.time = start + HourOf(t) * Hour
  <1> DEFINE hours == {HourOf(t) : t \in rows}
             Row(k) == [time |-> start + k * Hour,
                        volume |-> Cardinality({t \in rows : HourOf(t) = k})]
  <1>1. HourlyOf(rows, start) = {Row(k) : k \in hours}
    BY DEF HourlyOf, HourOf
  <1>2. hours \subseteq Nat
    BY HourIsNumber DEF Countable
  <1>3. IsFiniteSet(hours)
    <2> DEFINE f == [t \in rows |-> HourOf(t)]
    <2>1. f \in Surjection(rows, hours)
      BY DEF Surjection
    <2> QED
      BY <2>1, FS_Surjection DEF Countable
  <1>4. IsFiniteSet(HourlyOf(rows, start))
    <2> DEFINE f == [k \in hours |-> Row(k)]
    <2>1. f \in Surjection(hours, HourlyOf(rows, start))
      <3> HIDE DEF Row, hours
      <3> QED
        BY <1>1 DEF Surjection
    <2> QED
      BY <1>3, <2>1, FS_Surjection
  <1>5. ASSUME NEW k \in hours
        PROVE  /\ Row(k).volume = Cardinality(RowsAt(rows, start, Row(k).time))
               /\ Row(k).volume \in Nat
    <2>1. \A t \in rows : start + HourOf(t) * Hour = start + k * Hour <=> HourOf(t) = k
      BY <1>2, HourIsNumber, SameHour DEF Countable
    <2>2. RowsAt(rows, start, Row(k).time) = {t \in rows : HourOf(t) = k}
      BY <2>1 DEF RowsAt
    <2>3. IsFiniteSet({t \in rows : HourOf(t) = k})
      BY FS_Subset DEF Countable
    <2> QED
      BY <2>2, <2>3, FS_CardinalityType
  <1>6. ASSUME NEW g \in HourlyOf(rows, start), NEW h \in HourlyOf(rows, start), g.time = h.time
        PROVE  g = h
    <2>1. PICK i \in hours : g = Row(i)
      BY <1>1
    <2>2. PICK j \in hours : h = Row(j)
      BY <1>1
    <2>3. start + i * Hour = start + j * Hour
      BY <1>6, <2>1, <2>2
    <2>4. i \in Nat /\ j \in Nat
      BY <1>2
    <2> HIDE DEF Row, hours
    <2>5. i = j
      BY <2>3, <2>4, SameHour
    <2> QED
      BY <2>1, <2>2, <2>5
  <1>7. ASSUME NEW t \in rows
        PROVE  \E h \in HourlyOf(rows, start) : h.time = start + HourOf(t) * Hour
    <2>1. Row(HourOf(t)) \in HourlyOf(rows, start)
      BY <1>1
    <2>2. Row(HourOf(t)).time = start + HourOf(t) * Hour
      OBVIOUS
    <2> QED
      BY <2>1, <2>2
  <1>8. ASSUME NEW h \in HourlyOf(rows, start)
        PROVE  h.volume = Cardinality(RowsAt(rows, start, h.time)) /\ h.volume \in Nat
    <2>1. PICK k \in hours : h = Row(k)
      BY <1>1
    <2> HIDE DEF Row, hours
    <2> QED
      BY <1>5, <2>1
  <1> QED
    BY <1>4, <1>6, <1>7, <1>8

LEMMA SumOfHours ==
  ASSUME NEW K
  PROVE  SumHours(K) = (CHOOSE g : g = [T \in SUBSET K |-> IF T = {} THEN 0
                                          ELSE Pick(T).volume + g[T \ {Pick(T)}]])[K]
  BY DEF SumHours, MapThenSumSet, MapThenFoldSet, Pick

\* The hours of some rows together are as many as the rows.
LEMMA HoursCount ==
  ASSUME NEW rows, Countable(rows), NEW start \in Nat,
         NEW K, K \subseteq HourlyOf(rows, start)
  PROVE  SumHours(K) = Cardinality({t \in rows : \E h \in K : start + HourOf(t) * Hour = h.time})
  <1> DEFINE A == RowsOf(rows, start, K)
             f == Sizes(A, K)
             Q(g) == g = [T \in SUBSET K |-> IF T = {} THEN 0
                                             ELSE Pick(T).volume + g[T \ {Pick(T)}]]
             s == CHOOSE g : Q(g)
  <1>1. \A h \in K : A[h] = RowsAt(rows, start, h.time) /\ IsFiniteSet(A[h])
    BY FS_Subset DEF RowsOf, RowsAt, Countable
  <1>2. IsFiniteSet(K)
    BY HourlyIs, FS_Subset
  <1>3. \A h \in K : f[h] = h.volume /\ h.volume \in Nat
    <2> HIDE DEF A
    <2> QED
      BY <1>1, HourlyIs DEF Sizes
  <1>4. Apart(A, K)
    <2>1. \A g, h \in K : g # h => g.time # h.time
      BY HourlyIs
    <2> QED
      BY <2>1 DEF Apart, RowsOf
  <1> HIDE DEF A
  <1>5. Cardinality(All(A, K)) = Total(f, K)
    BY <1>1, <1>2, <1>4, SizesAddUp
  <1> HIDE DEF f
  <1>6. All(A, K) = {t \in rows : \E h \in K : start + HourOf(t) * Hour = h.time}
    BY <1>1 DEF All, RowsAt
  <1>7. SumHours(K) = Total(f, K)
    <2>1. \A T \in SUBSET K : T # {} => Pick(T).volume = f[Pick(T)]
      <3>1. \A T \in SUBSET K : T # {} => Pick(T) \in K
        BY DEF Pick
      <3> QED
        BY <1>3, <3>1
    <2>2. \A g : Q(g) <=> Sums(g, f, SUBSET K)
      BY <2>1 DEF Sums
    <2>3. Summands(f, K)
      BY <1>2, <1>3 DEF Summands
    <2>4. \E g : Q(g)
      BY <2>2, <2>3, SumsExist
    <2>5. Q(s)
      BY <2>4
    <2> HIDE DEF s, Q
    <2>6. Sums(s, f, SUBSET K)
      BY <2>2, <2>5
    <2>7. s[K] = Total(f, K)
      BY <2>3, <2>6, TotalIs
    <2> QED
      BY <2>7, SumOfHours DEF s, Q
  <1> QED
    BY <1>5, <1>6, <1>7

LEMMA WithinCountable ==
  ASSUME NEW S, Countable(S), NEW m, NEW a, NEW b
  PROVE  Countable(Within(S, m, a, b)) /\ Within(S, m, a, b) \subseteq S
  <1>1. Within(S, m, a, b) \subseteq S
    BY DEF Within
  <1> QED
    BY <1>1, WithinCounts DEF Countable

LEMMA MinOfTwo ==
  ASSUME NEW x \in Nat, NEW y \in Nat
  PROVE  Min({x, y}) \in {x, y} /\ Min({x, y}) <= x /\ Min({x, y}) <= y
  <1> DEFINE S == {x, y}
  <1>1. PICK m \in S : \A z \in S : m <= z
    <2>1. CASE x <= y
      BY <2>1
    <2>2. CASE y <= x
      BY <2>2
    <2> QED
      BY <2>1, <2>2
  <1>2. S \in SUBSET Int
    OBVIOUS
  <1> HIDE DEF S
  <1>3. Min(S) = m
    BY <1>1, <1>2, MinIs
  <1> QED
    BY <1>1, <1>3 DEF S

\* The remainder is what is left of a multiple.
LEMMA Remainder ==
  ASSUME NEW d \in Nat \ {0}, NEW p \in Nat, NEW q \in Nat,
         NEW r \in 0..(d - 1), NEW s \in 0..(d - 1), d * p + r = d * q + s
  PROVE  r = s
  <1>1. ASSUME NEW i \in Nat, NEW j \in Nat, i < j PROVE d * i + d <= d * j
    <2>1. d * (i + 1) <= d * j
      BY <1>1
    <2>2. d * (i + 1) = d * i + d
      OBVIOUS
    <2> QED
      BY <2>1, <2>2
  <1>2. d * p \in Nat /\ d * q \in Nat
    OBVIOUS
  <1>3. ~(p < q)
    <2>1. p < q => d * p + d <= d * q
      BY <1>1
    <2> QED
      BY <1>2, <2>1
  <1>4. ~(q < p)
    <2>1. q < p => d * q + d <= d * p
      BY <1>1
    <2> QED
      BY <1>2, <2>1
  <1>5. p = q
    BY <1>3, <1>4
  <1> QED
    BY <1>2, <1>5

LEMMA HoursOfTime ==
  ASSUME NEW rows, Countable(rows), NEW start \in Nat, NEW time
  PROVE  HoursOf(HourlyOf(rows, start), time) = Cardinality(RowsAt(rows, start, time))
  <1> DEFINE K == {h \in HourlyOf(rows, start) : h.time = time}
  <1>1. SumHours(K) = Cardinality({t \in rows : \E h \in K : start + HourOf(t) * Hour = h.time})
    <2>1. K \subseteq HourlyOf(rows, start)
      OBVIOUS
    <2> HIDE DEF K
    <2> QED
      BY <2>1, HoursCount
  <1>2. {t \in rows : \E h \in K : start + HourOf(t) * Hour = h.time}
          = {t \in rows : start + HourOf(t) * Hour = time}
    <2>1. ASSUME NEW t \in rows, start + HourOf(t) * Hour = time
          PROVE  \E h \in K : start + HourOf(t) * Hour = h.time
      BY <2>1, HourlyIs
    <2>2. ASSUME NEW t \in rows, NEW h \in K, start + HourOf(t) * Hour = h.time
          PROVE  start + HourOf(t) * Hour = time
      BY <2>2
    <2> HIDE DEF K
    <2> QED
      BY <2>1, <2>2
  <1> QED
    BY <1>1, <1>2 DEF HoursOf, RowsAt

\* A moment of a day is in the hour it should be in.
LEMMA HourOfDay ==
  ASSUME NEW start \in Nat, start % Day = 0, NEW t, t.time \in Nat,
         start <= t.time, t.time < start + Day, NEW k \in Nat
  PROVE  HourOf(t) = k <=> start + k * Hour <= t.time /\ t.time < start + k * Hour + Hour
  <1>1. Day \in Nat \ {0} /\ Hour \in Nat \ {0}
    BY VolumeAssumption
  <1> DEFINE q == start \div Day
             n == t.time
             r == n - start
  <1>2. q \in Nat /\ start = Day * q /\ r \in Nat /\ r < Day
    BY <1>1
  <1> HIDE DEF q
  <1>3. n % Day = r
    <2>1. n = Day * q + r
      BY <1>2
    <2> DEFINE p == n \div Day
    <2>2. p \in Nat /\ n = Day * p + (n % Day) /\ n % Day \in 0..(Day - 1)
      BY <1>1
    <2>3. r \in 0..(Day - 1)
      BY <1>1, <1>2
    <2> HIDE DEF p, n, r
    <2> QED
      BY <1>1, <1>2, <2>1, <2>2, <2>3, Remainder
  <1>4. HourOf(t) = r \div Hour
    BY <1>3 DEF HourOf
  <1>7. t.time = start + r
    OBVIOUS
  <1> HIDE DEF r, n
  <1>5. r \div Hour = k <=> Hour * k <= r /\ r < Hour * k + Hour
    BY <1>1, <1>2
  <1> DEFINE c == k * Hour
  <1>6. Hour * k = c /\ c \in Nat /\ Hour \in Nat /\ r \in Nat
    BY <1>1, <1>2
  <1> HIDE DEF c
  <1>8. r \div Hour = k <=> c <= r /\ r < c + Hour
    BY <1>5, <1>6
  <1>9. HourOf(t) = k <=> start + c <= t.time /\ t.time < start + c + Hour
    BY <1>4, <1>6, <1>7, <1>8
  <1> QED
    BY <1>9 DEF c

\* Each hour is what was made in it, and was not dropped.
LEMMA HourIsCounted ==
  ASSUME Archived, NEW m, NEW start \in Nat, NEW end \in Nat, start % Day = 0,
         start < end, end - start <= Day, NEW h \in HourlySingle(history, m, start, end)
  PROVE  h.volume = CountMade(m, h.time, Min({h.time + Hour, end}))
                      - CountMissing(m, h.time, Min({h.time + Hour, end}))
  <1> DEFINE rows == Within(Recorded(history), m, start, end)
             last == Min({h.time + Hour, end})
  <1>1. h \in HourlyOf(rows, start) /\ Countable(rows) /\ rows \subseteq Recorded(history)
    <2>1. h \in HourlyOf(rows, start)
      BY DEF HourlySingle
    <2>2. Countable(rows)
      BY ArchiveCounts, WithinCountable
    <2> QED
      BY <2>1, <2>2 DEF Within
  <1>2. \A t \in rows : t.time \in Nat /\ start <= t.time /\ t.time < end /\ t.time < start + Day
    <2>1. Day \in Nat
      BY VolumeAssumption
    <2> QED
      BY <1>1, <2>1 DEF Within, Countable
  <1>3. PICK k \in Nat : h.time = start + k * Hour
    <2> DEFINE hours == {HourOf(t) : t \in rows}
               Row(i) == [time |-> start + i * Hour,
                          volume |-> Cardinality({t \in rows : HourOf(t) = i})]
    <2>3. HourlyOf(rows, start) = {Row(i) : i \in hours}
      BY DEF HourlyOf, HourOf
    <2>4. PICK k \in hours : h = Row(k)
      BY <1>1, <2>3
    <2>1. h.time = start + k * Hour
      BY <2>4
    <2> QED
      BY <1>2, <2>1, HourIsNumber
  <1>4. h.time \in Nat /\ start <= h.time /\ Hour \in Nat /\ k * Hour \in Nat
    <2>1. Hour \in Nat
      BY VolumeAssumption
    <2>2. k * Hour \in Nat
      BY <2>1
    <2> QED
      BY <1>3, <2>1, <2>2
  <1>5. /\ last \in {h.time + Hour, end} /\ last <= h.time + Hour /\ last <= end
    <2>1. h.time + Hour \in Nat
      BY <1>4
    <2> QED
      BY <2>1, MinOfTwo
  <1> HIDE DEF last
  <1>6. RowsAt(rows, start, h.time) = Within(Recorded(history), m, h.time, last)
    <2>1. ASSUME NEW t \in rows
          PROVE  start + HourOf(t) * Hour = h.time
                   <=> h.time <= t.time /\ t.time < h.time + Hour
      <3>1. start + HourOf(t) * Hour = start + k * Hour <=> HourOf(t) = k
        BY <1>2, HourIsNumber, SameHour
      <3>2. HourOf(t) = k <=> start + k * Hour <= t.time /\ t.time < start + k * Hour + Hour
        BY <1>2, HourOfDay
      <3> QED
        BY <1>3, <3>1, <3>2
    <2>2. \A t \in rows : t.time < h.time + Hour <=> t.time < last
      BY <1>2, <1>4, <1>5
    <2>3. \A t \in Recorded(history) :
            t \in rows <=> t.market = m /\ start <= t.time /\ t.time < end
      BY DEF Within
    <2>4. \A t \in Recorded(history) : t.time \in Nat
      BY ArchiveCounts DEF Countable
    <2>5. ASSUME NEW t \in Recorded(history), t.market = m, h.time <= t.time, t.time < last
          PROVE  t \in rows
      BY <1>4, <1>5, <2>3, <2>4, <2>5
    <2>6. RowsAt(rows, start, h.time) = {t \in rows : h.time <= t.time /\ t.time < last}
      BY <2>1, <2>2 DEF RowsAt
    <2> QED
      BY <1>1, <2>3, <2>5, <2>6 DEF Within
  <1>7. h.volume = Cardinality(RowsAt(rows, start, h.time))
    BY <1>1, HourlyIs
  <1> QED
    BY <1>6, <1>7, RecordedCount DEF last

LEMMA HoursMakeDay ==
  ASSUME Archived, NEW m, NEW start \in Nat, NEW end \in Nat
  PROVE  SumHours(HourlySingle(history, m, start, end)) = Known(TradeVolume(history, m, start, end))
  <1> DEFINE rows == Within(Recorded(history), m, start, end)
             H == HourlyOf(rows, start)
  <1>1. Countable(rows)
    BY ArchiveCounts, WithinCountable
  <1>2. {t \in rows : \E h \in H : start + HourOf(t) * Hour = h.time} = rows
    <2>1. ASSUME NEW t \in rows PROVE \E h \in H : start + HourOf(t) * Hour = h.time
      BY <1>1, HourlyIs
    <2> HIDE DEF H
    <2> QED
      BY <2>1
  <1>3. SumHours(H) = Cardinality(rows)
    <2>1. SumHours(H) = Cardinality({t \in rows : \E h \in H : start + HourOf(t) * Hour = h.time})
      BY <1>1, HoursCount
    <2> QED
      BY <1>2, <2>1
  <1>4. HourlySingle(history, m, start, end) = H
    BY DEF HourlySingle
  <1>5. Cardinality(rows) = Known(TradeVolume(history, m, start, end))
    BY RecordedCount
  <1> QED
    BY <1>3, <1>4, <1>5

\* The hours of all markets are the sums of those of each.
LEMMA HoursOfMarkets ==
  ASSUME Archived, NEW start \in Nat, NEW end \in Nat, NEW time
  PROVE  HoursOf(HourlyTotal(history, start, end), time) = SumMarkets(start, end, time)
  <1> DEFINE R(m) == Within(Recorded(history), m, start, end)
             A == [m \in Markets |-> RowsAt(R(m), start, time)]
             f == Sizes(A, Markets)
             Single(m) == HoursOf(HourlySingle(history, m, start, end), time)
             Q(g) == g = [T \in SUBSET Markets |-> IF T = {} THEN 0
                                                   ELSE Single(Pick(T)) + g[T \ {Pick(T)}]]
             s == CHOOSE g : Q(g)
             rows == UNION {R(m) : m \in Markets}
  <1>1. \A m \in Markets : Countable(R(m)) /\ R(m) \subseteq Recorded(history)
    BY ArchiveCounts, WithinCountable
  <1>2. Countable(rows)
    <2>1. rows \subseteq Recorded(history)
      BY <1>1
    <2> QED
      BY <2>1, ArchiveCounts, FS_Subset DEF Countable
  <1>3. HoursOf(HourlyTotal(history, start, end), time) = Cardinality(RowsAt(rows, start, time))
    <2>1. HourlyTotal(history, start, end) = HourlyOf(rows, start)
      BY DEF HourlyTotal
    <2> HIDE DEF rows
    <2> QED
      BY <1>2, <2>1, HoursOfTime
  <1>4. \A m \in Markets : Single(m) = Cardinality(A[m])
    BY <1>1, HoursOfTime DEF HourlySingle
  <1>5. All(A, Markets) = RowsAt(rows, start, time)
    <2> HIDE DEF R
    <2> QED
      BY DEF All, RowsAt
  <1>6. Apart(A, Markets)
    BY DEF Apart, RowsAt, Within
  <1>7. /\ IsFiniteSet(Markets)
        /\ \A m \in Markets : IsFiniteSet(A[m]) /\ Cardinality(A[m]) \in Nat
    <2>1. IsFiniteSet(Markets)
      BY VolumeAssumption, FS_Union DEF Markets
    <2>2. \A m \in Markets : IsFiniteSet(A[m])
      <3>1. \A m \in Markets : A[m] \subseteq R(m)
        BY DEF RowsAt
      <3> HIDE DEF R, A
      <3> QED
        BY <1>1, <3>1, FS_Subset DEF Countable
    <2> HIDE DEF A
    <2> QED
      BY <2>1, <2>2, FS_CardinalityType
  <1> HIDE DEF A, rows, R
  <1>8. Cardinality(All(A, Markets)) = Total(f, Markets)
    BY <1>6, <1>7, SizesAddUp
  <1>9. \A m \in Markets : f[m] = Single(m) /\ f[m] \in Int
    BY <1>4, <1>7 DEF Sizes
  <1> HIDE DEF f, Single
  <1>10. s[Markets] = Total(f, Markets)
    <2>1. \A T \in SUBSET Markets : T # {} => Single(Pick(T)) = f[Pick(T)]
      <3>1. \A T \in SUBSET Markets : T # {} => Pick(T) \in Markets
        BY DEF Pick
      <3> QED
        BY <1>9, <3>1
    <2>2. \A g : Q(g) <=> Sums(g, f, SUBSET Markets)
      BY <2>1 DEF Sums
    <2>3. Summands(f, Markets)
      BY <1>7, <1>9 DEF Summands
    <2>4. \E g : Q(g)
      BY <2>2, <2>3, SumsExist
    <2>5. Q(s)
      BY <2>4
    <2> HIDE DEF s, Q
    <2>6. Sums(s, f, SUBSET Markets)
      BY <2>2, <2>5
    <2> QED
      BY <2>3, <2>6, TotalIs
  <1>11. SumMarkets(start, end, time) = s[Markets]
    BY DEF SumMarkets, MapThenSumSet, MapThenFoldSet, Pick, Single
  <1> QED
    BY <1>3, <1>5, <1>8, <1>10, <1>11

LEMMA HoursAlwaysAddUp ==
  ASSUME Archived, NEW start \in Nat, NEW end \in Nat, start < end
  PROVE  HoursAddUp(start, end)
  BY HourIsCounted, HoursMakeDay, HoursOfMarkets DEF HoursAddUp

-----------------------------------------------------------------------------
(* The audit of the trades.                                                *)

LEMMA NewestTicker ==
  ASSUME Archived, NEW m, RecentTickers(history, m) # {}
  PROVE  \E k \in RecentTickers(history, m) :
           \A other \in RecentTickers(history, m) : other.time <= k.time
  <1> DEFINE rows == RecentTickers(history, m)
             ages == {history.now - k.time : k \in rows}
  <1>1. \A k \in rows : k.time \in Nat /\ k.time <= history.now
    BY DEF RecentTickers, Archived
  <1>2. history.now \in Nat
    BY DEF Archived
  <1> HIDE DEF rows
  <1>3. ages \subseteq Nat /\ ages # {}
    <2>1. \A k \in rows : history.now - k.time \in Nat
      BY <1>1, <1>2
    <2>2. PICK k \in rows : TRUE
      BY DEF rows
    <2> QED
      BY <2>1, <2>2
  <1>4. PICK a \in ages : \A b \in ages : a <= b
    BY <1>3, LeastNumber
  <1>5. PICK k \in rows : a = history.now - k.time
    OBVIOUS
  <1>6. ASSUME NEW other \in rows PROVE other.time <= k.time
    <2>1. history.now - other.time \in ages
      OBVIOUS
    <2>2. a <= history.now - other.time
      BY <1>4, <2>1
    <2> HIDE DEF ages
    <2> QED
      BY <1>1, <1>2, <1>5, <2>2
  <1> QED
    BY <1>6 DEF rows

LEMMA AlarmIsExplained ==
  ASSUME Archived, NEW m
  PROVE  AlarmExplained(m)
  <1> DEFINE latest == history.now
             rows == RecentTickers(history, m)
             ticker == CHOOSE k \in rows : \A other \in rows : other.time <= k.time
             day == Within(history.trades, m, latest - Day, latest + 1)
             ours == Cardinality(Within(Recorded(history), m, latest - Day, latest + 1))
  <1> SUFFICES ASSUME TradesAudit(history, m) = "alarm",
                      CountMissing(m, latest - Day, latest + 1) = 0,
                      CountMade(m, latest - Recent + 1, latest + 1) = 0,
                      CountMade(m, latest - Recent - Day + 1, latest - Day + 1) = 0
               PROVE  FALSE
    <2>1. \A a, b : CountMissing(m, a, b) \in Nat /\ CountMade(m, a, b) \in Nat
      BY RecordedCount
    <2> QED
      BY <2>1 DEF AlarmExplained
  <1>1. /\ rows # {}
        /\ 100 * ours < 99 * ticker.volume \/ 100 * ours > 101 * ticker.volume
    BY DEF TradesAudit
  <1>2. ticker \in rows
    BY <1>1, NewestTicker
  <1> DEFINE t == ticker.time
  <1>3. /\ ticker \in history.tickers /\ ticker.market = m
        /\ latest - Recent <= t /\ t <= latest /\ t \in Nat /\ latest \in Nat
    <2> HIDE DEF ticker
    <2> QED
      BY <1>2 DEF RecentTickers, Archived
  <1>4. ticker.volume = Cardinality(Within(history.trades, m, t - Day + 1, t + 1))
    BY <1>3 DEF Archived, RollingVolume
  <1> HIDE DEF ticker, rows
  <1>5. ASSUME NEW a, NEW b, CountMade(m, a, b) = 0
        PROVE  \A x \in history.trades : x.market = m => ~(a <= x.time /\ x.time < b)
    <2>1. IsFiniteSet(Within(history.trades, m, a, b))
      BY ArchiveCounts, WithinCounts
    <2>2. Within(history.trades, m, a, b) = {}
      BY <1>5, <2>1, FS_EmptySet DEF CountMade
    <2> QED
      BY <2>2 DEF Within
  <1>6. ASSUME NEW x \in history.trades, x.market = m
        PROVE  /\ ~(latest - Recent + 1 <= x.time /\ x.time < latest + 1)
               /\ ~(latest - Recent - Day + 1 <= x.time /\ x.time < latest - Day + 1)
    BY <1>5, <1>6
  <1>7. Within(history.trades, m, t - Day + 1, t + 1) = day
    <2>1. Day \in Nat \ {0} /\ Recent \in Nat \ {0}
      BY VolumeAssumption
    <2> HIDE DEF latest, t
    <2>2. ASSUME NEW x \in history.trades, x.market = m
          PROVE  t - Day + 1 <= x.time /\ x.time < t + 1
                   <=> latest - Day <= x.time /\ x.time < latest + 1
      <3>1. x.time \in Nat
        BY DEF Archived
      <3> QED
        BY <1>3, <1>6, <2>1, <2>2, <3>1
    <2> QED
      BY <2>2 DEF Within, latest
  <1>8. ours = CountMade(m, latest - Day, latest + 1) /\ ours \in Nat
    <2>1. ours = CountMade(m, latest - Day, latest + 1) - CountMissing(m, latest - Day, latest + 1)
      BY RecordedCount
    <2>2. CountMade(m, latest - Day, latest + 1) \in Nat
      BY RecordedCount
    <2> HIDE DEF ours
    <2> QED
      BY <2>1, <2>2
  <1>9. ticker.volume = ours
    BY <1>4, <1>7, <1>8 DEF CountMade
  <1> HIDE DEF ours
  <1> QED
    BY <1>1, <1>8, <1>9

LEMMA TickersAreOfADay == TickersAreDaily
  <1> SUFFICES ASSUME NEW p \in VolumePollers, NEW rolling \in 0..2, NEW today \in 0..2,
                      NEW ltc \in 0..2, p # "Okcoin"
               PROVE  PolledVolume(p, TickerOf(p, rolling, today, ltc)) = rolling
    BY DEF TickersAreDaily
  <1>1. CASE p = "Kraken"
    BY <1>1 DEF PolledVolume, TickerOf, KrakenVolume
  <1>2. CASE p = "Itbit"
    BY <1>2 DEF PolledVolume, TickerOf, ItbitVolume
  <1>3. CASE p \in {"Bitfinex", "Bitstamp", "Coinbase", "CoinbaseCAD", "Quadriga"}
    <2>1. TickerOf(p, rolling, today, ltc) = [volume |-> rolling]
      BY <1>3 DEF TickerOf
    <2> QED
      BY <1>3, <2>1 DEF PolledVolume, BitfinexVolume, BitstampVolume, CoinbaseVolume,
                        CoinbaseCADVolume, QuadrigaVolume
  <1> QED
    BY <1>1, <1>2, <1>3 DEF VolumePollers

LEMMA VolumesAlwaysAddUp == ASSUME Archived PROVE VolumesAddUp
  <1>1. ASSUME NEW start \in 0..history.now - 1, NEW end \in start + 1..history.now
        PROVE  PeriodExplained(start, end) /\ TotalIsSum(start, end) /\ HoursAddUp(start, end)
    <2>1. start \in Nat /\ end \in Nat /\ start < end
      BY DEF Archived
    <2> QED
      BY <2>1, PeriodIsExplained, TotalAddsUp, HoursAlwaysAddUp
  <1> QED
    BY <1>1, AlarmIsExplained DEF VolumesAddUp

-----------------------------------------------------------------------------
(* The answers of any exchange about any trades.                           *)

MadeTrade == [number : Nat, time : Nat, below : BOOLEAN]

\* Trades have their moments in the order they were made, and none was made in
\* the first millisecond of 1970.
TradesAnswered ==
  /\ history.exchange \in TradeExchanges
  /\ history.made \in Seq(MadeTrade) /\ history.first \in 0..Len(history.made)
  /\ \A i \in 1..Len(history.made) :
       /\ history.made[i].number = i /\ history.made[i].time >= 10
       /\ \A j \in i..Len(history.made) : history.made[i].time <= history.made[j].time

Seen(n) ==
  LET seen == SubSeq(history.made, 1, n)
  IN  IF history.newestFirst THEN Reverse(seen) ELSE seen

\* What the poll is told: the first n trades, each once.
LEMMA SeenIs ==
  ASSUME TradesAnswered, NEW n \in 0..Len(history.made)
  PROVE  /\ Seen(n) \in Seq(MadeTrade) /\ Len(Seen(n)) = n
         /\ \A j \in 1..n : \E i \in 1..n : Seen(n)[j] = history.made[i]
         /\ \A i \in 1..n : \E j \in 1..n : Seen(n)[j] = history.made[i]
  <1> DEFINE seen == SubSeq(history.made, 1, n)
  <1>1. seen \in Seq(MadeTrade) /\ Len(seen) = n /\ \A i \in 1..n : seen[i] = history.made[i]
    BY DEF TradesAnswered
  <1> HIDE DEF seen
  <1>2. CASE ~history.newestFirst
    BY <1>1, <1>2 DEF Seen, seen
  <1>3. CASE history.newestFirst
    <2>1. Seen(n) = [i \in 1..n |-> seen[(n - i) + 1]]
      BY <1>1, <1>3 DEF Seen, Reverse, seen
    <2>2. \A i \in 1..n : (n - i) + 1 \in 1..n /\ seen[i] \in MadeTrade
      BY <1>1
    <2>3. Seen(n) \in Seq(MadeTrade) /\ Len(Seen(n)) = n
      <3>1. n \in Nat
        BY DEF TradesAnswered
      <3>2. Seen(n) \in [1..n -> MadeTrade]
        BY <2>1, <2>2
      <3> QED
        BY <3>1, <3>2, SeqDef
    <2>4. \A i \in 1..n : Seen(n)[i] = history.made[(n - i) + 1]
      BY <1>1, <2>1, <2>2
    <2>5. ASSUME NEW i \in 1..n PROVE \E j \in 1..n : Seen(n)[j] = history.made[i]
      <3>1. (n - i) + 1 \in 1..n /\ (n - ((n - i) + 1)) + 1 = i
        OBVIOUS
      <3> QED
        BY <2>4, <3>1
    <2> QED
      BY <2>2, <2>3, <2>4, <2>5
  <1> QED
    BY <1>2, <1>3

Id(t) == TradeId(history.exchange, t)

\* Ids that are made of moments follow these; the others are the trades' own.
LEMMA IdIs ==
  ASSUME TradesAnswered, NEW t \in MadeTrade
  PROVE  CASE history.exchange = "quadriga" -> Id(t) = t.time \div 10
           [] history.exchange = "kraken" -> Id(t) \in {t.time, t.time - 1}
           [] OTHER -> Id(t) = t.number
  <1> USE DEF Id, TradeId, TradesAnswered, TradeExchanges
  <1>1. CASE history.exchange = "quadriga"
    BY <1>1 DEF QuadrigaTradeId
  <1>2. CASE history.exchange = "kraken"
    BY <1>2 DEF KrakenTradeId
  <1>3. CASE history.exchange \notin {"quadriga", "kraken"}
    BY <1>3 DEF BitfinexTradeId, OkcoinTradeId, ItbitTradeId, CoinbaseTradeId,
                CoinbaseCadTradeId, BitstampTradeId, GeminiTradeId
  <1> QED
    BY <1>1, <1>2, <1>3

\* The trades of the history.
AllMade == {history.made[i] : i \in 1..Len(history.made)}

LEMMA IdsOfMade ==
  ASSUME TradesAnswered, NEW s \in AllMade, NEW t \in AllMade
  PROVE  /\ s \in MadeTrade /\ Id(s) \in Nat /\ Id(s) > 0
         /\ s.number <= t.number => s.time <= t.time
         /\ Id(s) = Id(t) => SameMoment(history.exchange, s, t) \/ s = t
  <1>1. PICK i \in 1..Len(history.made) : s = history.made[i]
    BY DEF AllMade
  <1>2. PICK j \in 1..Len(history.made) : t = history.made[j]
    BY DEF AllMade
  <1>3. /\ s \in MadeTrade /\ t \in MadeTrade /\ s.number = i /\ t.number = j
        /\ s.time >= 10 /\ t.time >= 10 /\ (i <= j => s.time <= t.time)
    BY <1>1, <1>2 DEF TradesAnswered
  <1>4. s.time \in Nat /\ t.time \in Nat
    BY <1>3 DEF MadeTrade
  <1>5. CASE history.exchange = "quadriga"
    <2>1. Id(s) = s.time \div 10 /\ Id(t) = t.time \div 10
      BY <1>3, <1>5, IdIs
    <2>2. s.time \div 10 \in Nat /\ s.time \div 10 > 0
      BY <1>3, <1>4
    <2> QED
      BY <1>3, <1>5, <2>1, <2>2 DEF SameMoment
  <1>6. CASE history.exchange = "kraken"
    <2>1. Id(s) \in {s.time, s.time - 1} /\ Id(t) \in {t.time, t.time - 1}
      BY <1>3, <1>6, IdIs
    <2>2. Id(s) = Id(t) => s.time - t.time \in -1..1
      BY <1>4, <2>1
    <2>3. Id(s) \in Nat /\ Id(s) > 0
      BY <1>3, <1>4, <2>1
    <2> QED
      BY <1>3, <1>6, <2>2, <2>3 DEF SameMoment
  <1>7. CASE history.exchange \notin {"quadriga", "kraken"}
    <2>1. Id(s) = s.number /\ Id(t) = t.number
      BY <1>3, <1>7, IdIs
    <2> QED
      BY <1>1, <1>2, <1>3, <2>1
  <1> QED
    BY <1>5, <1>6, <1>7

\* A trade that was made later than one that is as new as it, is of its moment,
\* and of that of all with the same id.
LEMMA OvertakenIsNear ==
  ASSUME TradesAnswered, NEW t \in AllMade, NEW s \in AllMade, NEW r \in AllMade,
         s.number < t.number, Id(t) <= Id(s), Id(r) = Id(s)
  PROVE  SameMoment(history.exchange, r, t)
  <1>1. /\ r \in MadeTrade /\ s \in MadeTrade /\ t \in MadeTrade
        /\ s.time <= t.time
    <2>1. s.number \in Nat /\ t.number \in Nat
      BY IdsOfMade DEF MadeTrade
    <2> QED
      BY <2>1, IdsOfMade
  <1>2. r.time \in Nat /\ s.time \in Nat /\ t.time \in Nat /\ s.number \in Nat /\ t.number \in Nat
    BY <1>1 DEF MadeTrade
  <1>3. CASE history.exchange = "quadriga"
    <2>1. Id(s) = s.time \div 10 /\ Id(t) = t.time \div 10 /\ Id(r) = r.time \div 10
      BY <1>1, <1>3, IdIs
    <2>2. s.time \div 10 <= t.time \div 10 /\ s.time \div 10 \in Nat /\ t.time \div 10 \in Nat
      BY <1>1, <1>2
    <2> QED
      BY <1>3, <2>1, <2>2 DEF SameMoment
  <1>4. CASE history.exchange = "kraken"
    <2>1. /\ Id(s) \in {s.time, s.time - 1} /\ Id(t) \in {t.time, t.time - 1}
          /\ Id(r) \in {r.time, r.time - 1}
      BY <1>1, <1>4, IdIs
    <2>2. r.time - t.time \in -1..1
      BY <1>1, <1>2, <2>1
    <2> QED
      BY <1>4, <2>2 DEF SameMoment
  <1>5. CASE history.exchange \notin {"quadriga", "kraken"}
    <2>1. Id(s) = s.number /\ Id(t) = t.number
      BY <1>1, <1>5, IdIs
    <2> QED
      BY <1>2, <2>1
  <1> QED
    BY <1>3, <1>4, <1>5

\* A poll publishes a trade of each new id, and nothing else.
LEMMA PublishedIs ==
  ASSUME TradesAnswered, NEW n \in 0..Len(history.made), NEW newest \in Nat
  PROVE  LET published == Published(history.exchange, Seen(n), newest)
         IN  /\ \A t \in published : /\ \E i \in 1..n : t = history.made[i]
                                     /\ Id(t) > newest
             /\ \A i \in 1..n : Id(history.made[i]) > newest =>
                  \E s \in published : Id(s) = Id(history.made[i])
  <1> DEFINE answer == Seen(n)
             ids == Identified(history.exchange, answer)
             new == {j \in DOMAIN answer :
                       ids[j] > newest /\ \A k \in 1..(j - 1) : ids[k] # ids[j]}
             published == Published(history.exchange, answer, newest)
  <1>1. published = {answer[i] : i \in new}
    BY DEF Published
  <1>2. DOMAIN answer = 1..n /\ n \in Nat
    <2>1. Len(answer) = n /\ answer \in Seq(MadeTrade)
      BY SeenIs
    <2>2. n \in Nat
      BY DEF TradesAnswered
    <2> QED
      BY <2>1, <2>2
  <1>3. \A j \in 1..n : ids[j] = Id(answer[j])
    BY <1>2 DEF Identified, Id
  <1>4. ASSUME NEW t \in published
        PROVE  (\E i \in 1..n : t = history.made[i]) /\ Id(t) > newest
    <2>1. PICK j \in new : t = answer[j]
      BY <1>1
    <2>2. j \in 1..n /\ ids[j] > newest
      BY <1>2
    <2> QED
      BY <1>3, <2>1, <2>2, SeenIs
  <1>5. ASSUME NEW i \in 1..n, Id(history.made[i]) > newest
        PROVE  \E s \in published : Id(s) = Id(history.made[i])
    <2> DEFINE those == {j \in 1..n : ids[j] = Id(history.made[i])}
    <2>1. those \subseteq Nat /\ those # {}
      <3>1. PICK j \in 1..n : answer[j] = history.made[i]
        BY SeenIs
      <3>2. ids[j] = Id(history.made[i])
        BY <1>3, <3>1
      <3> QED
        BY <3>2
    <2>2. PICK j \in those : \A k \in those : j <= k
      BY <2>1, LeastNumber
    <2>3. j \in new
      <3>1. j \in 1..n /\ ids[j] = Id(history.made[i])
        OBVIOUS
      <3>2. ASSUME NEW k \in 1..(j - 1) PROVE ids[k] # ids[j]
        <4>1. k \in 1..n /\ k < j
          BY <1>2, <3>1
        <4>2. k \notin those
          BY <1>2, <2>2, <3>1, <4>1
        <4> HIDE DEF ids
        <4> QED
          BY <3>1, <4>1, <4>2
      <3> HIDE DEF ids
      <3> QED
        BY <1>2, <1>5, <3>1, <3>2
    <2>4. answer[j] \in published /\ Id(answer[j]) = Id(history.made[i])
      BY <1>1, <1>3, <2>3
    <2> QED
      BY <2>4
  <1> HIDE DEF published
  <1> QED
    BY <1>4, <1>5 DEF published

LEMMA NewestIs ==
  ASSUME TradesAnswered, NEW n \in 0..Len(history.made)
  PROVE  LET newest == NewestId(history.exchange, Seen(n))
         IN  /\ newest \in Nat
             /\ \A i \in 1..n : Id(history.made[i]) <= newest
             /\ newest = 0 \/ \E i \in 1..n : Id(history.made[i]) = newest
  <1> DEFINE ids == Identified(history.exchange, Seen(n))
             S == {0} \cup ToSet(ids)
  <1>1. /\ DOMAIN Seen(n) = 1..n /\ n \in Nat /\ Len(history.made) \in Nat
    <2>1. Len(Seen(n)) = n /\ Seen(n) \in Seq(MadeTrade)
      BY SeenIs
    <2>2. n \in Nat /\ Len(history.made) \in Nat
      BY DEF TradesAnswered
    <2> QED
      BY <2>1, <2>2
  <1>2. ids = [j \in 1..n |-> Id(Seen(n)[j])]
    BY <1>1 DEF Identified, Id
  <1>3. \A i \in 1..n : history.made[i] \in AllMade
    BY <1>1 DEF AllMade
  <1>4. ToSet(ids) = {Id(history.made[i]) : i \in 1..n}
    <2>1. ToSet(ids) = {Id(Seen(n)[j]) : j \in 1..n}
      BY <1>2 DEF ToSet
    <2> QED
      BY <2>1, SeenIs
  <1> DEFINE f == [i \in 1..n |-> Id(history.made[i])]
  <1>5. f \in Surjection(1..n, ToSet(ids))
    BY <1>4 DEF Surjection
  <1>6. IsFiniteSet(ToSet(ids))
    BY <1>1, <1>5, FS_Interval, FS_Surjection
  <1> HIDE DEF f, ids
  <1>7. IsFiniteSet(S) /\ S \subseteq Nat /\ S # {}
    <2>1. IsFiniteSet({0})
      BY FS_Singleton
    <2>2. IsFiniteSet(S)
      BY <1>6, <2>1, FS_Union
    <2>3. ToSet(ids) \subseteq Nat
      BY <1>3, <1>4, IdsOfMade
    <2> QED
      BY <2>2, <2>3
  <1> HIDE DEF S
  <1>8. Max(S) \in S /\ \A x \in S : x <= Max(S)
    <2>1. S \subseteq Int
      BY <1>7
    <2> QED
      BY <1>7, <2>1, FiniteMax
  <1>9. NewestId(history.exchange, Seen(n)) = Max(S)
    BY DEF NewestId, S, ids
  <1> QED
    BY <1>4, <1>7, <1>8, <1>9 DEF S

LEMMA AnswersAlwaysParsed == ASSUME TradesAnswered PROVE AnswersParsed
  <1> DEFINE n == Len(history.made)
             newest == NewestId(history.exchange, Seen(history.first))
             early == Published(history.exchange, Seen(history.first), 0)
             late == Published(history.exchange, Seen(n), newest)
             all == ToSet(history.made)
  <1>1. /\ history.first \in 0..n /\ n \in 0..n /\ n \in Nat /\ history.first \in Nat
        /\ DOMAIN history.made = 1..n
    BY DEF TradesAnswered
  <1>2. all = AllMade
    BY <1>1 DEF ToSet, AllMade
  <1>3. /\ newest \in Nat
        /\ \A i \in 1..history.first : Id(history.made[i]) <= newest
        /\ newest = 0 \/ \E i \in 1..history.first : Id(history.made[i]) = newest
    BY <1>1, NewestIs
  <1>4. /\ \A t \in early : (\E i \in 1..history.first : t = history.made[i]) /\ Id(t) > 0
        /\ \A i \in 1..history.first : Id(history.made[i]) > 0 =>
             \E s \in early : Id(s) = Id(history.made[i])
    BY <1>1, PublishedIs
  <1>5. /\ \A t \in late : (\E i \in 1..n : t = history.made[i]) /\ Id(t) > newest
        /\ \A i \in 1..n : Id(history.made[i]) > newest =>
             \E s \in late : Id(s) = Id(history.made[i])
    BY <1>1, <1>3, PublishedIs
  <1> HIDE DEF newest, early, late
  <1>6. \A i \in 1..n : history.made[i] \in AllMade /\ history.made[i].number = i
    BY <1>1 DEF AllMade, TradesAnswered
  <1>7. \A i \in 1..history.first : i \in 1..n
    BY <1>1
  <1>8. early \subseteq AllMade /\ late \subseteq AllMade
    BY <1>4, <1>5, <1>6, <1>7
  <1>9. early \cap late = {}
    <2>1. ASSUME NEW t \in early, t \in late PROVE FALSE
      <3>1. Id(t) <= newest
        BY <1>3, <1>4
      <3>2. Id(t) > newest /\ Id(t) \in Nat
        BY <1>5, <1>8, <2>1, IdsOfMade
      <3> QED
        BY <1>3, <3>1, <3>2
    <2> QED
      BY <2>1
  <1>10. ASSUME NEW t \in AllMade, t \notin early, t \notin late
         PROVE  \E s \in early \cup late : SameMoment(history.exchange, s, t)
    <2>1. PICK i \in 1..n : t = history.made[i]
      BY DEF AllMade
    <2>2. Id(t) \in Nat /\ Id(t) > 0
      BY IdsOfMade
    <2>3. ASSUME NEW s \in early \cup late, Id(s) = Id(t)
          PROVE  SameMoment(history.exchange, s, t)
      BY <1>8, <1>10, <2>3, IdsOfMade
    <2>4. CASE i \in 1..history.first
      BY <1>4, <2>1, <2>2, <2>3, <2>4
    <2>5. CASE Id(t) > newest
      BY <1>5, <2>1, <2>3, <2>5
    <2>6. CASE i \notin 1..history.first /\ ~(Id(t) > newest)
      <3>1. newest # 0
        BY <1>3, <2>2, <2>6
      <3>2. PICK j \in 1..history.first : Id(history.made[j]) = newest
        BY <1>3, <3>1
      <3>3. history.made[j] \in AllMade /\ history.made[j].number < t.number
        BY <1>1, <1>6, <1>7, <2>1, <2>6
      <3>4. PICK s \in early : Id(s) = newest
        BY <1>3, <1>4, <3>1, <3>2
      <3>5. Id(t) <= Id(history.made[j])
        BY <1>3, <2>2, <2>6, <3>2
      <3>6. SameMoment(history.exchange, s, t)
        BY <1>8, <3>2, <3>3, <3>4, <3>5, OvertakenIsNear
      <3> QED
        BY <3>6
    <2> QED
      BY <2>4, <2>5, <2>6
  <1>11. ASSUME NEW t \in late, NEW s \in ToSet(Seen(history.first)) PROVE s.number < t.number
    <2>1. PICK i \in 1..n : t = history.made[i] /\ Id(t) > newest
      BY <1>5
    <2>2. PICK j \in 1..history.first : s = history.made[j]
      <3>1. Len(Seen(history.first)) = history.first /\ Seen(history.first) \in Seq(MadeTrade)
        BY <1>1, SeenIs
      <3>2. PICK k \in 1..history.first : s = Seen(history.first)[k]
        BY <3>1 DEF ToSet
      <3> QED
        BY <1>1, <3>2, SeenIs
    <2>3. i \notin 1..history.first
      <3>1. Id(t) \in Nat
        BY <1>8, IdsOfMade
      <3> QED
        BY <1>3, <2>1, <3>1
    <2> QED
      BY <1>1, <1>6, <1>7, <2>1, <2>2, <2>3
  <1> QED
    BY <1>2, <1>9, <1>10, <1>11 DEF AnswersParsed, Seen, early, late, newest

\* The histories that the runs are about are such archives and answers.
LEMMA TradedCounts ==
  ASSUME NEW market, NEW times, IsFiniteSet(times), times \subseteq Nat
  PROVE  Countable(Traded(market, times))
  <1> DEFINE f == [t \in times |-> [market |-> market, time |-> t]]
  <1>1. f \in Surjection(times, Traded(market, times))
    BY DEF Surjection, Traded
  <1>2. ASSUME NEW x \in Traded(market, times) PROVE x.time \in Nat
    <2>1. PICK t \in times : x = [market |-> market, time |-> t]
      BY DEF Traded
    <2> QED
      BY <2>1
  <1> QED
    BY <1>1, <1>2, FS_Surjection DEF Countable

LEMMA TickersCount ==
  ASSUME NEW trades, NEW polled, IsFiniteSet(polled), polled \subseteq Nat
  PROVE  /\ IsFiniteSet(AllTickers(trades, polled))
         /\ \A k \in AllTickers(trades, polled) :
              /\ k.time \in Nat
              /\ k.volume = RollingVolume(trades, k.market, k.time)
  <1> DEFINE tickers == AllTickers(trades, polled)
             Row(m, t) == [market |-> m, time |-> t, volume |-> RollingVolume(trades, m, t)]
             f == [p \in Markets \X polled |-> Row(p[1], p[2])]
  <1>1. tickers = {Row(p[1], p[2]) : p \in Markets \X polled}
    <2>1. \A m, k : k \in TickersOf(trades, m, polled) <=> \E t \in polled : k = Row(m, t)
      BY DEF TickersOf, TickerRow
    <2> HIDE DEF Row
    <2>2. \A k : k \in tickers <=> \E m \in Markets : k \in TickersOf(trades, m, polled)
      BY DEF AllTickers
    <2>3. ASSUME NEW k PROVE k \in tickers <=> \E p \in Markets \X polled : k = Row(p[1], p[2])
      <3>1. ASSUME NEW m \in Markets, NEW t \in polled, k = Row(m, t)
            PROVE  \E p \in Markets \X polled : k = Row(p[1], p[2])
        <4>1. <<m, t>> \in Markets \X polled /\ k = Row(<<m, t>>[1], <<m, t>>[2])
          BY <3>1
        <4> QED
          BY <4>1
      <3>2. ASSUME k \in tickers PROVE \E p \in Markets \X polled : k = Row(p[1], p[2])
        <4>1. PICK m \in Markets : k \in TickersOf(trades, m, polled)
          BY <2>2, <3>2
        <4>2. PICK t \in polled : k = Row(m, t)
          BY <2>1, <4>1
        <4> QED
          BY <3>1, <4>2
      <3>3. ASSUME NEW p \in Markets \X polled, k = Row(p[1], p[2]) PROVE k \in tickers
        <4>1. p[1] \in Markets /\ p[2] \in polled
          OBVIOUS
        <4> QED
          BY <2>1, <2>2, <3>3, <4>1
      <3> QED
        BY <3>2, <3>3
    <2> QED
      BY <2>3
  <1>2. IsFiniteSet(Markets \X polled)
    <2>1. IsFiniteSet(Markets)
      BY VolumeAssumption, FS_Union DEF Markets
    <2> QED
      BY <2>1, FS_Product
  <1>3. IsFiniteSet(tickers)
    <2> HIDE DEF Row
    <2>1. f \in Surjection(Markets \X polled, tickers)
      BY <1>1 DEF Surjection
    <2> QED
      BY <1>2, <2>1, FS_Surjection
  <1>4. ASSUME NEW k \in tickers
        PROVE  k.time \in Nat /\ k.volume = RollingVolume(trades, k.market, k.time)
    <2>1. PICK p \in Markets \X polled : k = Row(p[1], p[2])
      BY <1>1
    <2>2. k.market = p[1] /\ k.time = p[2] /\ k.volume = RollingVolume(trades, p[1], p[2])
      BY <2>1
    <2> QED
      BY <2>2
  <1> QED
    BY <1>3, <1>4

LEMMA FiniteTo == ASSUME NEW n \in Nat PROVE IsFiniteSet(0..n)
  BY FS_Interval

LEMMA ArchivesAre ==
  ASSUME history \in VolumeArchives
  PROVE  history.about = "volumes" /\ Archived
  <1>1. PICK ours \in SUBSET {1, 4, 5, 7, 8, 9}, theirs \in {{}, {5, 6}} :
          history \in ArchivesOf(ours, theirs)
    BY DEF VolumeArchives
  <1> DEFINE trades == ArchivedTrades(ours, theirs)
  <1>2. PICK polled \in PollTimes : \E lost \in Losses(ours) :
          history = VolumeArchive(trades, polled, lost)
    BY <1>1 DEF ArchivesOf
  <1>3. PICK lost \in Losses(ours) : history = VolumeArchive(trades, polled, lost)
    BY <1>2
  <1>4. \A S : S \subseteq 0..10 => IsFiniteSet(S) /\ S \subseteq Nat
    <2>1. IsFiniteSet(0..10)
      BY FiniteTo
    <2>2. 0..10 \subseteq Nat
      OBVIOUS
    <2> QED
      BY <2>1, <2>2, FS_Subset
  <1>5. ours \subseteq 0..10 /\ theirs \subseteq 0..10 /\ polled \subseteq 0..10
    BY <1>2 DEF PollTimes, Now
  <1>6. Countable(Traded("kraken", ours)) /\ Countable(Traded("quadriga", theirs))
    BY <1>4, <1>5, TradedCounts
  <1>7. Countable(trades)
    BY <1>6, FS_Union DEF Countable, ArchivedTrades
  <1>8. lost \subseteq trades
    BY <1>3 DEF Losses, ArchivedTrades, Traded
  <1> DEFINE tickers == AllTickers(trades, polled)
  <1>9. /\ history.about = "volumes" /\ history.now = Now /\ history.trades = trades
        /\ history.missing = lost /\ history.tickers = tickers
    <2> HIDE DEF trades
    <2> QED
      BY <1>3 DEF VolumeArchive
  <1>10. /\ IsFiniteSet(tickers)
         /\ \A k \in tickers :
              k.time \in Nat /\ k.volume = RollingVolume(trades, k.market, k.time)
    <2>1. IsFiniteSet(polled) /\ polled \subseteq Nat
      BY <1>4, <1>5
    <2> HIDE DEF trades
    <2> QED
      BY <2>1, TickersCount
  <1> HIDE DEF trades, tickers
  <1> QED
    BY <1>7, <1>8, <1>9, <1>10 DEF Archived, Countable, Now

LEMMA SequenceOf ==
  ASSUME NEW S, NEW n \in Nat, NEW f \in [1..n -> S]
  PROVE  f \in Seq(S) /\ Len(f) = n
  <1>1. f \in Seq(S)
    BY SeqDef
  <1> QED
    BY <1>1, LenProperties

LEMMA AnswersAre ==
  ASSUME history \in TradeHistories
  PROVE  TradesAnswered
  <1>1. PICK exchange \in TradeExchanges, first \in 0..3, below \in SUBSET {10011, 10012},
             times \in {t \in [1..3 -> Moments] : t[1] <= t[2] /\ t[2] <= t[3]} :
          /\ history.exchange = exchange /\ history.first = first
          /\ history.made = [i \in 1..3 |-> [number |-> i, time |-> times[i],
                                             below |-> times[i] \in below]]
    BY DEF TradeHistories
  <1>2. /\ \A i \in 1..3 : times[i] \in Nat /\ times[i] >= 10
        /\ \A i \in 1..3 : \A j \in i..3 : times[i] <= times[j]
    BY DEF Moments
  <1>3. /\ history.made \in Seq(MadeTrade) /\ Len(history.made) = 3
        /\ \A i \in 1..3 : history.made[i].number = i /\ history.made[i].time = times[i]
    <2>1. history.made \in [1..3 -> MadeTrade]
      BY <1>1, <1>2 DEF MadeTrade
    <2> DEFINE n == 3
    <2> HIDE DEF MadeTrade
    <2>2. n \in Nat /\ history.made \in [1..n -> MadeTrade]
      BY <2>1
    <2> HIDE DEF n
    <2>3. history.made \in Seq(MadeTrade) /\ Len(history.made) = n
      BY <2>2, SequenceOf
    <2> QED
      BY <1>1, <2>3 DEF n
  <1> QED
    BY <1>1, <1>2, <1>3 DEF TradesAnswered

RecordsInv ==
  /\ history.about = "volumes" => Archived
  /\ history.about = "answers" => TradesAnswered

LEMMA RecordsInit == ASSUME ServiceInit PROVE RecordsInv
  <1>1. CASE history \in {[about |-> "nothing"], [about |-> "backfill"],
                          [about |-> "rates"], [about |-> "tickers"]}
    BY <1>1 DEF RecordsInv
  <1>2. CASE history \in VolumeArchives
    BY <1>2, ArchivesAre DEF RecordsInv
  <1>3. CASE history \in TradeHistories
    <2>1. history.about = "answers"
      BY <1>3 DEF TradeHistories
    <2> QED
      BY <1>3, <2>1, AnswersAre DEF RecordsInv
  <1> QED
    BY <1>1, <1>2, <1>3 DEF ServiceInit

(***************************************************************************)
(* Of any archive and of any trades that an exchange answers with, what is *)
(* said to have been traded is what was traded: the volumes of every       *)
(* period, their totals and hours, the alarms of the audit, and the trades *)
(* that two polls publish.                                                 *)
(***************************************************************************)
THEOREM ArchivesTellTheTruth ==
  /\ Archived => VolumesAddUp
  /\ TradesAnswered => AnswersParsed
  BY VolumesAlwaysAddUp, AnswersAlwaysParsed

(***************************************************************************)
(* So it is in every state of the service.                                 *)
(***************************************************************************)
THEOREM RecordedAlwaysAsTraded == ServiceSpec => []RecordedAsTraded
  <1>1. ServiceInit => RecordsInv
    BY RecordsInit
  <1>2. RecordsInv /\ [ServiceNext]_<<feedsVars, serviceVars>> => RecordsInv'
    <2>1. ASSUME [ServiceNext]_<<feedsVars, serviceVars>> PROVE history' = history
      BY <2>1 DEF ServiceNext, serviceVars
    <2> QED
      BY <2>1 DEF RecordsInv, Archived, TradesAnswered
  <1>3. RecordsInv => RecordedAsTraded
    BY VolumesAlwaysAddUp, AnswersAlwaysParsed, TickersAreOfADay DEF RecordsInv, RecordedAsTraded
  <1> QED
    BY <1>1, <1>2, <1>3, PTL DEF ServiceSpec
=============================================================================
