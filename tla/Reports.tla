-------------------------------- MODULE Reports --------------------------------
(***************************************************************************)
(* lib/gryphonfury: fees and uptime of a period [start, end), by exchange. *)
(* A trade is [exchange, fee, time], a transaction [exchange, currency,    *)
(* fee, time] with a fee of NoFee for none; orders are a set of [exchange, *)
(* time].                                                                  *)
(***************************************************************************)
EXTENDS Integers, FiniteSets, FiniteSetsExt, SequencesExt

CONSTANTS Minute, Bucket    \* lengths of time: a minute, ten minutes

ASSUME ReportsAssumption ==
  /\ {Minute, Bucket} \subseteq Nat \ {0} /\ Bucket % Minute = 0

NoFee == -1

RowsIn(rows, start, end) ==
  SelectSeq(rows, LAMBDA r : start <= r.time /\ r.time < end)
FeeSum(rows) == FoldLeft(LAMBDA sum, r : sum + r.fee, 0, rows)

\* By exchange, of those that have traded; zero for others.
FeesByExchange(trades, start, end) ==
  LET rows == RowsIn(trades, start, end)
  IN  [x \in {r.exchange : r \in ToSet(rows)} |->
         FeeSum(SelectSeq(rows, LAMBDA r : r.exchange = x))]

AllFees(trades, start, end) == FeeSum(RowsIn(trades, start, end))

WireRows(transactions, start, end) ==
  SelectSeq(RowsIn(transactions, start, end), LAMBDA r : r.fee # NoFee)

WireFeesByCurrency(transactions, start, end) ==
  LET rows == WireRows(transactions, start, end)
  IN  [c \in {r.currency : r \in ToSet(rows)} |->
         FeeSum(SelectSeq(rows, LAMBDA r : r.currency = c))]

\* Rows are grouped by exchange and currency, but kept by exchange: of several
\* currencies the last remains, whichever that is.
WireFeesByExchange(transactions, start, end) ==
  LET rows == WireRows(transactions, start, end)
      Groups(x) == {[currency |-> c,
                     fee |-> FeeSum(SelectSeq(rows, LAMBDA r : r.exchange = x /\ r.currency = c))] :
                      c \in {r.currency : r \in {s \in ToSet(rows) : s.exchange = x}}}
  IN  [x \in {r.exchange : r \in ToSet(rows)} |-> Groups(x)]

-----------------------------------------------------------------------------
(* Uptime: an exchange is up in a bucket in which it has placed an order.  *)

UpBuckets(orders, x, start, end) ==
  {r.time - (r.time % Bucket) :
     r \in {s \in orders : s.exchange = x /\ start <= s.time /\ s.time < end}}

\* The start is moved back by whole minutes; its seconds stay.
AllBuckets(start, end) ==
  LET first == start - ((start \div Minute) % (Bucket \div Minute)) * Minute
  IN  {first + Bucket * i : i \in 0..(((end - start) \div Bucket) - 1)}

\* The share of buckets in which each of them was up; none of a period that is
\* shorter than a bucket.
GlobalUptime(orders, exchanges, start, end) ==
  LET all == AllBuckets(start, end)
      down == {b \in all : \E x \in exchanges : b \notin UpBuckets(orders, x, start, end)}
  IN  IF all = {} THEN {}
      ELSE {[up |-> Cardinality(all \ down), of |-> Cardinality(all)]}

\* up / of
ExchangeUptime(orders, x, start, end) ==
  [up |-> Cardinality(UpBuckets(orders, x, start, end)) * Bucket, of |-> end - start]
=============================================================================
