------------------------------ MODULE BooksProofs ------------------------------
(***************************************************************************)
(* The books of AccountBooks, of any accounts and any number of entries.   *)
(* What is kept of them is that the balance columns and the net assets are *)
(* sums over the trades and transactions entered so far: each trade weighs *)
(* by its kind - account, side and whether its fee was bought back - and   *)
(* each transaction by itself.  An operation is right when what it credits *)
(* is what it adds to these weights.                                       *)
(***************************************************************************)
EXTENDS LibraryProperties, SumTheorems, SequenceTheorems

(***************************************************************************)
(* Sums over the values at some places of a sequence.                      *)
(***************************************************************************)
LEMMA TotalMarked ==
  ASSUME NEW f, NEW g, NEW h, NEW D, NEW M, M \in SUBSET D, Summands(f, D), Summands(g, D),
         \A x \in D \ M : g[x] = f[x],
         \A x \in M : h[x] = g[x] - f[x]
  PROVE  Summands(h, M) /\ Total(g, D) = Total(f, D) + Total(h, M)
  <1> DEFINE k == [x \in D |-> IF x \in M THEN h[x] ELSE 0]
  <1>1. \A x \in D : k[x] \in Int /\ g[x] = f[x] + k[x] /\ f[x] \in Int
    BY DEF Summands
  <1>2. Summands(k, D)
    BY <1>1 DEF Summands
  <1>3. \A x \in M : k[x] = h[x]
    OBVIOUS
  <1>4. \A x \in D \ M : k[x] = 0
    OBVIOUS
  <1> HIDE DEF k
  <1>5. Total(g, D) = Total(f, D) + Total(k, D)
    BY <1>1, <1>2, TotalPlus
  <1>6. Total(k, D) = Total(k, M)
    BY <1>2, <1>4, TotalOfPart
  <1>7. Summands(k, M)
    BY <1>2, TotalSplit
  <1>8. Total(k, M) = Total(h, M)
    BY <1>3, <1>7, SameTotal
  <1>9. Summands(h, M)
    BY <1>3, <1>7 DEF Summands
  <1> QED
    BY <1>5, <1>6, <1>8, <1>9

Weights(s, W) == [i \in DOMAIN s |-> W[s[i]]]
Weigh(s, W) == Total(Weights(s, W), DOMAIN s)

\* A weighed sequence has a weight.
LEMMA Weighable ==
  ASSUME NEW S, NEW s \in Seq(S), NEW W \in [S -> Int]
  PROVE  Summands(Weights(s, W), DOMAIN s) /\ Weigh(s, W) \in Int
  <1>1. DOMAIN s = 1..Len(s) /\ Len(s) \in Nat /\ \A i \in 1..Len(s) : s[i] \in S
    BY LenProperties, ElementOfSeq
  <1>2. IsFiniteSet(DOMAIN s)
    BY <1>1, FS_Interval
  <1>3. Summands(Weights(s, W), DOMAIN s)
    BY <1>1, <1>2 DEF Summands, Weights
  <1> QED
    BY <1>3, TotalStep DEF Weigh

\* The parts of a sequence with one more element.
LEMMA AppendIs ==
  ASSUME NEW S, NEW s \in Seq(S), NEW r \in S
  PROVE  /\ Append(s, r) \in Seq(S) /\ Len(s) \in Nat /\ DOMAIN s = 1..Len(s)
         /\ Len(Append(s, r)) = Len(s) + 1
         /\ DOMAIN Append(s, r) = (DOMAIN s) \cup {Len(s) + 1} /\ Len(s) + 1 \notin DOMAIN s
         /\ \A i \in DOMAIN s : Append(s, r)[i] = s[i]
         /\ Append(s, r)[Len(s) + 1] = r
  OBVIOUS

\* An empty sequence weighs nothing.
LEMMA WeighNothing ==
  ASSUME NEW W
  PROVE  Weigh(<<>>, W) = 0
  <1>1. Summands(Weights(<<>>, W), {})
    BY FS_EmptySet DEF Summands
  <1>2. DOMAIN <<>> = {}
    OBVIOUS
  <1> QED
    BY <1>1, <1>2, TotalStep DEF Weigh

\* One more element adds its weight.
LEMMA WeighMore ==
  ASSUME NEW S, NEW s \in Seq(S), NEW r \in S, NEW W \in [S -> Int]
  PROVE  Append(s, r) \in Seq(S) /\ Weigh(Append(s, r), W) = Weigh(s, W) + W[r]
  <1> DEFINE t == Append(s, r)
             x == Len(s) + 1
             D == DOMAIN s
             E == DOMAIN t
             f == Weights(s, W)
             g == Weights(t, W)
  <1>1. /\ E = D \cup {x} /\ x \notin D /\ t \in Seq(S)
        /\ \A i \in D : t[i] = s[i]
        /\ t[x] = r
    BY AppendIs
  <1>2. Summands(f, D)
    BY Weighable
  <1> HIDE DEF t, x, D
  <1>3. g[x] = W[r] /\ \A i \in D : g[i] = f[i]
    BY <1>1 DEF Weights, D
  <1>4. W[r] \in Int
    OBVIOUS
  <1> HIDE DEF f, g, E
  <1>5. Total(g, E) = Total(f, D) + g[x]
    <2>1. g[x] \in Int
      BY <1>3, <1>4
    <2>2. x \in E /\ D = Without(E, x)
      BY <1>1 DEF Without
    <2>3. \A i \in Without(E, x) : g[i] = f[i]
      BY <1>3, <2>2
    <2>4. Summands(f, Without(E, x))
      BY <1>2, <2>2
    <2>5. Total(g, E) = Total(f, Without(E, x)) + g[x]
      BY <2>1, <2>2, <2>3, <2>4, TotalWithOneMore
    <2> QED
      BY <2>2, <2>5
  <1> QED
    BY <1>1, <1>3, <1>5 DEF Weigh, f, g, t, D, E

\* An element that is replaced takes its weight away and brings its own.
LEMMA WeighOther ==
  ASSUME NEW S, NEW s \in Seq(S), NEW t \in Seq(S), NEW W \in [S -> Int], NEW i \in DOMAIN s,
         DOMAIN t = DOMAIN s, \A j \in DOMAIN s : j # i => t[j] = s[j]
  PROVE  Weigh(t, W) = Weigh(s, W) + W[t[i]] - W[s[i]]
  <1> DEFINE D == DOMAIN s
             f == Weights(s, W)
             g == Weights(t, W)
  <1>1. Summands(f, D) /\ Summands(g, D)
    BY Weighable
  <1>2. f[i] = W[s[i]] /\ g[i] = W[t[i]] /\ \A j \in D : j # i => g[j] = f[j]
    BY DEF Weights
  <1>3. g[i] \in Int /\ i \in D
    BY <1>1 DEF Summands
  <1> HIDE DEF f, g, D
  <1>4. Total(g, D) = Total(f, D) + g[i] - f[i]
    <2>1. Summands(f, D)
      BY <1>1
    <2>2. \A j \in D : j # i => g[j] = f[j]
      BY <1>2
    <2> QED
      BY <1>3, <2>1, <2>2, TotalWithOther
  <1> QED
    BY <1>2, <1>4 DEF Weigh, f, g, D

\* Some of the values change.
LEMMA WeighMarked ==
  ASSUME NEW S, NEW s \in Seq(S), NEW t \in Seq(S), NEW W \in [S -> Int], NEW h, NEW M,
         DOMAIN t = DOMAIN s, M \in SUBSET DOMAIN s,
         \A i \in DOMAIN s \ M : t[i] = s[i],
         \A i \in M : h[i] = W[t[i]] - W[s[i]]
  PROVE  Weigh(t, W) = Weigh(s, W) + Total(h, M)
  <1> DEFINE D == DOMAIN s
             f == Weights(s, W)
             g == Weights(t, W)
  <1>1. Summands(f, D) /\ Summands(g, D)
    BY Weighable
  <1>2. \A i \in D : f[i] = W[s[i]] /\ g[i] = W[t[i]]
    BY DEF Weights
  <1> HIDE DEF f, g
  <1>3. (\A i \in D \ M : g[i] = f[i]) /\ \A i \in M : h[i] = g[i] - f[i]
    BY <1>2
  <1>4. Total(g, D) = Total(f, D) + Total(h, M)
    BY <1>1, <1>3, TotalMarked
  <1> QED
    BY <1>4 DEF Weigh, f, g

(***************************************************************************)
(* Sums over the trades of all orders.  A trade weighs by its order and by *)
(* whether its fee was bought.                                             *)
(***************************************************************************)
BookTrade == [time : Nat, bought : BOOLEAN]
BookOrder == [account : Accounts, type : {"BID", "ASK"}, trades : Seq(BookTrade)]
BookOrders == {orders \in Seq(BookOrder) :
                 \A i \in DOMAIN orders : Len(orders[i].trades) <= MaxBookTrades}

Rows(orders) == {row \in (DOMAIN orders) \X (1..MaxBookTrades) :
                   row[2] \in DOMAIN orders[row[1]].trades}
Kind(order, bought) == [account |-> order.account, type |-> order.type, bought |-> bought]
Kinds == [account : Accounts, type : {"BID", "ASK"}, bought : BOOLEAN]
RowKind(orders, row) == Kind(orders[row[1]], orders[row[1]].trades[row[2]].bought)
RowWeights(orders, V) == [row \in Rows(orders) |-> V[RowKind(orders, row)]]
WeighRows(orders, V) == Total(RowWeights(orders, V), Rows(orders))

\* What is in the orders of a book.
LEMMA OrdersAre ==
  ASSUME NEW orders \in BookOrders
  PROVE  /\ orders \in Seq(BookOrder) /\ Len(orders) \in Nat /\ DOMAIN orders = 1..Len(orders)
         /\ \A i \in DOMAIN orders :
              /\ orders[i] \in BookOrder
              /\ orders[i].account \in Accounts /\ orders[i].type \in {"BID", "ASK"}
              /\ orders[i].trades \in Seq(BookTrade)
              /\ Len(orders[i].trades) \in Nat /\ Len(orders[i].trades) <= MaxBookTrades
              /\ DOMAIN orders[i].trades = 1..Len(orders[i].trades)
              /\ \A k \in DOMAIN orders[i].trades : orders[i].trades[k] \in BookTrade
  <1>1. orders \in Seq(BookOrder)
    BY DEF BookOrders
  <1>2. Len(orders) \in Nat /\ DOMAIN orders = 1..Len(orders)
        /\ \A i \in DOMAIN orders : orders[i] \in BookOrder
    BY <1>1, LenProperties, ElementOfSeq
  <1> SUFFICES ASSUME NEW i \in DOMAIN orders
               PROVE  /\ orders[i].account \in Accounts /\ orders[i].type \in {"BID", "ASK"}
                      /\ orders[i].trades \in Seq(BookTrade)
                      /\ Len(orders[i].trades) \in Nat /\ Len(orders[i].trades) <= MaxBookTrades
                      /\ DOMAIN orders[i].trades = 1..Len(orders[i].trades)
                      /\ \A k \in DOMAIN orders[i].trades : orders[i].trades[k] \in BookTrade
    BY <1>1, <1>2
  <1>3. orders[i].account \in Accounts /\ orders[i].type \in {"BID", "ASK"}
        /\ orders[i].trades \in Seq(BookTrade)
    BY <1>2 DEF BookOrder
  <1>4. PICK trades \in Seq(BookTrade) : trades = orders[i].trades
    BY <1>3
  <1>5. Len(trades) \in Nat /\ DOMAIN trades = 1..Len(trades)
        /\ \A k \in DOMAIN trades : trades[k] \in BookTrade
    BY LenProperties, ElementOfSeq
  <1> QED
    BY <1>3, <1>4, <1>5 DEF BookOrders

\* The rows of the trades are finitely many, each of an order and a trade of it.
LEMMA RowsAre ==
  ASSUME NEW orders \in BookOrders
  PROVE  /\ IsFiniteSet(Rows(orders))
         /\ \A row \in Rows(orders) : /\ row[1] \in DOMAIN orders
                                      /\ row[2] \in DOMAIN orders[row[1]].trades
                                      /\ row = <<row[1], row[2]>>
                                      /\ RowKind(orders, row) \in Kinds
         /\ \A i \in DOMAIN orders : \A k \in DOMAIN orders[i].trades : <<i, k>> \in Rows(orders)
  <1>1. IsFiniteSet((DOMAIN orders) \X (1..MaxBookTrades))
    <2>1. IsFiniteSet(1..MaxBookTrades)
      BY BooksAssumption, FS_Interval
    <2>2. IsFiniteSet(DOMAIN orders)
      <3>1. DOMAIN orders = 1..Len(orders) /\ Len(orders) \in Nat
        BY OrdersAre
      <3> QED
        BY <3>1, FS_Interval
    <2> QED
      BY <2>1, <2>2, FS_Product
  <1>2. IsFiniteSet(Rows(orders))
    BY <1>1, FS_Subset DEF Rows
  <1>3. ASSUME NEW row \in Rows(orders)
        PROVE  /\ row[1] \in DOMAIN orders
               /\ row[2] \in DOMAIN orders[row[1]].trades
               /\ row = <<row[1], row[2]>>
               /\ RowKind(orders, row) \in Kinds
    <2>1. row[1] \in DOMAIN orders /\ row[2] \in DOMAIN orders[row[1]].trades
          /\ row = <<row[1], row[2]>>
      BY DEF Rows
    <2>2. orders[row[1]].account \in Accounts /\ orders[row[1]].type \in {"BID", "ASK"}
          /\ orders[row[1]].trades[row[2]].bought \in BOOLEAN
      BY <2>1, OrdersAre DEF BookTrade
    <2> QED
      BY <2>1, <2>2 DEF RowKind, Kind, Kinds
  <1>4. ASSUME NEW i \in DOMAIN orders, NEW k \in DOMAIN orders[i].trades
        PROVE  <<i, k>> \in Rows(orders)
    <2>1. k \in 1..MaxBookTrades
      BY OrdersAre, BooksAssumption
    <2> QED
      BY <2>1 DEF Rows
  <1> QED
    BY <1>2, <1>3, <1>4

\* The trades of all orders have a weight.
LEMMA RowsWeighable ==
  ASSUME NEW orders \in BookOrders, NEW V \in [Kinds -> Int]
  PROVE  Summands(RowWeights(orders, V), Rows(orders)) /\ WeighRows(orders, V) \in Int
  <1>1. Summands(RowWeights(orders, V), Rows(orders))
    BY RowsAre DEF Summands, RowWeights
  <1> QED
    BY <1>1, TotalStep DEF WeighRows

\* Without an order there are no trades.
LEMMA NoRows ==
  ASSUME NEW V
  PROVE  <<>> \in BookOrders /\ WeighRows(<<>>, V) = 0
  <1>1. Rows(<<>>) = {}
    BY DEF Rows
  <1>2. Summands(RowWeights(<<>>, V), {})
    BY FS_EmptySet DEF Summands
  <1>3. <<>> \in Seq(BookOrder) /\ DOMAIN <<>> = {}
    BY EmptySeq
  <1>4. WeighRows(<<>>, V) = 0
    BY <1>1, <1>2, TotalStep DEF WeighRows
  <1> QED
    BY <1>3, <1>4 DEF BookOrders

\* A new order with one trade.
LEMMA RowsMore ==
  ASSUME NEW orders \in BookOrders, NEW o \in BookOrder, Len(o.trades) = 1,
         ~o.trades[1].bought, NEW V \in [Kinds -> Int]
  PROVE  /\ Append(orders, o) \in BookOrders
         /\ WeighRows(Append(orders, o), V) = WeighRows(orders, V) + V[Kind(o, FALSE)]
  <1> DEFINE new == Append(orders, o)
             n == Len(orders)
             x == <<n + 1, 1>>
             f == RowWeights(orders, V)
             g == RowWeights(new, V)
             E == Rows(new)
  <1>1. /\ new \in Seq(BookOrder) /\ n \in Nat /\ DOMAIN orders = 1..n
        /\ DOMAIN new = (DOMAIN orders) \cup {n + 1} /\ n + 1 \notin DOMAIN orders
        /\ \A i \in DOMAIN orders : new[i] = orders[i]
        /\ new[n + 1] = o
    BY OrdersAre, AppendIs
  <1>2. DOMAIN o.trades = {1} /\ 1 \in 1..MaxBookTrades
    <2>1. PICK trades \in Seq(BookTrade) : trades = o.trades
      BY DEF BookOrder
    <2>2. DOMAIN trades = 1..1
      BY <2>1, LenProperties
    <2> QED
      BY <2>1, <2>2, BooksAssumption
  <1>3. new \in BookOrders
    <2> HIDE DEF new, n
    <2>1. \A i \in DOMAIN new : Len(new[i].trades) <= MaxBookTrades
      <3>1. \A i \in DOMAIN orders : Len(new[i].trades) <= MaxBookTrades
        BY <1>1, OrdersAre
      <3>2. Len(new[n + 1].trades) <= MaxBookTrades
        <4>1. new[n + 1] = o /\ Len(o.trades) = 1
          BY <1>1
        <4>2. 1 <= MaxBookTrades
          BY BooksAssumption
        <4> QED
          BY <4>1, <4>2
      <3> QED
        BY <1>1, <3>1, <3>2
    <2> QED
      BY <1>1, <2>1 DEF BookOrders
  <1> HIDE DEF new, n
  <1>4. x \in E /\ Rows(orders) = Without(E, x)
    BY <1>1, <1>2 DEF Rows, Without
  <1>5. \A row \in Rows(orders) : row \in E /\ g[row] = f[row]
    <2>1. SUFFICES ASSUME NEW row \in Rows(orders) PROVE row \in E /\ g[row] = f[row]
      OBVIOUS
    <2>2. row \in E
      BY <1>4 DEF Without
    <2>3. new[row[1]] = orders[row[1]]
      BY <1>1, RowsAre
    <2> QED
      BY <2>2, <2>3 DEF RowWeights, RowKind
  <1>6. g[x] = V[Kind(o, FALSE)] /\ g[x] \in Int
    <2>1. g[x] = V[RowKind(new, x)]
      BY <1>4 DEF RowWeights
    <2>2. RowKind(new, x) = Kind(o, o.trades[1].bought)
      BY <1>1 DEF RowKind
    <2>3. o.trades[1].bought = FALSE
      <3>1. PICK trades \in Seq(BookTrade) : trades = o.trades
        BY DEF BookOrder
      <3>2. trades[1] \in BookTrade
        BY <3>1, ElementOfSeq
      <3> QED
        BY <3>1, <3>2 DEF BookTrade
    <2>4. RowKind(new, x) \in Kinds
      BY <1>3, <1>4, RowsAre
    <2> QED
      BY <2>1, <2>2, <2>3, <2>4
  <1>7. Summands(f, Rows(orders))
    BY RowsWeighable
  <1> HIDE DEF f, g, E, x
  <1>8. Total(g, E) = Total(f, Without(E, x)) + g[x]
    <2>1. Summands(f, Without(E, x)) /\ \A row \in Without(E, x) : g[row] = f[row]
      BY <1>4, <1>5, <1>7
    <2>2. x \in E /\ g[x] \in Int
      BY <1>4, <1>6
    <2> QED
      BY <2>1, <2>2, TotalWithOneMore
  <1>9. Total(g, E) = Total(f, Rows(orders)) + V[Kind(o, FALSE)]
    BY <1>4, <1>6, <1>8
  <1> QED
    BY <1>3, <1>9 DEF WeighRows, f, g, E, new

\* The trades of an order are replaced by unbought ones, as many or one more.
BoughtOf(orders, i) == {row \in Rows(orders) : row[1] = i /\ orders[i].trades[row[2]].bought}
WithTrades(orders, i, ts) == [orders EXCEPT ![i].trades = ts]

\* The rows, and their kinds, when an order has its trades entered anew.
LEMMA RowsReplaced ==
  ASSUME NEW orders \in BookOrders, NEW i \in DOMAIN orders, NEW ts \in Seq(BookTrade),
         \A k \in DOMAIN ts : ~ts[k].bought, Len(ts) <= MaxBookTrades,
         Len(ts) \in {Len(orders[i].trades), Len(orders[i].trades) + 1}
  PROVE  LET new == WithTrades(orders, i, ts)
             x == <<i, Len(ts)>>
         IN  /\ new \in BookOrders /\ DOMAIN new = DOMAIN orders
             /\ Rows(orders) \subseteq Rows(new)
             /\ \A row \in Rows(orders) :
                  RowKind(new, row) = IF row[1] = i THEN Kind(orders[i], FALSE)
                                                    ELSE RowKind(orders, row)
             /\ Len(ts) = Len(orders[i].trades) => Rows(new) = Rows(orders)
             /\ Len(ts) # Len(orders[i].trades) =>
                  /\ x \in Rows(new) /\ Rows(orders) = Without(Rows(new), x)
                  /\ RowKind(new, x) = Kind(orders[i], FALSE)
  <1> DEFINE new == WithTrades(orders, i, ts)
             o == [orders[i] EXCEPT !.trades = ts]
             n == Len(orders[i].trades)
             x == <<i, Len(ts)>>
  <1>1. /\ orders \in Seq(BookOrder) /\ i \in 1..Len(orders) /\ orders[i] \in BookOrder
        /\ n \in Nat /\ DOMAIN orders[i].trades = 1..n
    BY OrdersAre
  <1>2. /\ o \in BookOrder /\ o.account = orders[i].account /\ o.type = orders[i].type
        /\ o.trades = ts
    BY <1>1 DEF BookOrder
  <1>3. new = [orders EXCEPT ![i] = o]
    BY DEF WithTrades
  <1>4. Len(ts) \in Nat /\ DOMAIN ts = 1..Len(ts) /\ \A k \in DOMAIN ts : ts[k].bought = FALSE
    <2>1. Len(ts) \in Nat /\ DOMAIN ts = 1..Len(ts) /\ \A k \in DOMAIN ts : ts[k] \in BookTrade
      BY LenProperties, ElementOfSeq
    <2>2. \A k \in DOMAIN ts : ts[k].bought \in BOOLEAN
      BY <2>1 DEF BookTrade
    <2> QED
      BY <2>1, <2>2
  <1> HIDE DEF new, o, n
  <1>5. /\ new \in Seq(BookOrder) /\ DOMAIN new = DOMAIN orders
        /\ new[i] = o /\ \A j \in DOMAIN orders : j # i => new[j] = orders[j]
    <2>1. new \in Seq(BookOrder)
      BY <1>1, <1>2, <1>3, ExceptSeq
    <2> QED
      BY <1>3, <2>1
  <1>6. new \in BookOrders
    <2>1. \A j \in DOMAIN orders : Len(new[j].trades) <= MaxBookTrades
      BY <1>2, <1>5, OrdersAre
    <2> QED
      BY <1>5, <2>1 DEF BookOrders
  <1>7. Len(ts) \in {n, n + 1}
    BY DEF n
  <1>8. \A j \in DOMAIN orders : DOMAIN new[j].trades = IF j = i THEN 1..Len(ts)
                                                        ELSE DOMAIN orders[j].trades
    BY <1>2, <1>4, <1>5
  <1>9. Rows(orders) \subseteq Rows(new)
    <2>1. SUFFICES ASSUME NEW row \in Rows(orders) PROVE row \in Rows(new)
      OBVIOUS
    <2>2. row[1] \in DOMAIN orders /\ row[2] \in DOMAIN orders[row[1]].trades
          /\ row \in (DOMAIN orders) \X (1..MaxBookTrades)
      BY DEF Rows
    <2>3. row[2] \in DOMAIN new[row[1]].trades
      <3>1. CASE row[1] = i
        <4>1. row[2] \in 1..n /\ DOMAIN new[row[1]].trades = 1..Len(ts)
          BY <1>1, <1>8, <2>2, <3>1
        <4>2. row[2] \in 1..Len(ts)
          <5>1. PICK m \in Nat : m = Len(ts)
            BY <1>4
          <5>2. PICK k : k = row[2]
            OBVIOUS
          <5>3. k \in 1..n /\ (m = n \/ m = n + 1) /\ n \in Nat
            BY <1>1, <1>7, <4>1, <5>1, <5>2
          <5>4. k \in 1..m
            BY <5>3
          <5> QED
            BY <5>1, <5>2, <5>4
        <4> QED
          BY <4>1, <4>2
      <3>2. CASE row[1] # i
        BY <1>8, <2>2, <3>2
      <3> QED
        BY <3>1, <3>2
    <2> QED
      BY <1>5, <2>2, <2>3 DEF Rows
  <1>10. ASSUME NEW row \in Rows(new), row[1] = i
         PROVE  RowKind(new, row) = Kind(orders[i], FALSE)
    <2>1. row[2] \in DOMAIN ts
      BY <1>2, <1>5, <1>10 DEF Rows
    <2> QED
      BY <1>2, <1>4, <1>5, <1>10, <2>1 DEF RowKind, Kind
  <1>11. ASSUME NEW row \in Rows(orders), row[1] # i
         PROVE  RowKind(new, row) = RowKind(orders, row)
    <2>1. new[row[1]] = orders[row[1]]
      BY <1>5, <1>11, RowsAre
    <2> QED
      BY <2>1 DEF RowKind
  <1>12. ASSUME NEW row \in Rows(new), row \notin Rows(orders)
         PROVE  Len(ts) = n + 1 /\ row = x
    <2>1. row \in (DOMAIN orders) \X (1..MaxBookTrades) /\ row[2] \in DOMAIN new[row[1]].trades
          /\ row[1] \in DOMAIN orders /\ row = <<row[1], row[2]>>
      BY <1>5 DEF Rows
    <2>2. row[2] \notin DOMAIN orders[row[1]].trades
      BY <1>12, <2>1 DEF Rows
    <2>3. row[1] = i /\ row[2] \in 1..Len(ts) /\ row[2] \notin 1..n
      BY <1>1, <1>8, <2>1, <2>2
    <2>4. Len(ts) = n + 1 /\ row[2] = n + 1
      <3>1. PICK k : k = row[2]
        OBVIOUS
      <3>2. PICK m \in Nat : m = Len(ts)
        BY <1>4
      <3>3. k \in 1..m /\ k \notin 1..n /\ (m = n \/ m = n + 1) /\ n \in Nat
        BY <1>1, <1>7, <2>3, <3>1, <3>2
      <3>4. m = n + 1 /\ k = n + 1
        BY <3>3
      <3> QED
        BY <3>1, <3>2, <3>4
    <2> QED
      BY <2>1, <2>3, <2>4
  <1>13. Len(ts) # n => x \in Rows(new) /\ x \notin Rows(orders)
    <2>1. SUFFICES ASSUME Len(ts) # n PROVE x \in Rows(new) /\ x \notin Rows(orders)
      OBVIOUS
    <2>2. Len(ts) = n + 1 /\ Len(ts) \in 1..MaxBookTrades
      BY <1>1, <1>7, <2>1, BooksAssumption
    <2>3. Len(ts) \in 1..Len(ts) /\ Len(ts) \notin 1..n
      BY <1>1, <1>4, <2>2
    <2> QED
      BY <1>1, <1>5, <1>8, <2>2, <2>3 DEF Rows
  <1>14. \A row \in Rows(orders) :
           RowKind(new, row) = IF row[1] = i THEN Kind(orders[i], FALSE)
                                             ELSE RowKind(orders, row)
    BY <1>9, <1>10, <1>11
  <1>15. Len(ts) = n => Rows(new) = Rows(orders)
    <2>1. n + 1 # n
      BY <1>1
    <2> QED
      BY <1>9, <1>12, <2>1
  <1>16. Len(ts) # n =>
           /\ x \in Rows(new) /\ Rows(orders) = Without(Rows(new), x)
           /\ RowKind(new, x) = Kind(orders[i], FALSE)
    <2>1. x[1] = i
      OBVIOUS
    <2> HIDE DEF x
    <2> QED
      BY <1>9, <1>10, <1>12, <1>13, <2>1 DEF Without
  <1> QED
    BY <1>5, <1>6, <1>9, <1>14, <1>15, <1>16 DEF new, n

\* Some of the rows weigh something else than before.
LEMMA RowsDiffer ==
  ASSUME NEW orders \in BookOrders, NEW new \in BookOrders, NEW V \in [Kinds -> Int],
         NEW M, NEW h, Rows(orders) \subseteq Rows(new), M \in SUBSET Rows(orders),
         \A row \in Rows(orders) \ M : RowWeights(new, V)[row] = RowWeights(orders, V)[row],
         \A row \in M : h[row] = RowWeights(new, V)[row] - RowWeights(orders, V)[row]
  PROVE  /\ Summands(h, M)
         /\ Total(RowWeights(new, V), Rows(orders)) = WeighRows(orders, V) + Total(h, M)
  <1> DEFINE D == Rows(orders)
             f == RowWeights(orders, V)
             g == RowWeights(new, V)
  <1>1. Summands(f, D) /\ Summands(g, D)
    <2>1. Summands(f, D) /\ Summands(g, Rows(new)) /\ D \subseteq Rows(new)
      BY RowsWeighable
    <2> QED
      BY <2>1, TotalSplit
  <1>2. /\ M \in SUBSET D
        /\ \A row \in D \ M : g[row] = f[row]
        /\ \A row \in M : h[row] = g[row] - f[row]
    OBVIOUS
  <1> HIDE DEF f, g, D
  <1>3. Summands(h, M) /\ Total(g, D) = Total(f, D) + Total(h, M)
    BY <1>1, <1>2, TotalMarked
  <1> QED
    BY <1>3 DEF WeighRows, f, g, D

\* The weight of all trades when an order has its trades entered anew: every
\* fee that was bought back and is outstanding again weighs, and a trade more.
LEMMA RowsAgain ==
  ASSUME NEW orders \in BookOrders, NEW i \in DOMAIN orders, NEW ts \in Seq(BookTrade),
         \A k \in DOMAIN ts : ~ts[k].bought, Len(ts) <= MaxBookTrades,
         Len(ts) \in {Len(orders[i].trades), Len(orders[i].trades) + 1},
         NEW V \in [Kinds -> Int], NEW d \in {0, 1},
         V[Kind(orders[i], FALSE)] = V[Kind(orders[i], TRUE)] + d
  PROVE  WeighRows(WithTrades(orders, i, ts), V)
           = WeighRows(orders, V)
               + (IF Len(ts) = Len(orders[i].trades) THEN 0 ELSE V[Kind(orders[i], FALSE)])
               + (IF d = 0 THEN 0 ELSE Cardinality(BoughtOf(orders, i)))
  <1> DEFINE new == WithTrades(orders, i, ts)
             n == Len(orders[i].trades)
             x == <<i, Len(ts)>>
             D == Rows(orders)
             E == Rows(new)
             M == BoughtOf(orders, i)
             f == RowWeights(orders, V)
             g == RowWeights(new, V)
             h == [row \in M |-> d]
             unbought == V[Kind(orders[i], FALSE)]
  <1>1. /\ new \in BookOrders /\ D \subseteq E /\ M \subseteq D
        /\ \A row \in D : RowKind(new, row) = IF row[1] = i THEN Kind(orders[i], FALSE)
                                                           ELSE RowKind(orders, row)
        /\ Len(ts) = n => E = D
        /\ Len(ts) # n => /\ x \in E /\ D = Without(E, x)
                          /\ RowKind(new, x) = Kind(orders[i], FALSE)
    BY RowsReplaced DEF BoughtOf
  <1> HIDE DEF new
  <1>2. Summands(f, D) /\ Summands(g, E)
    BY <1>1, RowsWeighable
  <1>3. \A row \in D : f[row] = V[RowKind(orders, row)] /\ g[row] = V[RowKind(new, row)]
    BY <1>1 DEF RowWeights
  <1>4. \A row \in D \ M : g[row] = f[row]
    <2>1. SUFFICES ASSUME NEW row \in D, row \notin M PROVE g[row] = f[row]
      OBVIOUS
    <2>2. CASE row[1] = i
      <3>1. ~orders[i].trades[row[2]].bought /\ row[2] \in DOMAIN orders[i].trades
        BY <2>1, <2>2, RowsAre DEF BoughtOf
      <3>2. orders[i].trades[row[2]].bought = FALSE
        <4>1. orders[i].trades[row[2]].bought \in BOOLEAN
          BY <3>1, OrdersAre DEF BookTrade
        <4> QED
          BY <3>1, <4>1
      <3>3. RowKind(orders, row) = Kind(orders[i], FALSE)
        BY <2>2, <3>2 DEF RowKind
      <3> QED
        BY <1>1, <1>3, <2>2, <3>3
    <2>3. CASE row[1] # i
      BY <1>1, <1>3, <2>3
    <2> QED
      BY <2>2, <2>3
  <1>5. \A row \in M : h[row] = g[row] - f[row]
    <2>1. SUFFICES ASSUME NEW row \in M PROVE d = g[row] - f[row]
      OBVIOUS
    <2>2. row \in D /\ row[1] = i /\ orders[i].trades[row[2]].bought
          /\ row[2] \in DOMAIN orders[i].trades
      BY RowsAre DEF BoughtOf
    <2>3. orders[i].trades[row[2]].bought = TRUE
      <3>1. orders[i].trades[row[2]].bought \in BOOLEAN
        BY <2>2, OrdersAre DEF BookTrade
      <3> QED
        BY <2>2, <3>1
    <2>4. RowKind(orders, row) = Kind(orders[i], TRUE)
      BY <2>2, <2>3 DEF RowKind
    <2>5. g[row] = V[Kind(orders[i], FALSE)] /\ f[row] = V[Kind(orders[i], TRUE)]
      BY <1>1, <1>3, <2>2, <2>4
    <2>6. f[row] \in Int
      BY <1>2, <2>2 DEF Summands
    <2>7. PICK a \in Int : a = f[row]
      BY <2>6
    <2>8. PICK b : b = g[row]
      OBVIOUS
    <2>9. b = a + d
      BY <2>5, <2>7, <2>8
    <2>10. d = b - a
      BY <2>9
    <2> QED
      BY <2>7, <2>8, <2>10
  <1>6. Total(h, M) = IF d = 0 THEN 0 ELSE Cardinality(M)
    <2>1. IsFiniteSet(M)
      BY <1>1, RowsAre, FS_Subset
    <2>2. CASE d = 0
      <3>1. Summands(h, M) /\ Summands(h, {}) /\ \A row \in M \ {} : h[row] = 0
        BY <2>1, <2>2, FS_EmptySet DEF Summands
      <3> HIDE DEF h
      <3>2. Total(h, M) = Total(h, {}) /\ Total(h, {}) = 0
        BY <3>1, TotalOfPart, TotalStep
      <3> QED
        BY <2>2, <3>2
    <2>3. CASE d = 1
      <3>1. \A row \in M : h[row] = 1
        BY <2>3
      <3> HIDE DEF h
      <3> QED
        BY <2>1, <2>3, <3>1, TotalOfOnes
    <2> QED
      BY <2>2, <2>3
  <1>7. Summands(h, M) /\ Total(g, D) = Total(f, D) + Total(h, M)
    <2>1. M \in SUBSET D
      BY <1>1
    <2> HIDE DEF h, M
    <2>2. Summands(h, M) /\ Total(g, D) = WeighRows(orders, V) + Total(h, M)
      BY <1>1, <1>4, <1>5, <2>1, RowsDiffer
    <2> QED
      BY <2>2 DEF WeighRows
  <1> HIDE DEF f, g, h, D, E, M, x
  <1>8. Summands(g, D)
    BY <1>1, <1>2, TotalSplit
  <1>9. Total(g, E) = Total(g, D) + (IF Len(ts) = n THEN 0 ELSE unbought)
    <2>1. Total(g, D) \in Int
      BY <1>8, TotalStep
    <2>2. CASE Len(ts) = n
      BY <1>1, <2>1, <2>2
    <2>3. CASE Len(ts) # n
      <3>1. x \in E /\ D = Without(E, x)
        BY <1>1, <2>3
      <3>2. g[x] = unbought /\ g[x] \in Int
        BY <1>1, <1>2, <2>3 DEF g, E, RowWeights, Summands
      <3>3. Total(g, E) = g[x] + Total(g, E \ {x})
        BY <1>2, <3>1, TotalWithout
      <3>4. E \ {x} = D
        BY <3>1 DEF Without
      <3>5. unbought \in Int
        BY <3>2
      <3> HIDE DEF unbought, n
      <3>6. Total(g, E) = unbought + Total(g, D)
        BY <3>2, <3>3, <3>4
      <3>7. Total(g, E) = Total(g, D) + unbought
        BY <2>1, <3>5, <3>6
      <3> QED
        BY <2>3, <3>7
    <2> QED
      BY <2>2, <2>3
  <1>10. Total(f, D) \in Int /\ Total(h, M) \in Int
    BY <1>2, <1>7, TotalStep
  <1>11. unbought \in Int
    BY RowsWeighable, OrdersAre DEF Kinds, Kind
  <1> HIDE DEF unbought, n
  <1>12. Total(g, E) = Total(f, D) + (IF Len(ts) = n THEN 0 ELSE unbought)
                         + (IF d = 0 THEN 0 ELSE Cardinality(M))
    BY <1>6, <1>7, <1>9, <1>10, <1>11
  <1> QED
    BY <1>12 DEF WeighRows, f, g, D, E, M, n, unbought, new

Currencies == {"BTC", "USD"}
Money == [Currencies -> Int]

BookTransaction ==
  [account : Accounts, type : {"DEPOSIT", "WITHDRAWL"}, status : {"IN_TRANSIT", "COMPLETED"},
   amount : Money, fee : Money, created : Nat, completed : Nat, bought : BOOLEAN, drift : BOOLEAN]

\* What a trade and a transaction add to the balance of an account.
TradeIn(a, c) == [k \in Kinds |-> IF k.account = a THEN TradePosition(k)[c] ELSE 0]
MoveIn(a, c) ==
  [t \in BookTransaction |->
     IF t.account = a /\ t.status = "COMPLETED" THEN TransactionPosition(t)[c] ELSE 0]

\* What they leave to be explained, in coins: fees not bought back and what is
\* in transit, less what was traded and entered as drift.
TradeLeft ==
  [k \in Kinds |-> (IF k.bought THEN 0 ELSE TradeFee(k.account).BTC)
                     - (IF k.type = "BID" THEN Volume.BTC ELSE -Volume.BTC)]
MoveLeft ==
  [t \in BookTransaction |-> (IF t.bought THEN 0 ELSE t.fee.BTC)
                               + (IF t.status = "IN_TRANSIT" THEN t.amount.BTC - t.fee.BTC ELSE 0)
                               - (IF t.drift THEN TransactionPosition(t).BTC ELSE 0)]

\* Amounts in a single currency.
LEMMA MoneyIs ==
  /\ \A n \in Int : Coins(n) \in Money /\ Coins(n)["BTC"] = n /\ Coins(n)["USD"] = 0
  /\ \A n \in Int : Dollars(n) \in Money /\ Dollars(n)["BTC"] = 0 /\ Dollars(n)["USD"] = n
  /\ NoMoney \in Money /\ \A c \in Currencies : NoMoney[c] = 0
  BY DEF Coins, Dollars, NoMoney, Money, Currencies

\* Sums and differences of money.
LEMMA MoneyAdds ==
  ASSUME NEW a \in Money, NEW b \in Money
  PROVE  /\ Plus(a, b) \in Money /\ Minus(a, b) \in Money
         /\ \A c \in Currencies : /\ a[c] \in Int
                                  /\ Plus(a, b)[c] = a[c] + b[c]
                                  /\ Minus(a, b)[c] = a[c] - b[c]
  BY DEF Plus, Minus, Money, Currencies

\* The amounts of trades.
LEMMA TradeMoney ==
  /\ Volume \in Money /\ Price \in Money
  /\ \A a : TradeFee(a) \in Money /\ TradeFee(a)["BTC"] \in {0, 1}
            /\ WithdrawalFee(a) \in Money
  /\ Volume["BTC"] = 10 /\ Price["BTC"] = 0
  <1>1. Volume \in Money /\ Price \in Money /\ Volume["BTC"] = 10 /\ Price["BTC"] = 0
    BY MoneyIs DEF Volume, Price
  <1>2. ASSUME NEW a PROVE TradeFee(a) \in Money /\ TradeFee(a)["BTC"] \in {0, 1}
    <2>1. Dollars(3) \in Money /\ Dollars(3)["BTC"] = 0 /\ Coins(1) \in Money /\ Coins(1)["BTC"] = 1
      BY MoneyIs
    <2> QED
      BY <2>1 DEF TradeFee
  <1>3. ASSUME NEW a PROVE WithdrawalFee(a) \in Money
    <2>1. NoMoney \in Money /\ Coins(2) \in Money
      BY MoneyIs
    <2> QED
      BY <2>1 DEF WithdrawalFee
  <1> QED
    BY <1>1, <1>2, <1>3

\* The position of a trade, which is the same for its kind, bought or not.
LEMMA TradePositionIs ==
  ASSUME NEW o
  PROVE  /\ TradePosition(o) \in Money
         /\ TradePosition(o)["BTC"] = (IF o.type = "BID" THEN Volume["BTC"] ELSE -Volume["BTC"])
                                        - TradeFee(o.account)["BTC"]
         /\ \A b : TradePosition(Kind(o, b)) = TradePosition(o)
  <1> DEFINE gained == IF o.type = "BID" THEN Minus(Volume, Price) ELSE Minus(Price, Volume)
             fee == TradeFee(o.account)
  <1>1. "BTC" \in Currencies
    BY DEF Currencies
  <1>2. /\ Minus(Volume, Price) \in Money /\ Minus(Price, Volume) \in Money
        /\ Minus(Volume, Price)["BTC"] = Volume["BTC"] - Price["BTC"]
        /\ Minus(Price, Volume)["BTC"] = Price["BTC"] - Volume["BTC"]
    BY <1>1, TradeMoney, MoneyAdds
  <1>3. gained \in Money /\ gained["BTC"] = IF o.type = "BID" THEN Volume["BTC"] ELSE -Volume["BTC"]
    BY <1>2, TradeMoney
  <1>4. fee \in Money
    BY TradeMoney
  <1>5. TradePosition(o) = Minus(gained, fee)
    BY DEF TradePosition
  <1>6. \A b : TradePosition(Kind(o, b)) = TradePosition(o)
    BY DEF TradePosition, Kind
  <1> HIDE DEF gained, fee
  <1>7. TradePosition(o) \in Money /\ TradePosition(o)["BTC"] = gained["BTC"] - fee["BTC"]
    BY <1>1, <1>3, <1>4, <1>5, MoneyAdds
  <1> QED
    BY <1>3, <1>6, <1>7 DEF fee

\* What a transaction does to the balance.
LEMMA MovePositionIs ==
  ASSUME NEW t, t.amount \in Money, t.fee \in Money
  PROVE  /\ TransactionPosition(t) \in Money
         /\ \A c \in Currencies :
              TransactionPosition(t)[c] = (IF t.type = "DEPOSIT" THEN t.amount[c] ELSE -t.amount[c])
                                            - t.fee[c]
  <1> DEFINE m == IF t.type = "DEPOSIT" THEN t.amount ELSE Minus(NoMoney, t.amount)
  <1>1. Minus(NoMoney, t.amount) \in Money
        /\ \A c \in Currencies : Minus(NoMoney, t.amount)[c] = -t.amount[c]
    <2>1. NoMoney \in Money /\ \A c \in Currencies : NoMoney[c] = 0
      BY MoneyIs
    <2>2. Minus(NoMoney, t.amount) \in Money
          /\ \A c \in Currencies : Minus(NoMoney, t.amount)[c] = NoMoney[c] - t.amount[c]
      BY <2>1, MoneyAdds
    <2>3. \A c \in Currencies : t.amount[c] \in Int
      BY DEF Money
    <2> QED
      BY <2>1, <2>2, <2>3
  <1>2. m \in Money /\ \A c \in Currencies :
                         m[c] = IF t.type = "DEPOSIT" THEN t.amount[c] ELSE -t.amount[c]
    BY <1>1
  <1>3. TransactionPosition(t) = Minus(m, t.fee)
    BY DEF TransactionPosition
  <1> HIDE DEF m
  <1>4. Minus(m, t.fee) \in Money /\ \A c \in Currencies : Minus(m, t.fee)[c] = m[c] - t.fee[c]
    BY <1>2, MoneyAdds
  <1> QED
    BY <1>2, <1>3, <1>4

\* All weights are numbers.
LEMMA WeightsAre ==
  /\ \A a : \A c \in Currencies :
        TradeIn(a, c) \in [Kinds -> Int] /\ MoveIn(a, c) \in [BookTransaction -> Int]
  /\ TradeLeft \in [Kinds -> Int] /\ MoveLeft \in [BookTransaction -> Int]
  <1>1. "BTC" \in Currencies
    BY DEF Currencies
  <1>2. ASSUME NEW a, NEW c \in Currencies
        PROVE  TradeIn(a, c) \in [Kinds -> Int]
    <2>1. \A k \in Kinds : TradePosition(k)[c] \in Int
      BY TradePositionIs DEF Money
    <2> QED
      BY <2>1 DEF TradeIn
  <1>3. ASSUME NEW t \in BookTransaction, NEW c \in Currencies
        PROVE  TransactionPosition(t)[c] \in Int /\ t.amount[c] \in Int /\ t.fee[c] \in Int
               /\ t.bought \in BOOLEAN
    <2>1. t.amount \in Money /\ t.fee \in Money /\ t.bought \in BOOLEAN
      BY DEF BookTransaction
    <2>2. TransactionPosition(t) \in Money
      BY <2>1, MovePositionIs
    <2> QED
      BY <2>1, <2>2 DEF Money
  <1>4. ASSUME NEW a, NEW c \in Currencies
        PROVE  MoveIn(a, c) \in [BookTransaction -> Int]
    BY <1>3 DEF MoveIn
  <1>5. TradeLeft \in [Kinds -> Int]
    <2>1. \A a : TradeFee(a).BTC \in Int /\ Volume.BTC \in Int
      BY TradeMoney
    <2> QED
      BY <2>1 DEF TradeLeft
  <1>6. MoveLeft \in [BookTransaction -> Int]
    <2>1. \A t \in BookTransaction : TransactionPosition(t).BTC \in Int /\ t.amount.BTC \in Int
                                     /\ t.fee.BTC \in Int
      BY <1>1, <1>3
    <2> QED
      BY <2>1 DEF MoveLeft
  <1> QED
    BY <1>2, <1>4, <1>5, <1>6

\* SumOf is a sum.
LEMMA SumOfIs ==
  ASSUME NEW f, NEW c \in Currencies
  PROVE  SumOf(f)[c] = Total(Parts(f, c), DOMAIN f)
  BY SumIsTotal DEF SumOf, SumParts, Currencies

MoveTypes == {"DEPOSIT", "WITHDRAWL"}

AskedRows == [trades : SUBSET (Nat \X Nat), transactions : SUBSET Nat, amount : Int,
              replaced : BOOLEAN]

\* What was entered was entered by now.  A withdrawal that is in transit moves
\* no coins.
EnteredTrades == [time : 1..today, bought : BOOLEAN]
EnteredMoves ==
  {t \in BookTransaction :
     /\ t.created \in 1..today
     /\ t.status = "COMPLETED" => t.completed \in 1..today
     /\ t.status = "IN_TRANSIT" /\ t.type = "WITHDRAWL" =>
          t.amount["BTC"] = 0 /\ t.fee["BTC"] = 0}
EnteredDebts == [started : 1..today, repaid : 0..today]

BooksTypeOK ==
  /\ bookOrders \in BookOrders
  /\ \A i \in DOMAIN bookOrders : bookOrders[i].trades \in Seq(EnteredTrades)
  /\ transactions \in Seq(EnteredMoves) /\ debts \in Seq(EnteredDebts)
  /\ balances \in [Accounts -> Money]
  /\ today \in Nat \ {0} /\ watchSince \in Nat
  /\ asked \in SUBSET AskedRows /\ paidAgain \in Int

\* The rows at the prompt, unless some were replaced, are still outstanding,
\* and the amount asked for is that of their fees.
TradeFeesOf(trades) == [row \in trades |-> TradeFee(bookOrders[row[1]].account)]
TransactionFeesOf(moves) == [i \in moves |-> transactions[i].fee]

AskedTrue ==
  \A rows \in asked : ~rows.replaced =>
    /\ rows.trades \subseteq OutstandingTrades
    /\ rows.transactions \subseteq OutstandingTransactions
    /\ rows.amount = SumOf(TradeFeesOf(rows.trades)).BTC
                       + SumOf(TransactionFeesOf(rows.transactions)).BTC

Accounted ==
  \A a \in Accounts : \A c \in Currencies :
    balances[a][c] = WeighRows(bookOrders, TradeIn(a, c)) + Weigh(transactions, MoveIn(a, c))

OwedCoins == Cardinality(Owed) * Debt["BTC"]

Explained ==
  Total(Parts(balances, "BTC"), Accounts) + WeighRows(bookOrders, TradeLeft)
      + Weigh(transactions, MoveLeft)
    = paidAgain + OwedCoins

BooksInv == BooksTypeOK /\ AskedTrue /\ Accounted /\ Explained

\* What is in the transactions.
LEMMA MovesAre ==
  ASSUME BooksTypeOK
  PROVE  /\ transactions \in Seq(BookTransaction)
         /\ DOMAIN transactions = 1..Len(transactions) /\ Len(transactions) \in Nat
         /\ \A i \in DOMAIN transactions : /\ transactions[i] \in BookTransaction
                                           /\ transactions[i] \in EnteredMoves
         /\ \A a : \A c \in Currencies : /\ Weigh(transactions, MoveIn(a, c)) \in Int
                                        /\ WeighRows(bookOrders, TradeIn(a, c)) \in Int
         /\ Weigh(transactions, MoveLeft) \in Int /\ WeighRows(bookOrders, TradeLeft) \in Int
  <1>1. EnteredMoves \subseteq BookTransaction
    BY DEF EnteredMoves
  <1>2. transactions \in Seq(EnteredMoves) /\ bookOrders \in BookOrders
    BY DEF BooksTypeOK
  <1>3. transactions \in Seq(BookTransaction)
    BY <1>1, <1>2, SeqMonotonic
  <1>4. /\ DOMAIN transactions = 1..Len(transactions) /\ Len(transactions) \in Nat
        /\ \A i \in DOMAIN transactions : transactions[i] \in EnteredMoves
    BY <1>2, LenProperties, ElementOfSeq
  <1>5. ASSUME NEW a, NEW c \in Currencies
        PROVE  /\ Weigh(transactions, MoveIn(a, c)) \in Int
               /\ WeighRows(bookOrders, TradeIn(a, c)) \in Int
    BY <1>2, <1>3, WeightsAre, Weighable, RowsWeighable
  <1>6. Weigh(transactions, MoveLeft) \in Int /\ WeighRows(bookOrders, TradeLeft) \in Int
    BY <1>2, <1>3, WeightsAre, Weighable, RowsWeighable
  <1> QED
    BY <1>1, <1>3, <1>4, <1>5, <1>6

\* The loans not repaid are finitely many, and some amount of coins.
LEMMA OwedIs ==
  ASSUME BooksTypeOK
  PROVE  IsFiniteSet(Owed) /\ OwedCoins \in Int /\ Debt \in Money /\ Debt["BTC"] \in Int
  <1>1. DOMAIN debts = 1..Len(debts) /\ Len(debts) \in Nat
    BY LenProperties DEF BooksTypeOK
  <1>2. IsFiniteSet(Owed)
    <2>1. IsFiniteSet(DOMAIN debts)
      BY <1>1, FS_Interval
    <2>2. Owed \subseteq DOMAIN debts
      BY DEF Owed
    <2> QED
      BY <2>1, <2>2, FS_Subset
  <1>3. Debt \in Money /\ Debt["BTC"] \in Int
    BY MoneyIs DEF Debt
  <1>4. Cardinality(Owed) \in Nat
    BY <1>2, FS_CardinalityType
  <1> QED
    BY <1>2, <1>3, <1>4 DEF OwedCoins

\* What a transaction in transit is, and what it leaves to be explained.
LEMMA TransitIs ==
  ASSUME today \in Nat
  PROVE  \A account \in Accounts, type \in MoveTypes, amount \in Money, fee \in Money :
           LET t == Transit(account, type, amount, fee)
           IN  /\ t \in BookTransaction
               /\ t.account = account /\ t.type = type /\ t.status = "IN_TRANSIT"
               /\ t.amount = amount /\ t.fee = fee /\ t.created = today
               /\ MoveLeft[t] = amount["BTC"]
  <1> SUFFICES ASSUME NEW account \in Accounts, NEW type \in MoveTypes,
                      NEW amount \in Money, NEW fee \in Money,
                      NEW t, t = Transit(account, type, amount, fee)
               PROVE  /\ t \in BookTransaction
                      /\ t.account = account /\ t.type = type /\ t.status = "IN_TRANSIT"
                      /\ t.amount = amount /\ t.fee = fee /\ t.created = today
                      /\ MoveLeft[t] = amount["BTC"]
    OBVIOUS
  <1>1. /\ t \in BookTransaction
        /\ t.account = account /\ t.type = type /\ t.status = "IN_TRANSIT"
        /\ t.amount = amount /\ t.fee = fee /\ t.created = today /\ t.drift = FALSE
        /\ t.bought = FALSE
    BY DEF Transit, BookTransaction, Never, MoveTypes
  <1>2. MoveLeft[t] = amount["BTC"]
    <2>1. MoveLeft[t] = fee["BTC"] + (amount["BTC"] - fee["BTC"]) - 0
      BY <1>1 DEF MoveLeft
    <2>2. fee["BTC"] \in Int /\ amount["BTC"] \in Int
      BY DEF Money, Currencies
    <2> QED
      BY <2>1, <2>2
  <1> QED
    BY <1>1, <1>2

\* What is in transit is not in any balance.
LEMMA PendingIs ==
  ASSUME NEW t \in BookTransaction, t.status = "IN_TRANSIT"
  PROVE  \A a : \A c \in Currencies : MoveIn(a, c)[t] = 0
  BY DEF MoveIn

\* What completing a transaction writes.
LEMMA CompleteIs ==
  ASSUME NEW t \in BookTransaction, today \in Nat
  PROVE  /\ Complete(t) \in BookTransaction
         /\ Complete(t).account = t.account /\ Complete(t).type = t.type
         /\ Complete(t).status = "COMPLETED" /\ Complete(t).completed = today
         /\ Complete(t).amount = t.amount /\ Complete(t).fee = t.fee
         /\ Complete(t).created = t.created /\ Complete(t).drift = t.drift
         /\ Complete(t).bought = t.bought
         /\ \A a : \A c \in Currencies :
              MoveIn(a, c)[Complete(t)] = IF a = t.account THEN TransactionPosition(t)[c] ELSE 0
         /\ t.status = "IN_TRANSIT" =>
              MoveLeft[Complete(t)] = MoveLeft[t] - (t.amount["BTC"] - t.fee["BTC"])
  <1> DEFINE d == Complete(t)
  <1>1. /\ d \in BookTransaction
        /\ d.account = t.account /\ d.type = t.type /\ d.status = "COMPLETED"
        /\ d.completed = today /\ d.amount = t.amount /\ d.fee = t.fee
        /\ d.created = t.created /\ d.drift = t.drift /\ d.bought = t.bought
    BY DEF Complete, BookTransaction
  <1> HIDE DEF d
  <1>2. TransactionPosition(d) = TransactionPosition(t)
    BY <1>1 DEF TransactionPosition
  <1>3. \A a : \A c \in Currencies :
          MoveIn(a, c)[d] = IF a = t.account THEN TransactionPosition(t)[c] ELSE 0
    BY <1>1, <1>2 DEF MoveIn
  <1>4. ASSUME t.status = "IN_TRANSIT"
        PROVE  MoveLeft[d] = MoveLeft[t] - (t.amount["BTC"] - t.fee["BTC"])
    <2>1. t.amount \in Money /\ t.fee \in Money
      BY DEF BookTransaction
    <2>2. t.amount["BTC"] \in Int /\ t.fee["BTC"] \in Int
      BY <2>1 DEF Money, Currencies
    <2>3. TransactionPosition(t)["BTC"] \in Int
      BY <2>1, MovePositionIs DEF Money, Currencies
    <2> DEFINE fee == IF t.bought THEN 0 ELSE t.fee["BTC"]
               drift == IF t.drift THEN TransactionPosition(t)["BTC"] ELSE 0
               under == t.amount["BTC"] - t.fee["BTC"]
    <2>4. MoveLeft[d] = fee + 0 - drift
      BY <1>1, <1>2 DEF MoveLeft
    <2>5. MoveLeft[t] = fee + under - drift
      BY <1>4 DEF MoveLeft
    <2>6. fee \in Int /\ drift \in Int /\ under \in Int
      BY <2>2, <2>3
    <2> HIDE DEF fee, drift, under
    <2>7. MoveLeft[d] = MoveLeft[t] - under
      BY <2>4, <2>5, <2>6
    <2> QED
      BY <2>7 DEF under
  <1> QED
    BY <1>1, <1>3, <1>4 DEF d

\* A transaction that was completed at once.
Entered(account, type, amount, fee) == Complete(Transit(account, type, amount, fee))

\* What a transaction completed at once is.
LEMMA EnteredIs ==
  ASSUME today \in Nat \ {0}
  PROVE  \A account \in Accounts, type \in MoveTypes, amount \in Money, fee \in Money :
           LET t == Entered(account, type, amount, fee)
           IN  /\ t \in EnteredMoves
               /\ t.account = account /\ t.type = type /\ t.status = "COMPLETED"
               /\ t.amount = amount /\ t.fee = fee
               /\ MoveLeft[t] = fee["BTC"]
  <1> SUFFICES ASSUME NEW account \in Accounts, NEW type \in MoveTypes,
                      NEW amount \in Money, NEW fee \in Money,
                      NEW t, t = Entered(account, type, amount, fee)
               PROVE  /\ t \in EnteredMoves
                      /\ t.account = account /\ t.type = type /\ t.status = "COMPLETED"
                      /\ t.amount = amount /\ t.fee = fee
                      /\ MoveLeft[t] = fee["BTC"]
    OBVIOUS
  <1> DEFINE s == Transit(account, type, amount, fee)
  <1>1. /\ s \in BookTransaction
        /\ s.account = account /\ s.type = type /\ s.status = "IN_TRANSIT"
        /\ s.amount = amount /\ s.fee = fee /\ s.created = today
        /\ MoveLeft[s] = amount["BTC"]
    BY TransitIs
  <1>2. t = Complete(s)
    BY DEF Entered
  <1> HIDE DEF s
  <1>3. /\ t \in BookTransaction
        /\ t.account = account /\ t.type = type /\ t.status = "COMPLETED"
        /\ t.completed = today /\ t.created = today /\ t.amount = amount /\ t.fee = fee
        /\ MoveLeft[t] = MoveLeft[s] - (amount["BTC"] - fee["BTC"])
    BY <1>1, <1>2, CompleteIs
  <1>4. amount["BTC"] \in Int /\ fee["BTC"] \in Int
    BY DEF Money, Currencies
  <1>5. MoveLeft[t] = fee["BTC"]
    BY <1>1, <1>3, <1>4
  <1>6. t \in EnteredMoves
    <2>1. today \in 1..today
      OBVIOUS
    <2> QED
      BY <1>3, <2>1 DEF EnteredMoves
  <1> QED
    BY <1>3, <1>5, <1>6

\* What a completed transaction adds to the balances.
LEMMA CompletedMoves ==
  ASSUME NEW t \in BookTransaction, t.status = "COMPLETED"
  PROVE  \A a : \A c \in Currencies :
           MoveIn(a, c)[t] = IF a = t.account THEN TransactionPosition(t)[c] ELSE 0
  BY DEF MoveIn

\* Crediting an account changes its balance, and the coins of all accounts.
LEMMA CreditIs ==
  ASSUME BooksTypeOK, NEW account \in Accounts, NEW amount \in Money, Credit(account, amount)
  PROVE  /\ balances' \in [Accounts -> Money]
         /\ \A a \in Accounts : \A c \in Currencies :
              balances'[a][c] = balances[a][c] + (IF a = account THEN amount[c] ELSE 0)
         /\ Total(Parts(balances, "BTC"), Accounts) \in Int
         /\ Total(Parts(balances', "BTC"), Accounts)
              = Total(Parts(balances, "BTC"), Accounts) + amount["BTC"]
  <1> DEFINE b == balances[account]
             new == Plus(b, amount)
             f == Parts(balances, "BTC")
             g == Parts(balances', "BTC")
  <1>1. "BTC" \in Currencies
    BY DEF Currencies
  <1>2. b \in Money /\ \A a \in Accounts : \A c \in Currencies : balances[a][c] \in Int
    BY DEF BooksTypeOK, Money
  <1>3. new \in Money /\ \A c \in Currencies : new[c] = b[c] + amount[c] /\ amount[c] \in Int
    BY <1>2, MoneyAdds
  <1>4. balances' = [balances EXCEPT ![account] = new]
    BY DEF Credit
  <1> HIDE DEF new
  <1>5. /\ balances' \in [Accounts -> Money]
        /\ balances'[account] = new /\ \A a \in Accounts : a # account => balances'[a] = balances[a]
    BY <1>3, <1>4 DEF BooksTypeOK
  <1>6. \A a \in Accounts : \A c \in Currencies :
          balances'[a][c] = balances[a][c] + (IF a = account THEN amount[c] ELSE 0)
    BY <1>2, <1>3, <1>5
  <1>7. Summands(f, Accounts)
    <2>1. IsFiniteSet(Accounts)
      BY BooksAssumption
    <2>2. DOMAIN balances = Accounts
      BY DEF BooksTypeOK
    <2> QED
      BY <1>1, <1>2, <2>1, <2>2 DEF Summands, Parts
  <1>8. g[account] = f[account] + amount["BTC"] /\ f[account] \in Int /\ g[account] \in Int
        /\ \A a \in Accounts : a # account => g[a] = f[a]
    <2>1. DOMAIN balances = Accounts /\ DOMAIN balances' = Accounts
      BY <1>5 DEF BooksTypeOK
    <2>2. \A a \in Accounts : f[a] = balances[a]["BTC"] /\ g[a] = balances'[a]["BTC"]
      BY <2>1 DEF Parts
    <2>3. amount["BTC"] \in Int
      BY <1>1, <1>3
    <2> HIDE DEF f, g
    <2> QED
      BY <1>1, <1>2, <1>6, <2>2, <2>3
  <1> HIDE DEF f, g
  <1>9. Total(g, Accounts) = Total(f, Accounts) + g[account] - f[account]
    BY <1>7, <1>8, TotalWithOther
  <1>10. Total(f, Accounts) \in Int /\ amount["BTC"] \in Int
    BY <1>1, <1>3, <1>7, TotalStep
  <1>11. Total(g, Accounts) = Total(f, Accounts) + amount["BTC"]
    BY <1>8, <1>9, <1>10
  <1> QED
    BY <1>5, <1>6, <1>10, <1>11 DEF f, g

\* The books stay right when what is entered is what the balance changes by,
\* and leaves nothing to be explained.
LEMMA BooksStay ==
  ASSUME BooksTypeOK, BooksTypeOK', Accounted, Explained,
         NEW account \in Accounts, NEW amount \in Money, Credit(account, amount),
         \A a : \A c \in Currencies :
           WeighRows(bookOrders', TradeIn(a, c)) + Weigh(transactions', MoveIn(a, c))
             = WeighRows(bookOrders, TradeIn(a, c)) + Weigh(transactions, MoveIn(a, c))
                 + (IF a = account THEN amount[c] ELSE 0),
         amount["BTC"] + WeighRows(bookOrders', TradeLeft) + Weigh(transactions', MoveLeft)
                 - paidAgain' - OwedCoins'
           = WeighRows(bookOrders, TradeLeft) + Weigh(transactions, MoveLeft)
               - paidAgain - OwedCoins
  PROVE  Accounted' /\ Explained'
  <1>1. /\ \A a \in Accounts : \A c \in Currencies :
             balances'[a][c] = balances[a][c] + (IF a = account THEN amount[c] ELSE 0)
        /\ Total(Parts(balances, "BTC"), Accounts) \in Int
        /\ Total(Parts(balances', "BTC"), Accounts)
              = Total(Parts(balances, "BTC"), Accounts) + amount["BTC"]
    BY CreditIs
  <1>2. amount["BTC"] \in Int
    BY DEF Money, Currencies
  <1>3. Accounted'
    <2> SUFFICES ASSUME NEW a \in Accounts, NEW c \in Currencies
                 PROVE  balances'[a][c] = WeighRows(bookOrders', TradeIn(a, c))
                                            + Weigh(transactions', MoveIn(a, c))
      BY DEF Accounted, TradeIn, MoveIn
    <2>1. balances[a][c] = WeighRows(bookOrders, TradeIn(a, c)) + Weigh(transactions, MoveIn(a, c))
      BY DEF Accounted
    <2> QED
      BY <1>1, <2>1
  <1>4. Explained'
    <2>1. /\ Weigh(transactions, MoveLeft) \in Int /\ WeighRows(bookOrders, TradeLeft) \in Int
          /\ paidAgain \in Int /\ OwedCoins \in Int
      BY MovesAre, OwedIs DEF BooksTypeOK
    <2>2. /\ Weigh(transactions', MoveLeft) \in Int /\ WeighRows(bookOrders', TradeLeft) \in Int
          /\ paidAgain' \in Int /\ OwedCoins' \in Int
      <3>1. (Weigh(transactions, MoveLeft) \in Int /\ WeighRows(bookOrders, TradeLeft) \in Int)'
        BY MovesAre, PTL
      <3>2. (OwedCoins \in Int)'
        BY OwedIs, PTL
      <3> QED
        BY <3>1, <3>2 DEF BooksTypeOK
    <2>3. Total(Parts(balances, "BTC"), Accounts) + WeighRows(bookOrders, TradeLeft)
            + Weigh(transactions, MoveLeft) = paidAgain + OwedCoins
      BY DEF Explained
    <2>4. Total(Parts(balances', "BTC"), Accounts) + WeighRows(bookOrders', TradeLeft)
            + Weigh(transactions', MoveLeft) = paidAgain' + OwedCoins'
      BY <1>1, <1>2, <2>1, <2>2, <2>3
    <2> QED
      BY <2>4 DEF Explained
  <1> QED
    BY <1>3, <1>4

\* What was asked for stays outstanding when rows are only added or completed.
LEMMA AskedStays ==
  ASSUME NEW T, T \subseteq OutstandingTrades, NEW U, U \subseteq OutstandingTransactions,
         \A row \in T : /\ row \in OutstandingTrades'
                        /\ bookOrders'[row[1]].account = bookOrders[row[1]].account,
         \A i \in U : /\ i \in OutstandingTransactions'
                      /\ transactions'[i].fee = transactions[i].fee
  PROVE  /\ T \subseteq OutstandingTrades' /\ U \subseteq OutstandingTransactions'
         /\ TradeFeesOf(T)' = TradeFeesOf(T) /\ TransactionFeesOf(U)' = TransactionFeesOf(U)
  BY DEF TradeFeesOf, TransactionFeesOf

\* What was asked stays true when everything outstanding stays so.
LEMMA AskedKept ==
  ASSUME AskedTrue, asked' \subseteq asked,
         \A row \in OutstandingTrades :
           /\ row \in OutstandingTrades'
           /\ bookOrders'[row[1]].account = bookOrders[row[1]].account,
         \A i \in OutstandingTransactions :
           /\ i \in OutstandingTransactions'
           /\ transactions'[i].fee = transactions[i].fee
  PROVE  AskedTrue'
  <1> SUFFICES ASSUME NEW rows \in asked, ~rows.replaced
               PROVE  /\ rows.trades \subseteq OutstandingTrades'
                      /\ rows.transactions \subseteq OutstandingTransactions'
                      /\ rows.amount = SumOf(TradeFeesOf(rows.trades)').BTC
                                         + SumOf(TransactionFeesOf(rows.transactions)').BTC
    BY DEF AskedTrue, TradeFeesOf, TransactionFeesOf
  <1> DEFINE T == rows.trades
             U == rows.transactions
  <1>1. /\ T \subseteq OutstandingTrades /\ U \subseteq OutstandingTransactions
        /\ rows.amount = SumOf(TradeFeesOf(T)).BTC + SumOf(TransactionFeesOf(U)).BTC
    BY DEF AskedTrue
  <1> HIDE DEF T, U
  <1>2. /\ T \subseteq OutstandingTrades' /\ U \subseteq OutstandingTransactions'
        /\ TradeFeesOf(T)' = TradeFeesOf(T) /\ TransactionFeesOf(U)' = TransactionFeesOf(U)
    BY <1>1, AskedStays
  <1> QED
    BY <1>1, <1>2 DEF T, U

\* The weights of the transactions with one more.
LEMMA EntersOne ==
  ASSUME BooksTypeOK, NEW t \in EnteredMoves, transactions' = Append(transactions, t)
  PROVE  /\ transactions' \in Seq(EnteredMoves)
         /\ \A a : \A c \in Currencies :
              Weigh(transactions', MoveIn(a, c)) = Weigh(transactions, MoveIn(a, c)) + MoveIn(a, c)[t]
         /\ Weigh(transactions', MoveLeft) = Weigh(transactions, MoveLeft) + MoveLeft[t]
         /\ \A i \in DOMAIN transactions : /\ i \in DOMAIN transactions'
                                           /\ transactions'[i] = transactions[i]
  <1>1. transactions \in Seq(BookTransaction) /\ transactions \in Seq(EnteredMoves)
    BY MovesAre DEF BooksTypeOK
  <1>2. t \in BookTransaction
    BY DEF EnteredMoves
  <1>3. /\ transactions' \in Seq(EnteredMoves)
        /\ \A i \in DOMAIN transactions : /\ i \in DOMAIN transactions'
                                          /\ transactions'[i] = transactions[i]
    BY <1>1, AppendIs
  <1>4. ASSUME NEW a, NEW c \in Currencies
        PROVE  Weigh(transactions', MoveIn(a, c)) = Weigh(transactions, MoveIn(a, c)) + MoveIn(a, c)[t]
    <2>1. MoveIn(a, c) \in [BookTransaction -> Int]
      BY WeightsAre
    <2> QED
      BY <1>1, <1>2, <2>1, WeighMore
  <1>5. Weigh(transactions', MoveLeft) = Weigh(transactions, MoveLeft) + MoveLeft[t]
    <2>1. MoveLeft \in [BookTransaction -> Int]
      BY WeightsAre
    <2> QED
      BY <1>1, <1>2, <2>1, WeighMore
  <1> QED
    BY <1>3, <1>4, <1>5

\* And with two more.
LEMMA EntersTwo ==
  ASSUME BooksTypeOK, NEW t \in EnteredMoves, NEW u \in EnteredMoves,
         transactions' = Append(Append(transactions, t), u)
  PROVE  /\ transactions' \in Seq(EnteredMoves)
         /\ \A a : \A c \in Currencies :
              Weigh(transactions', MoveIn(a, c))
                = Weigh(transactions, MoveIn(a, c)) + MoveIn(a, c)[t] + MoveIn(a, c)[u]
         /\ Weigh(transactions', MoveLeft) = Weigh(transactions, MoveLeft) + MoveLeft[t] + MoveLeft[u]
         /\ \A i \in DOMAIN transactions : /\ i \in DOMAIN transactions'
                                           /\ transactions'[i] = transactions[i]
  <1> DEFINE mid == Append(transactions, t)
  <1>1. transactions \in Seq(BookTransaction) /\ transactions \in Seq(EnteredMoves)
    BY MovesAre DEF BooksTypeOK
  <1>2. t \in BookTransaction /\ u \in BookTransaction
    BY DEF EnteredMoves
  <1>3. /\ mid \in Seq(EnteredMoves) /\ mid \in Seq(BookTransaction)
        /\ \A i \in DOMAIN transactions : i \in DOMAIN mid /\ mid[i] = transactions[i]
    BY <1>1, <1>2, AppendIs
  <1>4. ASSUME NEW W \in [BookTransaction -> Int]
        PROVE  Weigh(mid, W) = Weigh(transactions, W) + W[t]
    BY <1>1, <1>2, WeighMore
  <1> HIDE DEF mid
  <1>5. transactions' = Append(mid, u)
    BY DEF mid
  <1>6. /\ transactions' \in Seq(EnteredMoves)
        /\ \A i \in DOMAIN mid : i \in DOMAIN transactions' /\ transactions'[i] = mid[i]
    BY <1>3, <1>5, AppendIs
  <1>7. ASSUME NEW W \in [BookTransaction -> Int]
        PROVE  Weigh(transactions', W) = Weigh(mid, W) + W[u]
    BY <1>2, <1>3, <1>5, WeighMore
  <1>8. ASSUME NEW W \in [BookTransaction -> Int]
        PROVE  Weigh(transactions', W) = Weigh(transactions, W) + W[t] + W[u]
    BY <1>4, <1>7
  <1>9. \A a : \A c \in Currencies : MoveIn(a, c) \in [BookTransaction -> Int]
    BY WeightsAre
  <1>10. MoveLeft \in [BookTransaction -> Int]
    BY WeightsAre
  <1>11. Weigh(transactions', MoveLeft) = Weigh(transactions, MoveLeft) + MoveLeft[t] + MoveLeft[u]
    BY <1>8, <1>10
  <1>12. \A a : \A c \in Currencies :
           Weigh(transactions', MoveIn(a, c))
             = Weigh(transactions, MoveIn(a, c)) + MoveIn(a, c)[t] + MoveIn(a, c)[u]
    BY <1>8, <1>9
  <1> QED
    BY <1>3, <1>6, <1>11, <1>12

\* The steps that enter or complete transactions only.
LEMMA MovesEntered ==
  ASSUME BooksInv, NEW account \in Accounts, NEW amount \in Money, Credit(account, amount),
         bookOrders' = bookOrders, today' = today, watchSince' = watchSince, asked' \subseteq asked,
         paidAgain' = paidAgain, debts' \in Seq(EnteredDebts),
         transactions' \in Seq(EnteredMoves),
         \A i \in DOMAIN transactions :
           /\ i \in DOMAIN transactions'
           /\ transactions'[i].fee = transactions[i].fee
           /\ transactions'[i].bought = transactions[i].bought,
         \A a : \A c \in Currencies :
           Weigh(transactions', MoveIn(a, c))
             = Weigh(transactions, MoveIn(a, c)) + (IF a = account THEN amount[c] ELSE 0),
         amount["BTC"] + Weigh(transactions', MoveLeft) - OwedCoins'
           = Weigh(transactions, MoveLeft) - OwedCoins
  PROVE  BooksInv'
  <1>1. BooksTypeOK /\ AskedTrue /\ Accounted /\ Explained
    BY DEF BooksInv
  <1>2. EnteredMoves' = EnteredMoves /\ EnteredTrades' = EnteredTrades /\ EnteredDebts' = EnteredDebts
    BY DEF EnteredMoves, EnteredTrades, EnteredDebts
  <1>3. BooksTypeOK'
    <2>1. balances' \in [Accounts -> Money]
      BY <1>1, CreditIs
    <2> QED
      BY <1>1, <1>2, <2>1 DEF BooksTypeOK
  <1>4. AskedTrue'
    <2>1. OutstandingTrades' = OutstandingTrades
      BY DEF OutstandingTrades, TradeRows
    <2>2. ASSUME NEW i \in OutstandingTransactions
          PROVE  i \in OutstandingTransactions' /\ transactions'[i].fee = transactions[i].fee
      <3>1. i \in DOMAIN transactions /\ transactions[i].fee.BTC # 0 /\ ~transactions[i].bought
        BY DEF OutstandingTransactions
      <3>2. i \in DOMAIN transactions' /\ transactions'[i].fee = transactions[i].fee
            /\ transactions'[i].bought = transactions[i].bought
        BY <3>1
      <3>3. transactions'[i].status # "CANCELED"
        <4>1. PICK moves \in Seq(EnteredMoves) : moves = transactions'
          OBVIOUS
        <4>2. i \in 1..Len(moves)
          BY <3>2, <4>1, LenProperties
        <4>3. moves[i] \in EnteredMoves
          BY <4>2, ElementOfSeq
        <4>4. transactions'[i] \in BookTransaction
          BY <4>1, <4>3 DEF EnteredMoves
        <4> QED
          BY <4>4 DEF BookTransaction
      <3> QED
        BY <3>1, <3>2, <3>3 DEF OutstandingTransactions
    <2> QED
      BY <1>1, <2>1, <2>2, AskedKept
  <1>5. Accounted' /\ Explained'
    <2>1. \A a : \A c \in Currencies :
           WeighRows(bookOrders', TradeIn(a, c)) + Weigh(transactions', MoveIn(a, c))
             = WeighRows(bookOrders, TradeIn(a, c)) + Weigh(transactions, MoveIn(a, c))
                 + (IF a = account THEN amount[c] ELSE 0)
      <3> SUFFICES ASSUME NEW a, NEW c \in Currencies
                   PROVE  WeighRows(bookOrders', TradeIn(a, c)) + Weigh(transactions', MoveIn(a, c))
                            = WeighRows(bookOrders, TradeIn(a, c)) + Weigh(transactions, MoveIn(a, c))
                                + (IF a = account THEN amount[c] ELSE 0)
        OBVIOUS
      <3>1. Weigh(transactions, MoveIn(a, c)) \in Int /\ WeighRows(bookOrders, TradeIn(a, c)) \in Int
            /\ amount[c] \in Int
        BY <1>1, MovesAre DEF Money
      <3> QED
        BY <3>1
    <2>2. amount["BTC"] + WeighRows(bookOrders', TradeLeft) + Weigh(transactions', MoveLeft)
                 - paidAgain' - OwedCoins'
           = WeighRows(bookOrders, TradeLeft) + Weigh(transactions, MoveLeft)
               - paidAgain - OwedCoins
      <3>1. /\ Weigh(transactions, MoveLeft) \in Int /\ WeighRows(bookOrders, TradeLeft) \in Int
            /\ paidAgain \in Int /\ OwedCoins \in Int
        BY <1>1, MovesAre, OwedIs DEF BooksTypeOK
      <3>2. (Weigh(transactions, MoveLeft) \in Int)' /\ (OwedCoins \in Int)'
        BY <1>3, MovesAre, OwedIs, PTL
      <3>3. amount["BTC"] \in Int
        BY DEF Money, Currencies
      <3> DEFINE x == amount["BTC"]
                 r == WeighRows(bookOrders, TradeLeft)
                 w == Weigh(transactions, MoveLeft)
                 v == Weigh(transactions', MoveLeft)
                 o == OwedCoins
                 q == OwedCoins'
      <3>4. x \in Int /\ r \in Int /\ w \in Int /\ v \in Int /\ o \in Int /\ q \in Int
        BY <3>1, <3>2, <3>3
      <3>5. x + v - q = w - o
        OBVIOUS
      <3>6. WeighRows(bookOrders', TradeLeft) = r
        OBVIOUS
      <3> HIDE DEF x, r, w, v, o, q
      <3>7. x + r + v - paidAgain - q = r + w - paidAgain - o
        BY <3>1, <3>4, <3>5
      <3> QED
        BY <3>6, <3>7 DEF x, r, w, v, o, q
    <2> QED
      BY <1>1, <1>3, <2>1, <2>2, BooksStay
  <1> QED
    BY <1>3, <1>4, <1>5 DEF BooksInv

\* A transaction with the credit that goes with it keeps the books right.
LEMMA OnceEntered ==
  ASSUME BooksInv, NEW account \in Accounts, NEW amount \in Money, Credit(account, amount),
         bookOrders' = bookOrders, today' = today, watchSince' = watchSince, asked' \subseteq asked,
         paidAgain' = paidAgain, debts' \in Seq(EnteredDebts),
         NEW t \in EnteredMoves, transactions' = Append(transactions, t),
         \A a : \A c \in Currencies : MoveIn(a, c)[t] = IF a = account THEN amount[c] ELSE 0,
         amount["BTC"] + MoveLeft[t] - OwedCoins' = -OwedCoins
  PROVE  BooksInv'
  <1>1. BooksTypeOK
    BY DEF BooksInv
  <1>2. /\ transactions' \in Seq(EnteredMoves)
        /\ \A a : \A c \in Currencies :
              Weigh(transactions', MoveIn(a, c)) = Weigh(transactions, MoveIn(a, c)) + MoveIn(a, c)[t]
        /\ Weigh(transactions', MoveLeft) = Weigh(transactions, MoveLeft) + MoveLeft[t]
        /\ \A i \in DOMAIN transactions : /\ i \in DOMAIN transactions'
                                          /\ transactions'[i] = transactions[i]
    BY <1>1, EntersOne
  <1>3. \A a : \A c \in Currencies :
           Weigh(transactions', MoveIn(a, c))
             = Weigh(transactions, MoveIn(a, c)) + (IF a = account THEN amount[c] ELSE 0)
    BY <1>2
  <1>4. amount["BTC"] + Weigh(transactions', MoveLeft) - OwedCoins'
           = Weigh(transactions, MoveLeft) - OwedCoins
    <2>1. Weigh(transactions, MoveLeft) \in Int /\ OwedCoins \in Int
      BY <1>1, MovesAre, OwedIs
    <2>2. MoveLeft[t] \in Int /\ amount["BTC"] \in Int
      BY WeightsAre DEF EnteredMoves, Money, Currencies
    <2>3. OwedCoins' \in Int
      <3>1. debts' \in Seq(EnteredDebts)
        OBVIOUS
      <3>2. DOMAIN debts' = 1..Len(debts') /\ Len(debts') \in Nat
        BY <3>1, LenProperties
      <3>3. IsFiniteSet(DOMAIN debts') /\ Owed' \subseteq DOMAIN debts'
        BY <3>2, FS_Interval DEF Owed
      <3>4. Cardinality(Owed') \in Nat
        BY <3>3, FS_Subset, FS_CardinalityType
      <3>5. Debt["BTC"] \in Int
        BY <1>1, OwedIs
      <3> QED
        BY <3>4, <3>5 DEF OwedCoins, Debt
    <2> DEFINE x == amount["BTC"]
               w == Weigh(transactions, MoveLeft)
               v == Weigh(transactions', MoveLeft)
               m == MoveLeft[t]
               o == OwedCoins
               q == OwedCoins'
    <2>4. x \in Int /\ w \in Int /\ m \in Int /\ o \in Int /\ q \in Int
      BY <2>1, <2>2, <2>3
    <2>5. x + m - q = -o /\ v = w + m
      BY <1>2
    <2> HIDE DEF x, w, v, m, o, q
    <2>6. x + v - q = w - o
      BY <2>4, <2>5
    <2> QED
      BY <2>6 DEF x, w, v, m, o, q
  <1>5. \A i \in DOMAIN transactions : /\ i \in DOMAIN transactions'
                                       /\ transactions'[i].fee = transactions[i].fee
                                       /\ transactions'[i].bought = transactions[i].bought
    BY <1>2
  <1> QED
    BY <1>2, <1>3, <1>4, <1>5, MovesEntered

\* Entering drift does.
LEMMA EnterDriftInv ==
  ASSUME BooksInv, NEW account \in Accounts, EnterDrift(account)
  PROVE  BooksInv'
  <1> DEFINE type == IF account = Coinbase THEN "WITHDRAWL" ELSE "DEPOSIT"
             s == Entered(account, type, Drift, NoMoney)
             t == [s EXCEPT !.drift = TRUE]
             amount == TransactionPosition(t)
  <1>1. BooksTypeOK /\ today \in Nat \ {0}
    BY DEF BooksInv, BooksTypeOK
  <1>2. /\ transactions' = transactions \o <<t>> /\ Credit(account, amount)
        /\ UNCHANGED <<bookOrders, debts, today, watchSince, asked, paidAgain>>
    BY DEF EnterDrift, AddTransactions, Entered
  <1>3. /\ s \in EnteredMoves /\ s.account = account /\ s.status = "COMPLETED"
        /\ s.amount = Drift /\ s.fee = NoMoney
    <2>1. Drift \in Money /\ NoMoney \in Money /\ type \in MoveTypes
      BY MoneyIs DEF Drift, MoveTypes
    <2> HIDE DEF type, s
    <2>2. s = Entered(account, type, Drift, NoMoney)
      BY DEF s
    <2> QED
      BY <1>1, <2>1, <2>2, EnteredIs
  <1> HIDE DEF s
  <1>4. /\ t \in EnteredMoves /\ t \in BookTransaction /\ t.account = account
        /\ t.status = "COMPLETED" /\ t.drift = TRUE /\ t.amount = Drift /\ t.fee = NoMoney
    BY <1>3 DEF EnteredMoves, BookTransaction
  <1> HIDE DEF t
  <1>5. \A a : \A c \in Currencies : MoveIn(a, c)[t] = IF a = account THEN amount[c] ELSE 0
    BY <1>4, CompletedMoves
  <1>6. amount \in Money /\ amount["BTC"] \in Int
    BY <1>4, MoneyIs, MovePositionIs DEF Drift, Money, Currencies
  <1> HIDE DEF amount
  <1>7. MoveLeft[t] = -amount["BTC"]
    <2>1. NoMoney["BTC"] = 0
      BY MoneyIs DEF Currencies
    <2>2. MoveLeft[t] = 0 + 0 - amount["BTC"]
      BY <1>4, <2>1 DEF MoveLeft, amount
    <2> QED
      BY <1>6, <2>2
  <1>8. OwedCoins' = OwedCoins /\ OwedCoins \in Int
    BY <1>1, <1>2, OwedIs DEF OwedCoins, Owed
  <1>9. transactions' = Append(transactions, t)
    BY <1>1, <1>2, <1>4, MovesAre
  <1>10. amount["BTC"] + MoveLeft[t] - OwedCoins' = -OwedCoins
    BY <1>6, <1>7, <1>8
  <1>11. debts' \in Seq(EnteredDebts)
    BY <1>1, <1>2 DEF BooksTypeOK
  <1>12. /\ bookOrders' = bookOrders /\ today' = today /\ watchSince' = watchSince
         /\ asked' \subseteq asked /\ paidAgain' = paidAgain
    BY <1>2
  <1> QED
    BY <1>2, <1>4, <1>5, <1>6, <1>9, <1>10, <1>11, <1>12, OnceEntered

\* What a transaction entered at once adds to the balances.
LEMMA EnteredMoney ==
  ASSUME NEW t \in EnteredMoves, t.status = "COMPLETED", t.amount \in Money, t.fee \in Money,
         NEW account, t.account = account, NEW change \in Money,
         \A c \in Currencies :
           change[c] = (IF t.type = "DEPOSIT" THEN t.amount[c] ELSE -t.amount[c]) - t.fee[c]
  PROVE  \A a : \A c \in Currencies : MoveIn(a, c)[t] = IF a = account THEN change[c] ELSE 0
  <1>1. t \in BookTransaction
    BY DEF EnteredMoves
  <1>2. \A c \in Currencies : TransactionPosition(t)[c] = change[c]
    BY MovePositionIs
  <1> QED
    BY <1>1, <1>2, CompletedMoves

\* The amount of a loan.
LEMMA DebtIs ==
  /\ Debt \in Money /\ Debt["BTC"] = 100000 /\ Minus(NoMoney, Debt) \in Money
  /\ Minus(NoMoney, Debt)["BTC"] = -100000 /\ NoMoney["BTC"] = 0
  /\ \A c \in Currencies : /\ Debt[c] = Debt[c] - NoMoney[c]
                           /\ Minus(NoMoney, Debt)[c] = -Debt[c] - NoMoney[c]
  <1>1. Debt \in Money /\ Debt["BTC"] = 100000 /\ "BTC" \in Currencies /\ NoMoney \in Money
        /\ \A c \in Currencies : NoMoney[c] = 0
    BY MoneyIs DEF Debt, Currencies
  <1>2. Minus(NoMoney, Debt) \in Money
        /\ \A c \in Currencies : Minus(NoMoney, Debt)[c] = NoMoney[c] - Debt[c] /\ Debt[c] \in Int
    <2>1. \A c \in Currencies : Debt[c] \in Int
      BY <1>1 DEF Money
    <2>2. /\ Minus(NoMoney, Debt) \in Money
          /\ \A c \in Currencies : Minus(NoMoney, Debt)[c] = NoMoney[c] - Debt[c]
      BY <1>1, MoneyAdds
    <2> QED
      BY <2>1, <2>2
  <1> QED
    BY <1>1, <1>2

\* Borrowing keeps the books right: the coins are owed.
LEMMA BorrowInv ==
  ASSUME BooksInv, NEW account \in Accounts, Borrow(account)
  PROVE  BooksInv'
  <1> DEFINE t == Entered(account, "DEPOSIT", Debt, NoMoney)
             d == [started |-> today, repaid |-> Never]
             n == Len(debts) + 1
  <1>1. BooksTypeOK /\ today \in Nat \ {0} /\ debts \in Seq(EnteredDebts)
    BY DEF BooksInv, BooksTypeOK
  <1>2. /\ transactions' = Append(transactions, t) /\ debts' = Append(debts, d)
        /\ Credit(account, Debt)
        /\ bookOrders' = bookOrders /\ today' = today /\ watchSince' = watchSince
        /\ asked' \subseteq asked /\ paidAgain' = paidAgain
    BY DEF Borrow, Entered
  <1>3. /\ t \in EnteredMoves /\ t.account = account /\ t.type = "DEPOSIT"
        /\ t.status = "COMPLETED" /\ t.amount = Debt /\ t.fee = NoMoney /\ MoveLeft[t] = 0
    <2>1. Debt \in Money /\ NoMoney \in Money /\ "DEPOSIT" \in MoveTypes /\ NoMoney["BTC"] = 0
      BY MoneyIs, DebtIs DEF MoveTypes
    <2> QED
      BY <1>1, <2>1, EnteredIs
  <1>4. d \in EnteredDebts /\ d.repaid = Never
    BY <1>1 DEF EnteredDebts, Never
  <1> HIDE DEF t, d
  <1>5. \A a : \A c \in Currencies : MoveIn(a, c)[t] = IF a = account THEN Debt[c] ELSE 0
    BY <1>3, MoneyIs, DebtIs, EnteredMoney
  <1>6. /\ debts' \in Seq(EnteredDebts)
        /\ DOMAIN debts' = (DOMAIN debts) \cup {n} /\ n \notin DOMAIN debts
        /\ \A i \in DOMAIN debts : debts'[i] = debts[i]
        /\ debts'[n] = d
    BY <1>1, <1>2, <1>4, AppendIs
  <1> HIDE DEF n
  <1>7. Owed' = Owed \cup {n} /\ n \notin Owed
    BY <1>4, <1>6 DEF Owed
  <1>8. OwedCoins' = OwedCoins + 100000 /\ OwedCoins \in Int
    <2>1. IsFiniteSet(Owed) /\ OwedCoins \in Int
      BY <1>1, OwedIs
    <2>2. Cardinality(Owed') = Cardinality(Owed) + 1 /\ Cardinality(Owed) \in Nat
      BY <1>7, <2>1, FS_AddElement, FS_CardinalityType
    <2>3. OwedCoins = Cardinality(Owed) * 100000 /\ OwedCoins' = Cardinality(Owed') * 100000
      BY DebtIs DEF OwedCoins
    <2> QED
      BY <2>1, <2>2, <2>3
  <1>9. Debt["BTC"] + MoveLeft[t] - OwedCoins' = -OwedCoins
    BY <1>3, <1>8, DebtIs
  <1>10. Debt \in Money
    BY DebtIs
  <1> QED
    BY <1>2, <1>3, <1>5, <1>6, <1>9, <1>10, OnceEntered

\* Repaying does.
LEMMA RepayInv ==
  ASSUME BooksInv, NEW account \in Accounts, NEW i \in DOMAIN debts, Repay(account, i)
  PROVE  BooksInv'
  <1> DEFINE t == Entered(account, "WITHDRAWL", Debt, NoMoney)
             d == [debts[i] EXCEPT !.repaid = today]
             back == Minus(NoMoney, Debt)
  <1>1. /\ BooksTypeOK /\ today \in Nat \ {0} /\ debts \in Seq(EnteredDebts)
        /\ i \in 1..Len(debts) /\ debts[i] \in EnteredDebts
    <2>1. BooksTypeOK /\ today \in Nat \ {0} /\ debts \in Seq(EnteredDebts)
      BY DEF BooksInv, BooksTypeOK
    <2>2. i \in 1..Len(debts)
      BY <2>1, LenProperties
    <2> QED
      BY <2>1, <2>2, ElementOfSeq
  <1>2. /\ transactions' = Append(transactions, t) /\ debts' = [debts EXCEPT ![i] = d]
        /\ debts[i].repaid = Never /\ Credit(account, back)
        /\ bookOrders' = bookOrders /\ today' = today /\ watchSince' = watchSince
        /\ asked' \subseteq asked /\ paidAgain' = paidAgain
    BY DEF Repay, Entered
  <1>3. /\ t \in EnteredMoves /\ t.account = account /\ t.type = "WITHDRAWL"
        /\ t.status = "COMPLETED" /\ t.amount = Debt /\ t.fee = NoMoney /\ MoveLeft[t] = 0
    <2>1. Debt \in Money /\ NoMoney \in Money /\ "WITHDRAWL" \in MoveTypes /\ NoMoney["BTC"] = 0
      BY MoneyIs, DebtIs DEF MoveTypes
    <2> QED
      BY <1>1, <2>1, EnteredIs
  <1>4. d \in EnteredDebts /\ d.repaid # Never
    BY <1>1 DEF EnteredDebts, Never
  <1> HIDE DEF t, d
  <1>5. back \in Money /\ back["BTC"] = -100000
    BY DebtIs
  <1>6. \A a : \A c \in Currencies : MoveIn(a, c)[t] = IF a = account THEN back[c] ELSE 0
    <2>1. \A c \in Currencies :
           back[c] = (IF t.type = "DEPOSIT" THEN t.amount[c] ELSE -t.amount[c]) - t.fee[c]
      BY <1>3, DebtIs
    <2>2. t.amount \in Money /\ t.fee \in Money
      BY <1>3, DebtIs, MoneyIs
    <2> HIDE DEF back
    <2> QED
      BY <1>3, <1>5, <2>1, <2>2, EnteredMoney
  <1> HIDE DEF back
  <1>7. /\ debts' \in Seq(EnteredDebts) /\ DOMAIN debts' = DOMAIN debts
        /\ debts'[i] = d /\ \A j \in DOMAIN debts : j # i => debts'[j] = debts[j]
    BY <1>1, <1>2, <1>4, ExceptSeq
  <1>8. Owed' = Owed \ {i} /\ i \in Owed
    BY <1>2, <1>4, <1>7 DEF Owed
  <1>9. OwedCoins' = OwedCoins - 100000 /\ OwedCoins \in Int
    <2>1. IsFiniteSet(Owed) /\ OwedCoins \in Int
      BY <1>1, OwedIs
    <2>2. Cardinality(Owed') = Cardinality(Owed) - 1 /\ Cardinality(Owed) \in Nat
      BY <1>8, <2>1, FS_RemoveElement, FS_CardinalityType
    <2>3. OwedCoins = Cardinality(Owed) * 100000 /\ OwedCoins' = Cardinality(Owed') * 100000
      BY DebtIs DEF OwedCoins
    <2> QED
      BY <2>1, <2>2, <2>3
  <1>10. back["BTC"] + MoveLeft[t] - OwedCoins' = -OwedCoins
    BY <1>3, <1>5, <1>9
  <1> QED
    BY <1>2, <1>3, <1>5, <1>6, <1>7, <1>10, OnceEntered

\* Completing a deposit does: what was under way is in the balance.
LEMMA LandInv ==
  ASSUME BooksInv, NEW i \in DOMAIN transactions, Land(i)
  PROVE  BooksInv'
  <1> DEFINE t == transactions[i]
             d == Complete(t)
             amount == TransactionPosition(t)
  <1>1. /\ BooksTypeOK /\ today \in Nat \ {0} /\ debts \in Seq(EnteredDebts)
        /\ transactions \in Seq(EnteredMoves) /\ transactions \in Seq(BookTransaction)
        /\ t \in EnteredMoves /\ t \in BookTransaction /\ t.account \in Accounts
        /\ t.amount \in Money /\ t.fee \in Money /\ i \in 1..Len(transactions)
    <2>1. BooksTypeOK /\ today \in Nat \ {0} /\ debts \in Seq(EnteredDebts)
          /\ transactions \in Seq(EnteredMoves)
      BY DEF BooksInv, BooksTypeOK
    <2>2. transactions \in Seq(BookTransaction) /\ t \in EnteredMoves /\ t \in BookTransaction
          /\ i \in 1..Len(transactions)
      BY <2>1, MovesAre
    <2> QED
      BY <2>1, <2>2 DEF BookTransaction
  <1>2. /\ t.status = "IN_TRANSIT" /\ t.type = "DEPOSIT"
        /\ transactions' = [transactions EXCEPT ![i] = d]
        /\ Credit(t.account, amount) /\ debts' = debts
        /\ bookOrders' = bookOrders /\ today' = today /\ watchSince' = watchSince
        /\ asked' \subseteq asked /\ paidAgain' = paidAgain
    BY DEF Land
  <1>3. amount \in Money /\ amount["BTC"] = t.amount["BTC"] - t.fee["BTC"]
        /\ t.amount["BTC"] \in Int /\ t.fee["BTC"] \in Int
    BY <1>1, <1>2, MovePositionIs DEF Money, Currencies
  <1>4. /\ d \in BookTransaction /\ d.fee = t.fee /\ d.bought = t.bought
        /\ \A a : \A c \in Currencies : MoveIn(a, c)[d] = IF a = t.account THEN amount[c] ELSE 0
        /\ MoveLeft[d] = MoveLeft[t] - amount["BTC"]
    BY <1>1, <1>2, <1>3, CompleteIs
  <1>5. d \in EnteredMoves
    <2>1. d.created = t.created /\ d.completed = today /\ d.status = "COMPLETED"
      BY <1>1, CompleteIs
    <2>2. today \in 1..today /\ t.created \in 1..today
      BY <1>1 DEF EnteredMoves
    <2> HIDE DEF d
    <2> QED
      BY <1>4, <2>1, <2>2 DEF EnteredMoves
  <1> HIDE DEF d, amount
  <1>6. /\ transactions' \in Seq(EnteredMoves)
        /\ \A j \in DOMAIN transactions : /\ j \in DOMAIN transactions'
                                          /\ transactions'[j] = IF j = i THEN d ELSE transactions[j]
    BY <1>1, <1>2, <1>5, ExceptSeq
  <1>7. \A j \in DOMAIN transactions : /\ j \in DOMAIN transactions'
                                       /\ transactions'[j].fee = transactions[j].fee
                                       /\ transactions'[j].bought = transactions[j].bought
    BY <1>4, <1>6
  <1>8. ASSUME NEW W \in [BookTransaction -> Int]
        PROVE  Weigh(transactions', W) = Weigh(transactions, W) + W[d] - W[t]
    <2>1. PICK s \in Seq(BookTransaction) : s = transactions
      BY <1>1
    <2>2. PICK u \in Seq(EnteredMoves) : u = transactions'
      BY <1>6
    <2>3. u \in Seq(BookTransaction)
      BY <2>2, SeqMonotonic DEF EnteredMoves
    <2>4. /\ i \in DOMAIN s /\ DOMAIN u = DOMAIN s /\ s[i] = t /\ u[i] = d
          /\ \A j \in DOMAIN s : j # i => u[j] = s[j]
      BY <1>2, <1>6, <2>1, <2>2
    <2>5. Weigh(u, W) = Weigh(s, W) + W[u[i]] - W[s[i]]
      BY <2>1, <2>3, <2>4, WeighOther
    <2> QED
      BY <2>1, <2>2, <2>4, <2>5
  <1>9. \A a : \A c \in Currencies :
           Weigh(transactions', MoveIn(a, c))
             = Weigh(transactions, MoveIn(a, c)) + (IF a = t.account THEN amount[c] ELSE 0)
    <2> SUFFICES ASSUME NEW a, NEW c \in Currencies
                 PROVE  Weigh(transactions', MoveIn(a, c))
                          = Weigh(transactions, MoveIn(a, c)) + (IF a = t.account THEN amount[c] ELSE 0)
      OBVIOUS
    <2>1. MoveIn(a, c) \in [BookTransaction -> Int]
      BY WeightsAre
    <2>2. MoveIn(a, c)[t] = 0
      BY <1>1, <1>2, PendingIs
    <2>3. Weigh(transactions, MoveIn(a, c)) \in Int /\ amount[c] \in Int
      BY <1>1, <1>3, MovesAre DEF Money
    <2>4. Weigh(transactions', MoveIn(a, c))
            = Weigh(transactions, MoveIn(a, c)) + MoveIn(a, c)[d] - MoveIn(a, c)[t]
      BY <1>8, <2>1
    <2> QED
      BY <1>4, <2>2, <2>3, <2>4
  <1>10. amount["BTC"] + Weigh(transactions', MoveLeft) - OwedCoins'
           = Weigh(transactions, MoveLeft) - OwedCoins
    <2>1. MoveLeft \in [BookTransaction -> Int]
      BY WeightsAre
    <2>2. Weigh(transactions', MoveLeft) = Weigh(transactions, MoveLeft) + MoveLeft[d] - MoveLeft[t]
      BY <1>8, <2>1
    <2>3. /\ Weigh(transactions, MoveLeft) \in Int /\ OwedCoins \in Int /\ OwedCoins' = OwedCoins
          /\ MoveLeft[t] \in Int /\ amount["BTC"] \in Int
      BY <1>1, <1>2, <1>3, <2>1, MovesAre, OwedIs DEF OwedCoins, Owed
    <2> QED
      BY <1>4, <2>2, <2>3
  <1>11. debts' \in Seq(EnteredDebts)
    BY <1>1, <1>2
  <1> QED
    BY <1>1, <1>2, <1>3, <1>6, <1>7, <1>9, <1>10, <1>11, MovesEntered

\* Two more at once are one and another.
LEMMA TwoMore ==
  ASSUME NEW S, NEW s \in Seq(S), NEW t \in S, NEW u \in S
  PROVE  s \o <<t, u>> = Append(Append(s, t), u)
  OBVIOUS

\* Two transactions with the credit that goes with both keep the books right.
LEMMA TwiceEntered ==
  ASSUME BooksInv, NEW account \in Accounts, NEW amount \in Money, Credit(account, amount),
         bookOrders' = bookOrders, today' = today, watchSince' = watchSince, asked' \subseteq asked,
         paidAgain' = paidAgain, debts' = debts,
         NEW t \in EnteredMoves, NEW u \in EnteredMoves,
         transactions' = transactions \o <<t, u>>,
         \A a : \A c \in Currencies :
           MoveIn(a, c)[t] + MoveIn(a, c)[u] = IF a = account THEN amount[c] ELSE 0,
         amount["BTC"] + MoveLeft[t] + MoveLeft[u] = 0
  PROVE  BooksInv'
  <1>1. BooksTypeOK /\ transactions \in Seq(EnteredMoves) /\ debts' \in Seq(EnteredDebts)
    BY DEF BooksInv, BooksTypeOK
  <1>2. transactions' = Append(Append(transactions, t), u)
    BY <1>1, TwoMore
  <1>3. /\ transactions' \in Seq(EnteredMoves)
        /\ \A a : \A c \in Currencies :
             Weigh(transactions', MoveIn(a, c))
               = Weigh(transactions, MoveIn(a, c)) + MoveIn(a, c)[t] + MoveIn(a, c)[u]
        /\ Weigh(transactions', MoveLeft) = Weigh(transactions, MoveLeft) + MoveLeft[t] + MoveLeft[u]
        /\ \A i \in DOMAIN transactions : /\ i \in DOMAIN transactions'
                                          /\ transactions'[i] = transactions[i]
    BY <1>1, <1>2, EntersTwo
  <1>4. t \in BookTransaction /\ u \in BookTransaction
    BY DEF EnteredMoves
  <1>5. \A a : \A c \in Currencies :
           Weigh(transactions', MoveIn(a, c))
             = Weigh(transactions, MoveIn(a, c)) + (IF a = account THEN amount[c] ELSE 0)
    <2> SUFFICES ASSUME NEW a, NEW c \in Currencies
                 PROVE  Weigh(transactions', MoveIn(a, c))
                          = Weigh(transactions, MoveIn(a, c)) + (IF a = account THEN amount[c] ELSE 0)
      OBVIOUS
    <2> DEFINE w == Weigh(transactions, MoveIn(a, c))
               x == MoveIn(a, c)[t]
               y == MoveIn(a, c)[u]
               z == IF a = account THEN amount[c] ELSE 0
    <2>1. w \in Int /\ x \in Int /\ y \in Int
      <3>1. MoveIn(a, c) \in [BookTransaction -> Int]
        BY WeightsAre
      <3> QED
        BY <1>1, <1>4, <3>1, MovesAre
    <2>2. x + y = z
      OBVIOUS
    <2>3. Weigh(transactions', MoveIn(a, c)) = w + x + y
      BY <1>3
    <2> HIDE DEF w, x, y, z
    <2>4. Weigh(transactions', MoveIn(a, c)) = w + z
      BY <2>1, <2>2, <2>3
    <2> QED
      BY <2>4 DEF w, z
  <1>6. amount["BTC"] + Weigh(transactions', MoveLeft) - OwedCoins'
          = Weigh(transactions, MoveLeft) - OwedCoins
    <2> DEFINE w == Weigh(transactions, MoveLeft)
               x == MoveLeft[t]
               y == MoveLeft[u]
               z == amount["BTC"]
               o == OwedCoins
    <2>1. w \in Int /\ x \in Int /\ y \in Int /\ z \in Int /\ o \in Int /\ OwedCoins' = o
      <3>1. MoveLeft \in [BookTransaction -> Int]
        BY WeightsAre
      <3>2. z \in Int
        BY DEF Money, Currencies
      <3>3. o \in Int /\ OwedCoins' = o
        BY <1>1, OwedIs DEF OwedCoins, Owed
      <3> QED
        BY <1>1, <1>4, <3>1, <3>2, <3>3, MovesAre
    <2>2. z + x + y = 0
      OBVIOUS
    <2>3. Weigh(transactions', MoveLeft) = w + x + y
      BY <1>3
    <2> HIDE DEF w, x, y, z, o
    <2>4. z + Weigh(transactions', MoveLeft) - OwedCoins' = w - o
      BY <2>1, <2>2, <2>3
    <2> QED
      BY <2>4 DEF w, z, o
  <1>7. \A i \in DOMAIN transactions : /\ i \in DOMAIN transactions'
                                       /\ transactions'[i].fee = transactions[i].fee
                                       /\ transactions'[i].bought = transactions[i].bought
    BY <1>3
  <1> QED
    BY <1>1, <1>3, <1>5, <1>6, <1>7, MovesEntered

\* What is in transit, or completed at once, is as it should be.
LEMMA TransitEnters ==
  ASSUME today \in Nat \ {0}, NEW account \in Accounts, NEW type \in MoveTypes,
         NEW amount \in Money, NEW fee \in Money, NEW t, t = Transit(account, type, amount, fee),
         type = "WITHDRAWL" => amount["BTC"] = 0 /\ fee["BTC"] = 0
  PROVE  /\ t \in EnteredMoves /\ MoveLeft[t] = amount["BTC"]
         /\ \A a : \A c \in Currencies : MoveIn(a, c)[t] = 0
  <1>1. /\ t \in BookTransaction
        /\ t.account = account /\ t.type = type /\ t.status = "IN_TRANSIT"
        /\ t.amount = amount /\ t.fee = fee /\ t.created = today
        /\ MoveLeft[t] = amount["BTC"]
    BY TransitIs
  <1>2. today \in 1..today
    OBVIOUS
  <1>3. t \in EnteredMoves
    BY <1>1, <1>2 DEF EnteredMoves
  <1> QED
    BY <1>1, <1>3, PendingIs

\* Moving coins keeps the books right.
LEMMA RecordWithdrawalInv ==
  ASSUME BooksInv, NEW source \in Accounts, NEW target \in Accounts,
         RecordWithdrawal(source, target)
  PROVE  BooksInv'
  <1> DEFINE fee == WithdrawalFee(source)
             t == Transit(target, "DEPOSIT", Moved, NoMoney)
             u == Entered(source, "WITHDRAWL", Moved, fee)
             amount == Minus(NoMoney, Plus(Moved, fee))
  <1>1. today \in Nat \ {0}
    BY DEF BooksInv, BooksTypeOK
  <1>2. /\ transactions' = transactions \o <<t, u>> /\ Credit(source, amount)
        /\ bookOrders' = bookOrders /\ debts' = debts /\ today' = today
        /\ watchSince' = watchSince /\ asked' \subseteq asked /\ paidAgain' = paidAgain
    BY DEF RecordWithdrawal, AddTransactions, Entered
  <1>3. /\ Moved \in Money /\ NoMoney \in Money /\ fee \in Money
        /\ \A c \in Currencies : NoMoney[c] = 0 /\ Moved[c] \in Int /\ fee[c] \in Int
    BY MoneyIs, TradeMoney DEF Moved, Money
  <1>4. amount \in Money /\ \A c \in Currencies : amount[c] = -Moved[c] - fee[c]
    <2>1. /\ Plus(Moved, fee) \in Money
          /\ \A c \in Currencies : Plus(Moved, fee)[c] = Moved[c] + fee[c]
      BY <1>3, MoneyAdds
    <2>2. amount \in Money /\ \A c \in Currencies : amount[c] = NoMoney[c] - Plus(Moved, fee)[c]
      BY <1>3, <2>1, MoneyAdds
    <2> QED
      BY <1>3, <2>1, <2>2
  <1>5. /\ t \in EnteredMoves /\ MoveLeft[t] = Moved["BTC"]
        /\ \A a : \A c \in Currencies : MoveIn(a, c)[t] = 0
    <2>1. "DEPOSIT" \in MoveTypes /\ "DEPOSIT" # "WITHDRAWL"
      BY DEF MoveTypes
    <2> HIDE DEF t
    <2>2. t = Transit(target, "DEPOSIT", Moved, NoMoney)
      BY DEF t
    <2> QED
      BY <1>1, <1>3, <2>1, <2>2, TransitEnters
  <1>6. /\ u \in EnteredMoves /\ u.account = source /\ u.type = "WITHDRAWL"
        /\ u.status = "COMPLETED" /\ u.amount = Moved /\ u.fee = fee /\ MoveLeft[u] = fee["BTC"]
    <2>1. "WITHDRAWL" \in MoveTypes
      BY DEF MoveTypes
    <2> HIDE DEF fee
    <2> QED
      BY <1>1, <1>3, <2>1, EnteredIs
  <1> HIDE DEF t, u, amount, fee
  <1>7. \A a : \A c \in Currencies : MoveIn(a, c)[u] = IF a = source THEN amount[c] ELSE 0
    <2>1. \A c \in Currencies :
           amount[c] = (IF u.type = "DEPOSIT" THEN u.amount[c] ELSE -u.amount[c]) - u.fee[c]
      BY <1>4, <1>6
    <2>2. u.amount \in Money /\ u.fee \in Money
      BY <1>3, <1>6
    <2> QED
      BY <1>4, <1>6, <2>1, <2>2, EnteredMoney
  <1>8. \A a : \A c \in Currencies :
           MoveIn(a, c)[t] + MoveIn(a, c)[u] = IF a = source THEN amount[c] ELSE 0
    BY <1>4, <1>5, <1>7 DEF Money
  <1>9. amount["BTC"] + MoveLeft[t] + MoveLeft[u] = 0
    BY <1>3, <1>4, <1>5, <1>6 DEF Currencies
  <1> QED
    BY <1>2, <1>4, <1>5, <1>6, <1>8, <1>9, TwiceEntered

\* Wiring money does, the fee taken out of the amount.
LEMMA RecordFiatWithdrawalInv ==
  ASSUME BooksInv, NEW source \in Accounts, NEW target \in Accounts,
         RecordFiatWithdrawal(source, target)
  PROVE  BooksInv'
  <1> DEFINE sent == Minus(Wired, WireFees.out)
             t == Entered(source, "WITHDRAWL", sent, WireFees.out)
             u == Transit(target, "DEPOSIT", sent, WireFees.in)
             amount == Minus(NoMoney, Wired)
  <1>1. today \in Nat \ {0}
    BY DEF BooksInv, BooksTypeOK
  <1>2. /\ transactions' = transactions \o <<t, u>> /\ Credit(source, amount)
        /\ bookOrders' = bookOrders /\ debts' = debts /\ today' = today
        /\ watchSince' = watchSince /\ asked' \subseteq asked /\ paidAgain' = paidAgain
    BY DEF RecordFiatWithdrawal, AddTransactions, Entered
  <1>3. /\ Wired \in Money /\ NoMoney \in Money /\ WireFees.out \in Money /\ WireFees.in \in Money
        /\ \A c \in Currencies : NoMoney[c] = 0 /\ Wired[c] \in Int /\ WireFees.out[c] \in Int
        /\ Wired["BTC"] = 0 /\ WireFees.out["BTC"] = 0
    BY MoneyIs DEF Wired, WireFees, Money
  <1>4. /\ amount \in Money /\ \A c \in Currencies : amount[c] = -Wired[c]
        /\ sent \in Money /\ \A c \in Currencies : sent[c] = Wired[c] - WireFees.out[c]
    <2>1. amount \in Money /\ \A c \in Currencies : amount[c] = NoMoney[c] - Wired[c]
      BY <1>3, MoneyAdds
    <2>2. sent \in Money /\ \A c \in Currencies : sent[c] = Wired[c] - WireFees.out[c]
      BY <1>3, MoneyAdds
    <2> QED
      BY <1>3, <2>1, <2>2
  <1> HIDE DEF sent
  <1>5. /\ u \in EnteredMoves /\ MoveLeft[u] = sent["BTC"]
        /\ \A a : \A c \in Currencies : MoveIn(a, c)[u] = 0
    <2>1. "DEPOSIT" \in MoveTypes /\ "DEPOSIT" # "WITHDRAWL"
      BY DEF MoveTypes
    <2> HIDE DEF u
    <2>2. u = Transit(target, "DEPOSIT", sent, WireFees.in)
      BY DEF u
    <2> QED
      BY <1>1, <1>3, <1>4, <2>1, <2>2, TransitEnters
  <1>6. /\ t \in EnteredMoves /\ t.account = source /\ t.type = "WITHDRAWL"
        /\ t.status = "COMPLETED" /\ t.amount = sent /\ t.fee = WireFees.out
        /\ MoveLeft[t] = WireFees.out["BTC"]
    <2>1. "WITHDRAWL" \in MoveTypes
      BY DEF MoveTypes
    <2> QED
      BY <1>1, <1>3, <1>4, <2>1, EnteredIs
  <1> HIDE DEF t, u, amount
  <1>7. \A a : \A c \in Currencies : MoveIn(a, c)[t] = IF a = source THEN amount[c] ELSE 0
    <2>1. \A c \in Currencies :
           amount[c] = (IF t.type = "DEPOSIT" THEN t.amount[c] ELSE -t.amount[c]) - t.fee[c]
      BY <1>3, <1>4, <1>6
    <2>2. t.amount \in Money /\ t.fee \in Money
      BY <1>3, <1>4, <1>6
    <2> QED
      BY <1>4, <1>6, <2>1, <2>2, EnteredMoney
  <1>8. \A a : \A c \in Currencies :
           MoveIn(a, c)[t] + MoveIn(a, c)[u] = IF a = source THEN amount[c] ELSE 0
    BY <1>4, <1>5, <1>7 DEF Money
  <1>9. amount["BTC"] + MoveLeft[t] + MoveLeft[u] = 0
    BY <1>3, <1>4, <1>5, <1>6 DEF Currencies
  <1> QED
    BY <1>2, <1>4, <1>5, <1>6, <1>8, <1>9, TwiceEntered

\* What a trade of an order weighs.
LEMMA TradeWeighs ==
  ASSUME NEW o \in BookOrder
  PROVE  /\ \A a : \A c \in Currencies :
              /\ TradeIn(a, c)[Kind(o, FALSE)] = IF a = o.account THEN TradePosition(o)[c] ELSE 0
              /\ TradeIn(a, c)[Kind(o, TRUE)] = IF a = o.account THEN TradePosition(o)[c] ELSE 0
         /\ TradeLeft[Kind(o, FALSE)] = -TradePosition(o)["BTC"]
         /\ TradeLeft[Kind(o, FALSE)] = TradeLeft[Kind(o, TRUE)] + TradeFee(o.account)["BTC"]
         /\ TradePosition(o) \in Money /\ o.account \in Accounts
  <1>1. Kind(o, FALSE) \in Kinds /\ Kind(o, TRUE) \in Kinds
    BY DEF Kind, Kinds, BookOrder
  <1>2. /\ TradePosition(o) \in Money
        /\ TradePosition(o)["BTC"] = (IF o.type = "BID" THEN Volume["BTC"] ELSE -Volume["BTC"])
                                        - TradeFee(o.account)["BTC"]
        /\ \A b : TradePosition(Kind(o, b)) = TradePosition(o)
    BY TradePositionIs
  <1>3. ASSUME NEW a, NEW c \in Currencies
        PROVE  /\ TradeIn(a, c)[Kind(o, FALSE)] = IF a = o.account THEN TradePosition(o)[c] ELSE 0
               /\ TradeIn(a, c)[Kind(o, TRUE)] = IF a = o.account THEN TradePosition(o)[c] ELSE 0
    <2>1. \A b : Kind(o, b).account = o.account
      BY DEF Kind
    <2> QED
      BY <1>1, <1>2, <2>1 DEF TradeIn
  <1> DEFINE volume == IF o.type = "BID" THEN Volume["BTC"] ELSE -Volume["BTC"]
             fee == TradeFee(o.account)["BTC"]
  <1>4. volume \in Int /\ fee \in Int
    BY TradeMoney
  <1>5. TradeLeft[Kind(o, FALSE)] = fee - volume /\ TradeLeft[Kind(o, TRUE)] = 0 - volume
    <2>1. Kind(o, FALSE) \in Kinds /\ Kind(o, TRUE) \in Kinds
      BY <1>1
    <2>2. \A b \in BOOLEAN : Kind(o, b).account = o.account /\ Kind(o, b).type = o.type
                             /\ Kind(o, b).bought = b
      BY DEF Kind
    <2> QED
      BY <2>1, <2>2 DEF TradeLeft
  <1>6. TradePosition(o)["BTC"] = volume - fee
    BY <1>2
  <1> HIDE DEF volume, fee
  <1>7. TradeLeft[Kind(o, FALSE)] = -TradePosition(o)["BTC"]
        /\ TradeLeft[Kind(o, FALSE)] = TradeLeft[Kind(o, TRUE)] + fee
    BY <1>4, <1>5, <1>6
  <1>8. o.account \in Accounts
    BY DEF BookOrder
  <1> QED
    BY <1>2, <1>3, <1>7, <1>8 DEF fee

\* The steps that enter trades only.
LEMMA TradesEntered ==
  ASSUME BooksInv, BooksTypeOK', AskedTrue', NEW account \in Accounts, NEW amount \in Money,
         Credit(account, amount), transactions' = transactions, debts' = debts,
         \A a : \A c \in Currencies :
           WeighRows(bookOrders', TradeIn(a, c))
             = WeighRows(bookOrders, TradeIn(a, c)) + (IF a = account THEN amount[c] ELSE 0),
         amount["BTC"] + WeighRows(bookOrders', TradeLeft) - paidAgain'
           = WeighRows(bookOrders, TradeLeft) - paidAgain
  PROVE  BooksInv'
  <1>1. BooksTypeOK /\ Accounted /\ Explained
    BY DEF BooksInv
  <1>2. \A a : \A c \in Currencies :
           WeighRows(bookOrders', TradeIn(a, c)) + Weigh(transactions', MoveIn(a, c))
             = WeighRows(bookOrders, TradeIn(a, c)) + Weigh(transactions, MoveIn(a, c))
                 + (IF a = account THEN amount[c] ELSE 0)
    <2> SUFFICES ASSUME NEW a, NEW c \in Currencies
                 PROVE  WeighRows(bookOrders', TradeIn(a, c)) + Weigh(transactions, MoveIn(a, c))
                          = WeighRows(bookOrders, TradeIn(a, c)) + Weigh(transactions, MoveIn(a, c))
                              + (IF a = account THEN amount[c] ELSE 0)
      OBVIOUS
    <2>1. /\ Weigh(transactions, MoveIn(a, c)) \in Int /\ WeighRows(bookOrders, TradeIn(a, c)) \in Int
          /\ amount[c] \in Int
      BY <1>1, MovesAre DEF Money
    <2> QED
      BY <2>1
  <1>3. amount["BTC"] + WeighRows(bookOrders', TradeLeft) + Weigh(transactions', MoveLeft)
               - paidAgain' - OwedCoins'
          = WeighRows(bookOrders, TradeLeft) + Weigh(transactions, MoveLeft)
              - paidAgain - OwedCoins
    <2> DEFINE x == amount["BTC"]
               r == WeighRows(bookOrders, TradeLeft)
               v == WeighRows(bookOrders', TradeLeft)
               w == Weigh(transactions, MoveLeft)
    <2>1. x \in Int /\ r \in Int /\ w \in Int /\ paidAgain \in Int /\ OwedCoins \in Int
      BY <1>1, MovesAre, OwedIs DEF BooksTypeOK, Money, Currencies
    <2>2. v \in Int /\ paidAgain' \in Int
      <3>1. (WeighRows(bookOrders, TradeLeft) \in Int)'
        BY MovesAre, PTL
      <3> QED
        BY <3>1 DEF BooksTypeOK
    <2>3. Weigh(transactions', MoveLeft) = w /\ OwedCoins' = OwedCoins
      BY DEF OwedCoins, Owed
    <2>4. x + v - paidAgain' = r - paidAgain
      OBVIOUS
    <2> HIDE DEF x, r, v, w
    <2>5. PICK p \in Int, q \in Int, o \in Int : p = paidAgain /\ q = paidAgain' /\ o = OwedCoins
      BY <2>1, <2>2
    <2>6. x + v - q = r - p
      BY <2>4, <2>5
    <2>7. x + v + w - q - o = r + w - p - o
      BY <2>1, <2>2, <2>6
    <2> QED
      BY <2>3, <2>5, <2>7 DEF x, r, v, w
  <1>4. Accounted' /\ Explained'
    BY <1>1, <1>2, <1>3, BooksStay
  <1> QED
    BY <1>4 DEF BooksInv

\* An order with its first trade keeps the books right.
LEMMA NewOrderInv ==
  ASSUME BooksInv, NEW account \in Accounts, NEW type \in {"BID", "ASK"}, NewOrder(account, type)
  PROVE  BooksInv'
  <1> DEFINE o == [account |-> account, type |-> type,
                   trades |-> <<[time |-> today, bought |-> FALSE]>>]
             amount == TradePosition(o)
  <1>1. BooksTypeOK /\ AskedTrue /\ Accounted /\ Explained /\ bookOrders \in BookOrders
        /\ today \in Nat \ {0}
    BY DEF BooksInv, BooksTypeOK
  <1>2. /\ bookOrders' = Append(bookOrders, o) /\ Credit(account, amount)
        /\ transactions' = transactions /\ debts' = debts /\ today' = today
        /\ watchSince' = watchSince /\ asked' = asked /\ paidAgain' = paidAgain
    BY DEF NewOrder
  <1>3. /\ o \in BookOrder /\ Len(o.trades) = 1 /\ ~o.trades[1].bought /\ o.account = account
        /\ o.trades \in Seq(EnteredTrades)
    <2>1. [time |-> today, bought |-> FALSE] \in EnteredTrades
          /\ [time |-> today, bought |-> FALSE] \in BookTrade
      BY <1>1 DEF EnteredTrades, BookTrade
    <2> QED
      BY <2>1 DEF BookOrder
  <1> HIDE DEF o
  <1>4. /\ bookOrders' \in BookOrders
        /\ \A V \in [Kinds -> Int] :
             WeighRows(bookOrders', V) = WeighRows(bookOrders, V) + V[Kind(o, FALSE)]
    <2>1. ASSUME NEW V \in [Kinds -> Int]
          PROVE  /\ bookOrders' \in BookOrders
                 /\ WeighRows(bookOrders', V) = WeighRows(bookOrders, V) + V[Kind(o, FALSE)]
      BY <1>1, <1>2, <1>3, RowsMore
    <2>2. TradeLeft \in [Kinds -> Int]
      BY WeightsAre
    <2> QED
      BY <2>1, <2>2
  <1>5. /\ \A a : \A c \in Currencies :
              TradeIn(a, c)[Kind(o, FALSE)] = IF a = account THEN amount[c] ELSE 0
        /\ TradeLeft[Kind(o, FALSE)] = -amount["BTC"] /\ amount \in Money
    BY <1>3, TradeWeighs
  <1>6. /\ DOMAIN bookOrders' = (DOMAIN bookOrders) \cup {Len(bookOrders) + 1}
        /\ \A i \in DOMAIN bookOrders : bookOrders'[i] = bookOrders[i]
        /\ bookOrders'[Len(bookOrders) + 1] = o
    BY <1>1, <1>2, <1>3, OrdersAre, AppendIs
  <1> HIDE DEF amount
  <1>7. BooksTypeOK'
    <2>1. balances' \in [Accounts -> Money]
      BY <1>1, <1>2, <1>5, CreditIs
    <2>2. EnteredMoves' = EnteredMoves /\ EnteredTrades' = EnteredTrades
          /\ EnteredDebts' = EnteredDebts
      BY <1>2 DEF EnteredMoves, EnteredTrades, EnteredDebts
    <2>3. \A i \in DOMAIN bookOrders' : bookOrders'[i].trades \in Seq(EnteredTrades)
      <3>1. \A i \in DOMAIN bookOrders : bookOrders'[i].trades \in Seq(EnteredTrades)
        BY <1>1, <1>6 DEF BooksTypeOK
      <3> QED
        BY <1>3, <1>6, <3>1
    <2> QED
      BY <1>1, <1>2, <1>4, <2>1, <2>2, <2>3 DEF BooksTypeOK
  <1>8. AskedTrue'
    <2>1. \A i \in OutstandingTransactions : /\ i \in OutstandingTransactions'
                                             /\ transactions'[i].fee = transactions[i].fee
      BY <1>2 DEF OutstandingTransactions
    <2>2. ASSUME NEW row \in OutstandingTrades
          PROVE  /\ row \in OutstandingTrades'
                 /\ bookOrders'[row[1]].account = bookOrders[row[1]].account
      <3>1. row \in TradeRows /\ row[1] \in DOMAIN bookOrders
        BY DEF OutstandingTrades, TradeRows
      <3>2. bookOrders'[row[1]] = bookOrders[row[1]] /\ row[1] \in DOMAIN bookOrders'
        BY <1>6, <3>1
      <3>3. row \in TradeRows'
        BY <1>6, <3>1, <3>2 DEF TradeRows
      <3> QED
        BY <3>2, <3>3 DEF OutstandingTrades
    <2> QED
      BY <1>1, <1>2, <2>1, <2>2, AskedKept
  <1>9. \A a : \A c \in Currencies :
           WeighRows(bookOrders', TradeIn(a, c))
             = WeighRows(bookOrders, TradeIn(a, c)) + (IF a = account THEN amount[c] ELSE 0)
    <2>1. \A a : \A c \in Currencies : TradeIn(a, c) \in [Kinds -> Int]
      BY WeightsAre
    <2> QED
      BY <1>4, <1>5, <2>1
  <1>10. amount["BTC"] + WeighRows(bookOrders', TradeLeft) - paidAgain'
           = WeighRows(bookOrders, TradeLeft) - paidAgain
    <2>1. /\ amount["BTC"] \in Int /\ WeighRows(bookOrders, TradeLeft) \in Int
          /\ paidAgain \in Int
      BY <1>1, <1>5, MovesAre DEF BooksTypeOK, Money, Currencies
    <2>2. WeighRows(bookOrders', TradeLeft) = WeighRows(bookOrders, TradeLeft) - amount["BTC"]
      <3>1. WeighRows(bookOrders', TradeLeft)
              = WeighRows(bookOrders, TradeLeft) + TradeLeft[Kind(o, FALSE)]
        BY <1>4, WeightsAre
      <3> QED
        BY <1>5, <2>1, <3>1
    <2> QED
      BY <1>2, <2>1, <2>2
  <1> QED
    BY <1>2, <1>5, <1>7, <1>8, <1>9, <1>10, TradesEntered

\* Without a credit the coins of all accounts stay.
LEMMA NoCredit ==
  ASSUME BooksTypeOK, NEW account \in Accounts, balances' = balances
  PROVE  Credit(account, NoMoney)
  <1> DEFINE b == balances[account]
  <1>1. b \in Money
    BY DEF BooksTypeOK
  <1>2. NoMoney \in Money /\ \A c \in Currencies : NoMoney[c] = 0 /\ b[c] \in Int
    BY <1>1, MoneyIs DEF Money
  <1>3. Plus(b, NoMoney) \in Money /\ \A c \in Currencies : Plus(b, NoMoney)[c] = b[c] + NoMoney[c]
    BY <1>1, <1>2, MoneyAdds
  <1>4. \A c \in Currencies : Plus(b, NoMoney)[c] = b[c]
    BY <1>2, <1>3
  <1>5. Plus(b, NoMoney) = b
    BY <1>1, <1>3, <1>4 DEF Money
  <1> QED
    BY <1>5 DEF Credit, BooksTypeOK

\* Of a question no row of which was replaced, none is a row of this order.
LEMMA AskedElsewhere ==
  ASSUME BooksTypeOK, AskedTrue, NEW i \in DOMAIN bookOrders, NEW ts \in Seq(BookTrade),
         bookOrders' = WithTrades(bookOrders, i, ts), bookOrders' \in BookOrders,
         transactions' = transactions,
         asked' = {[rows EXCEPT !.replaced = @ \/ \E k \in DOMAIN bookOrders[i].trades :
                                                    <<i, k>> \in rows.trades] : rows \in asked}
  PROVE  AskedTrue' /\ asked' \in SUBSET AskedRows
  <1> DEFINE Hit(rows) == \E k \in DOMAIN bookOrders[i].trades : <<i, k>> \in rows.trades
             Next1(rows) == [rows EXCEPT !.replaced = @ \/ Hit(rows)]
  <1>1. asked \in SUBSET AskedRows /\ bookOrders \in BookOrders
    BY DEF BooksTypeOK
  <1>2. ASSUME NEW rows \in asked
        PROVE  /\ Next1(rows) \in AskedRows
               /\ Next1(rows).trades = rows.trades /\ Next1(rows).transactions = rows.transactions
               /\ Next1(rows).amount = rows.amount
               /\ ~Next1(rows).replaced => ~rows.replaced /\ ~Hit(rows)
    <2>1. rows \in AskedRows
      BY <1>1
    <2> HIDE DEF Hit
    <2>2. PICK hit \in BOOLEAN : hit = (rows.replaced \/ Hit(rows))
      OBVIOUS
    <2>3. Next1(rows) = [rows EXCEPT !.replaced = hit]
      BY <2>2
    <2> HIDE DEF Next1
    <2> QED
      BY <2>1, <2>2, <2>3 DEF AskedRows
  <1>3. asked' = {Next1(rows) : rows \in asked}
    OBVIOUS
  <1> HIDE DEF Next1, Hit
  <1>4. asked' \in SUBSET AskedRows
    BY <1>2, <1>3
  <1>5. ASSUME NEW rows \in asked, ~rows.replaced, ~Hit(rows)
        PROVE  /\ rows.trades \subseteq OutstandingTrades'
               /\ rows.transactions \subseteq OutstandingTransactions'
               /\ TradeFeesOf(rows.trades)' = TradeFeesOf(rows.trades)
               /\ TransactionFeesOf(rows.transactions)' = TransactionFeesOf(rows.transactions)
               /\ rows.amount = SumOf(TradeFeesOf(rows.trades)).BTC
                                  + SumOf(TransactionFeesOf(rows.transactions)).BTC
    <2> DEFINE T == rows.trades
               U == rows.transactions
    <2>1. /\ T \subseteq OutstandingTrades /\ U \subseteq OutstandingTransactions
          /\ rows.amount = SumOf(TradeFeesOf(T)).BTC + SumOf(TransactionFeesOf(U)).BTC
      BY <1>5 DEF AskedTrue
    <2>2. ASSUME NEW row \in T
          PROVE  /\ row \in OutstandingTrades'
                 /\ bookOrders'[row[1]].account = bookOrders[row[1]].account
      <3>1. row \in TradeRows /\ row \in Rows(bookOrders) /\ row \in OutstandingTrades
        BY <2>1 DEF OutstandingTrades, TradeRows, Rows
      <3>2. row[1] \in DOMAIN bookOrders /\ row[2] \in DOMAIN bookOrders[row[1]].trades
            /\ row = <<row[1], row[2]>>
        BY <1>1, <3>1, RowsAre
      <3>3. row[1] # i
        BY <1>5, <3>2 DEF Hit
      <3>4. bookOrders'[row[1]] = bookOrders[row[1]] /\ DOMAIN bookOrders' = DOMAIN bookOrders
        BY <3>2, <3>3 DEF WithTrades
      <3>5. row \in TradeRows'
        BY <3>1, <3>2, <3>4 DEF TradeRows
      <3> QED
        BY <3>1, <3>4, <3>5 DEF OutstandingTrades
    <2>3. \A j \in U : /\ j \in OutstandingTransactions'
                       /\ transactions'[j].fee = transactions[j].fee
      BY <2>1 DEF OutstandingTransactions
    <2> HIDE DEF T, U
    <2>4. /\ T \subseteq OutstandingTrades' /\ U \subseteq OutstandingTransactions'
          /\ TradeFeesOf(T)' = TradeFeesOf(T) /\ TransactionFeesOf(U)' = TransactionFeesOf(U)
      BY <2>1, <2>2, <2>3, AskedStays
    <2> QED
      BY <2>1, <2>4 DEF T, U
  <1>6. AskedTrue'
    <2> SUFFICES ASSUME NEW new \in asked', ~new.replaced
                 PROVE  /\ new.trades \subseteq OutstandingTrades'
                        /\ new.transactions \subseteq OutstandingTransactions'
                        /\ new.amount = SumOf(TradeFeesOf(new.trades)').BTC
                                          + SumOf(TransactionFeesOf(new.transactions)').BTC
      BY DEF AskedTrue, TradeFeesOf, TransactionFeesOf
    <2>1. PICK rows \in asked : new = Next1(rows)
      BY <1>3
    <2>2. /\ new.trades = rows.trades /\ new.transactions = rows.transactions
          /\ new.amount = rows.amount /\ ~rows.replaced /\ ~Hit(rows)
      BY <1>2, <2>1
    <2>3. /\ rows.trades \subseteq OutstandingTrades'
          /\ rows.transactions \subseteq OutstandingTransactions'
          /\ rows.amount = SumOf(TradeFeesOf(rows.trades)').BTC
                             + SumOf(TransactionFeesOf(rows.transactions)').BTC
      BY <1>5, <2>2
    <2> QED
      BY <2>2, <2>3
  <1> QED
    BY <1>4, <1>6

\* A function on 1..n is a sequence.
LEMMA SeqFromFun ==
  ASSUME NEW S, NEW n \in Nat, NEW f \in [1..n -> S]
  PROVE  f \in Seq(S) /\ Len(f) = n /\ DOMAIN f = 1..n
  OBVIOUS

\* Entering the trades of an order anew keeps the books right: what was
\* bought back is outstanding again, and counted in paidAgain.
LEMMA SetTradesInv ==
  ASSUME BooksInv, NEW i \in DOMAIN bookOrders, NEW times \in Seq(1..today),
         Len(times) <= MaxBookTrades,
         Len(times) \in {Len(bookOrders[i].trades), Len(bookOrders[i].trades) + 1},
         SetTrades(i, times),
         transactions' = transactions, debts' = debts, today' = today, watchSince' = watchSince
  PROVE  BooksInv'
  <1> DEFINE o == bookOrders[i]
             n == Len(o.trades)
             ts == [k \in DOMAIN times |-> [time |-> times[k], bought |-> FALSE]]
             booking == TradePosition(o)
             amount == IF Len(ts) = n THEN NoMoney ELSE booking
             account == o.account
             fee == TradeFee(account)["BTC"]
             forgotten == Cardinality(BoughtOf(bookOrders, i))
  <1>1. BooksTypeOK /\ AskedTrue /\ bookOrders \in BookOrders /\ today \in Nat \ {0}
        /\ paidAgain \in Int
    BY DEF BooksInv, BooksTypeOK
  <1>2. o \in BookOrder /\ n \in Nat /\ i \in 1..Len(bookOrders) /\ account \in Accounts
    BY <1>1, OrdersAre
  <1>3. /\ ts \in Seq(EnteredTrades) /\ ts \in Seq(BookTrade) /\ Len(ts) = Len(times)
        /\ DOMAIN ts = DOMAIN times /\ \A k \in DOMAIN ts : ~ts[k].bought
    <2>1. DOMAIN times = 1..Len(times) /\ Len(times) \in Nat
          /\ \A k \in DOMAIN times : times[k] \in 1..today
      BY LenProperties, ElementOfSeq
    <2>2. \A k \in DOMAIN ts : ts[k] \in EnteredTrades
      BY <2>1 DEF EnteredTrades
    <2>3. EnteredTrades \subseteq BookTrade
      BY <1>1 DEF EnteredTrades, BookTrade
    <2>4. ts \in [1..Len(times) -> EnteredTrades]
      BY <2>1, <2>2
    <2> HIDE DEF ts
    <2>5. ts \in Seq(EnteredTrades) /\ Len(ts) = Len(times) /\ DOMAIN ts = DOMAIN times
      <3>1. PICK m \in Nat : m = Len(times)
        BY <2>1
      <3>2. ts \in [1..m -> EnteredTrades]
        BY <2>4, <3>1
      <3>3. ts \in Seq(EnteredTrades) /\ Len(ts) = m /\ DOMAIN ts = 1..m
        BY <3>2, SeqFromFun
      <3> QED
        BY <2>1, <3>1, <3>3
    <2>6. ts \in Seq(BookTrade)
      BY <2>3, <2>5, SeqMonotonic
    <2>7. \A k \in DOMAIN ts : ~ts[k].bought
      BY <2>5 DEF ts
    <2> QED
      BY <2>5, <2>6, <2>7
  <1>4. /\ bookOrders' = WithTrades(bookOrders, i, ts)
        /\ balances' = balances \/ Credit(account, booking)
        /\ Len(times) = n => balances' = balances
        /\ Len(times) # n => Credit(account, booking)
        /\ paidAgain' = paidAgain + forgotten * fee
        /\ asked' = {[rows EXCEPT !.replaced = @ \/ \E k \in DOMAIN o.trades :
                                                    <<i, k>> \in rows.trades] : rows \in asked}
    <2>1. BoughtOf(bookOrders, i) = {row \in TradeRows : row[1] = i /\ o.trades[row[2]].bought}
      BY DEF BoughtOf, Rows, TradeRows
    <2>2. Len(times) - n = 0 <=> Len(times) = n
      BY <1>2, LenProperties
    <2> QED
      BY <2>1, <2>2 DEF SetTrades, WithTrades
  <1> HIDE DEF ts
  <1>5. Len(ts) <= MaxBookTrades /\ Len(ts) \in {n, n + 1}
    BY <1>3
  <1>6. booking \in Money /\ fee \in {0, 1} /\ forgotten \in Nat
    <2>1. IsFiniteSet(BoughtOf(bookOrders, i))
      BY <1>1, RowsAre, FS_Subset DEF BoughtOf
    <2> QED
      BY <1>2, <2>1, TradeWeighs, TradeMoney, FS_CardinalityType
  <1>7. amount \in Money /\ Credit(account, amount)
    BY <1>1, <1>2, <1>3, <1>4, <1>6, NoCredit, MoneyIs
  <1>8. ASSUME NEW V \in [Kinds -> Int], NEW d \in {0, 1},
               V[Kind(o, FALSE)] = V[Kind(o, TRUE)] + d
        PROVE  WeighRows(bookOrders', V)
                 = WeighRows(bookOrders, V)
                     + (IF Len(ts) = n THEN 0 ELSE V[Kind(o, FALSE)])
                     + (IF d = 0 THEN 0 ELSE forgotten)
    BY <1>1, <1>3, <1>4, <1>5, <1>8, RowsAgain
  <1>9. /\ bookOrders' \in BookOrders /\ DOMAIN bookOrders' = DOMAIN bookOrders
        /\ \A j \in DOMAIN bookOrders : bookOrders'[j].trades = IF j = i THEN ts
                                                              ELSE bookOrders[j].trades
    <2>1. bookOrders' \in BookOrders /\ DOMAIN bookOrders' = DOMAIN bookOrders
      BY <1>1, <1>3, <1>4, <1>5, RowsReplaced
    <2>2. \A j \in DOMAIN bookOrders : bookOrders'[j].trades = IF j = i THEN ts
                                                              ELSE bookOrders[j].trades
      BY <1>2, <1>4 DEF WithTrades, BookOrder
    <2> QED
      BY <2>1, <2>2
  <1>10. AskedTrue' /\ asked' \in SUBSET AskedRows
    BY <1>1, <1>3, <1>4, <1>9, AskedElsewhere
  <1>11. /\ \A a : \A c \in Currencies :
              /\ TradeIn(a, c)[Kind(o, FALSE)] = IF a = account THEN booking[c] ELSE 0
              /\ TradeIn(a, c)[Kind(o, TRUE)] = IF a = account THEN booking[c] ELSE 0
         /\ TradeLeft[Kind(o, FALSE)] = -booking["BTC"]
         /\ TradeLeft[Kind(o, FALSE)] = TradeLeft[Kind(o, TRUE)] + fee
    BY <1>2, TradeWeighs
  <1> HIDE DEF booking, account, fee, forgotten, n
  <1>12. BooksTypeOK'
    <2>1. balances' \in [Accounts -> Money]
      BY <1>1, <1>2, <1>7, CreditIs
    <2>2. EnteredMoves' = EnteredMoves /\ EnteredTrades' = EnteredTrades
          /\ EnteredDebts' = EnteredDebts
      BY DEF EnteredMoves, EnteredTrades, EnteredDebts
    <2>3. \A j \in DOMAIN bookOrders' : bookOrders'[j].trades \in Seq(EnteredTrades)
      BY <1>1, <1>3, <1>9 DEF BooksTypeOK
    <2>4. paidAgain' \in Int
      BY <1>1, <1>4, <1>6
    <2> QED
      BY <1>1, <1>9, <1>10, <2>1, <2>2, <2>3, <2>4 DEF BooksTypeOK
  <1>13. \A a : \A c \in Currencies :
           WeighRows(bookOrders', TradeIn(a, c))
             = WeighRows(bookOrders, TradeIn(a, c)) + (IF a = account THEN amount[c] ELSE 0)
    <2> SUFFICES ASSUME NEW a, NEW c \in Currencies
                 PROVE  WeighRows(bookOrders', TradeIn(a, c))
                          = WeighRows(bookOrders, TradeIn(a, c))
                              + (IF a = account THEN amount[c] ELSE 0)
      OBVIOUS
    <2> DEFINE V == TradeIn(a, c)
               w == WeighRows(bookOrders, V)
               x == IF a = account THEN booking[c] ELSE 0
    <2>1. V \in [Kinds -> Int] /\ w \in Int /\ booking[c] \in Int /\ NoMoney[c] = 0
      BY <1>1, <1>6, MovesAre, WeightsAre, MoneyIs DEF Money
    <2>9. TradeIn(a, c)[Kind(o, FALSE)] = x /\ TradeIn(a, c)[Kind(o, TRUE)] = x
      BY <1>11
    <2> HIDE DEF V, w
    <2>10. V[Kind(o, FALSE)] = x /\ V[Kind(o, TRUE)] = x
      BY <2>9 DEF V
    <2>11. x \in Int
      BY <2>1
    <2>2. V[Kind(o, FALSE)] = x /\ V[Kind(o, TRUE)] = x /\ x \in Int
      BY <2>10, <2>11
    <2>3. V[Kind(o, FALSE)] = V[Kind(o, TRUE)] + 0
      BY <2>2
    <2>4. WeighRows(bookOrders', V)
            = WeighRows(bookOrders, V) + (IF Len(ts) = n THEN 0 ELSE V[Kind(o, FALSE)])
                + (IF 0 = 0 THEN 0 ELSE forgotten)
      BY <1>8, <2>1, <2>3
    <2>5. WeighRows(bookOrders', V) = w + (IF Len(ts) = n THEN 0 ELSE x) + 0
      BY <2>2, <2>4 DEF w
    <2>6. (IF Len(ts) = n THEN 0 ELSE x) = IF a = account THEN amount[c] ELSE 0
      BY <2>1
    <2>7. (IF Len(ts) = n THEN 0 ELSE x) \in Int
      BY <2>2
    <2> HIDE DEF x, amount
    <2>8. WeighRows(bookOrders', V) = w + (IF a = account THEN amount[c] ELSE 0)
      BY <2>1, <2>5, <2>6, <2>7
    <2> QED
      BY <2>8 DEF V, w
  <1>14. amount["BTC"] + WeighRows(bookOrders', TradeLeft) - paidAgain'
           = WeighRows(bookOrders, TradeLeft) - paidAgain
    <2> DEFINE w == WeighRows(bookOrders, TradeLeft)
               x == IF Len(ts) = n THEN 0 ELSE booking["BTC"]
               y == IF fee = 0 THEN 0 ELSE forgotten
    <2>1. /\ TradeLeft \in [Kinds -> Int] /\ w \in Int /\ booking["BTC"] \in Int
          /\ NoMoney["BTC"] = 0
      BY <1>1, <1>6, MovesAre, WeightsAre, MoneyIs DEF Money, Currencies
    <2>2. WeighRows(bookOrders', TradeLeft)
            = w + (IF Len(ts) = n THEN 0 ELSE TradeLeft[Kind(o, FALSE)]) + y
      BY <1>6, <1>8, <1>11, <2>1
    <2>3. (IF Len(ts) = n THEN 0 ELSE TradeLeft[Kind(o, FALSE)]) = -x /\ x \in Int
      BY <1>11, <2>1
    <2>4. amount["BTC"] = x
      BY <2>1
    <2>5. y = forgotten * fee /\ y \in Int
      BY <1>6
    <2> HIDE DEF w, x, y, amount
    <2>6. WeighRows(bookOrders', TradeLeft) = w + (-x) + y
      BY <2>2, <2>3
    <2>7. paidAgain' = paidAgain + y
      BY <1>4, <2>5
    <2>8. x + WeighRows(bookOrders', TradeLeft) - paidAgain' = w - paidAgain
      BY <1>1, <2>1, <2>3, <2>5, <2>6, <2>7
    <2> QED
      BY <2>4, <2>8 DEF w
  <1> QED
    BY <1>2, <1>7, <1>10, <1>12, <1>13, <1>14, TradesEntered

\* Entering an order's details keeps the books right.
LEMMA EatenInv ==
  ASSUME BooksInv, NEW i \in DOMAIN bookOrders, Eaten(i)
  PROVE  BooksInv'
  <1> DEFINE trades == bookOrders[i].trades
             times == [k \in DOMAIN trades |-> trades[k].time]
  <1>1. /\ trades \in Seq(EnteredTrades) /\ Len(trades) <= MaxBookTrades
        /\ today \in Nat \ {0} /\ MaxBookTrades \in Nat
    <2>1. BooksTypeOK /\ bookOrders \in BookOrders
      BY DEF BooksInv, BooksTypeOK
    <2> QED
      BY <2>1, OrdersAre, BooksAssumption DEF BooksTypeOK
  <1>2. times \in Seq(1..today) /\ Len(times) = Len(trades) /\ Len(trades) \in Nat
    <2>1. DOMAIN trades = 1..Len(trades) /\ Len(trades) \in Nat
          /\ \A k \in DOMAIN trades : trades[k] \in EnteredTrades
      BY <1>1, LenProperties, ElementOfSeq
    <2>2. \A k \in DOMAIN trades : trades[k].time \in 1..today
      BY <2>1 DEF EnteredTrades
    <2> HIDE DEF trades
    <2> QED
      BY <2>1, <2>2
  <1>3. /\ (Len(times) < MaxBookTrades /\ SetTrades(i, Append(times, today))) \/ SetTrades(i, times)
        /\ transactions' = transactions /\ debts' = debts /\ today' = today
        /\ watchSince' = watchSince
    BY DEF Eaten
  <1> HIDE DEF times
  <1>4. CASE Len(times) < MaxBookTrades /\ SetTrades(i, Append(times, today))
    <2>1. today \in 1..today
      BY <1>1
    <2>2. Append(times, today) \in Seq(1..today) /\ Len(Append(times, today)) = Len(trades) + 1
      BY <1>2, <2>1, AppendIs
    <2>3. Len(Append(times, today)) <= MaxBookTrades
      BY <1>1, <1>2, <1>4, <2>2
    <2> QED
      BY <1>3, <1>4, <2>2, <2>3, SetTradesInv
  <1>5. CASE SetTrades(i, times)
    BY <1>1, <1>2, <1>3, <1>5, SetTradesInv
  <1> QED
    BY <1>3, <1>4, <1>5

\* The steps that enter nothing.
LEMMA NothingEntered ==
  ASSUME BooksInv, BooksTypeOK', AskedTrue',
         UNCHANGED <<bookOrders, transactions, balances, debts, paidAgain>>
  PROVE  BooksInv'
  <1>1. Accounted'
    BY DEF BooksInv, Accounted, TradeIn, MoveIn
  <1>2. Explained'
    BY DEF BooksInv, Explained, TradeLeft, MoveLeft, OwedCoins, Owed
  <1> QED
    BY <1>1, <1>2 DEF BooksInv

\* What was asked stays true when orders and transactions stay.
LEMMA AskedSame ==
  ASSUME AskedTrue, asked' \subseteq asked, UNCHANGED <<bookOrders, transactions>>
  PROVE  AskedTrue'
  <1>1. \A row \in OutstandingTrades :
           /\ row \in OutstandingTrades'
           /\ bookOrders'[row[1]].account = bookOrders[row[1]].account
    BY DEF OutstandingTrades, TradeRows
  <1>2. \A i \in OutstandingTransactions :
           /\ i \in OutstandingTransactions'
           /\ transactions'[i].fee = transactions[i].fee
    BY DEF OutstandingTransactions
  <1> QED
    BY <1>1, <1>2, AskedKept

\* Starting the overwatch bot keeps the books right.
LEMMA StartWatchInv ==
  ASSUME BooksInv, StartWatch
  PROVE  BooksInv'
  <1>1. UNCHANGED <<bookOrders, transactions, balances, debts, today, asked, paidAgain>>
        /\ watchSince' = today
    BY DEF StartWatch
  <1>2. BooksTypeOK'
    BY <1>1 DEF BooksInv, BooksTypeOK, EnteredTrades, EnteredMoves, EnteredDebts
  <1>3. AskedTrue'
    BY <1>1, AskedSame DEF BooksInv
  <1> QED
    BY <1>1, <1>2, <1>3, NothingEntered

\* A day passing does.
LEMMA TickInv ==
  ASSUME BooksInv, Tick
  PROVE  BooksInv'
  <1>1. UNCHANGED <<bookOrders, transactions, balances, debts, watchSince, asked, paidAgain>>
        /\ today' = today + 1
    BY DEF Tick
  <1>2. BooksTypeOK'
    <2>1. BooksTypeOK /\ today \in Nat
      BY DEF BooksInv, BooksTypeOK
    <2>2. today' \in Nat \ {0} /\ 1..today \subseteq 1..today' /\ 0..today \subseteq 0..today'
      BY <1>1, <2>1
    <2>3. EnteredTrades \subseteq EnteredTrades'
      BY <2>2 DEF EnteredTrades
    <2>4. EnteredMoves \subseteq EnteredMoves'
      BY <2>2 DEF EnteredMoves
    <2>5. EnteredDebts \subseteq EnteredDebts'
      BY <2>2 DEF EnteredDebts
    <2>6. transactions' \in Seq(EnteredMoves') /\ debts' \in Seq(EnteredDebts')
      <3>1. transactions \in Seq(EnteredMoves') 
        BY <2>1, <2>4, SeqMonotonic DEF BooksTypeOK
      <3>2. debts \in Seq(EnteredDebts')
        BY <2>1, <2>5, SeqMonotonic DEF BooksTypeOK
      <3> QED
        BY <1>1, <3>1, <3>2
    <2>7. \A i \in DOMAIN bookOrders' : bookOrders'[i].trades \in Seq(EnteredTrades')
      <3>1. ASSUME NEW i \in DOMAIN bookOrders
            PROVE  bookOrders[i].trades \in Seq(EnteredTrades')
        <4>1. bookOrders[i].trades \in Seq(EnteredTrades)
          BY <2>1 DEF BooksTypeOK
        <4> QED
          BY <2>3, <4>1, SeqMonotonic
      <3> QED
        BY <1>1, <3>1
    <2> QED
      BY <1>1, <2>1, <2>2, <2>6, <2>7 DEF BooksTypeOK
  <1>3. AskedTrue'
    BY <1>1, AskedSame DEF BooksInv
  <1> QED
    BY <1>1, <1>2, <1>3, NothingEntered

\* So does what does not touch the books.
LEMMA StandingStillInv ==
  ASSUME BooksInv, UNCHANGED bookVars
  PROVE  BooksInv'
  <1>1. UNCHANGED <<bookOrders, transactions, balances, debts, today, watchSince, asked, paidAgain>>
    BY DEF bookVars
  <1>2. BooksTypeOK'
    BY <1>1 DEF BooksInv, BooksTypeOK, EnteredTrades, EnteredMoves, EnteredDebts
  <1>3. AskedTrue'
    BY <1>1, AskedSame DEF BooksInv
  <1> QED
    BY <1>1, <1>2, <1>3, NothingEntered

\* What is outstanding are rows of trades and of transactions.
LEMMA OutstandingAre ==
  ASSUME BooksTypeOK
  PROVE  /\ OutstandingTrades \in SUBSET (Nat \X Nat) /\ OutstandingTransactions \in SUBSET Nat
         /\ IsFiniteSet(OutstandingTrades) /\ IsFiniteSet(OutstandingTransactions)
         /\ OutstandingTrades \subseteq Rows(bookOrders)
         /\ OutstandingTransactions \subseteq DOMAIN transactions
  <1>1. bookOrders \in BookOrders /\ TradeRows = Rows(bookOrders)
    BY DEF BooksTypeOK, TradeRows, Rows
  <1>2. OutstandingTrades \subseteq Rows(bookOrders)
    BY <1>1 DEF OutstandingTrades
  <1>3. IsFiniteSet(OutstandingTrades)
    BY <1>1, <1>2, RowsAre, FS_Subset
  <1>4. OutstandingTrades \in SUBSET (Nat \X Nat)
    <2>1. DOMAIN bookOrders \subseteq Nat /\ 1..MaxBookTrades \subseteq Nat
      BY <1>1, OrdersAre, BooksAssumption
    <2>2. Rows(bookOrders) \subseteq (DOMAIN bookOrders) \X (1..MaxBookTrades)
      BY DEF Rows
    <2> QED
      BY <1>2, <2>1, <2>2
  <1>5. DOMAIN transactions = 1..Len(transactions) /\ Len(transactions) \in Nat
    BY MovesAre
  <1>6. OutstandingTransactions \subseteq DOMAIN transactions
    BY DEF OutstandingTransactions
  <1>7. IsFiniteSet(DOMAIN transactions) /\ DOMAIN transactions \subseteq Nat
    BY <1>5, FS_Interval
  <1>8. IsFiniteSet(OutstandingTransactions) /\ OutstandingTransactions \in SUBSET Nat
    BY <1>6, <1>7, FS_Subset
  <1> QED
    BY <1>2, <1>3, <1>4, <1>6, <1>8

\* The fees of rows, as sums of numbers.
LEMMA FeesAre ==
  ASSUME BooksTypeOK, NEW T, T \subseteq Rows(bookOrders), NEW U, U \subseteq DOMAIN transactions
  PROVE  /\ SumOf(TradeFeesOf(T)).BTC = Total(Parts(TradeFeesOf(T), "BTC"), T)
         /\ SumOf(TransactionFeesOf(U)).BTC = Total(Parts(TransactionFeesOf(U), "BTC"), U)
         /\ Summands(Parts(TradeFeesOf(T), "BTC"), T)
         /\ Summands(Parts(TransactionFeesOf(U), "BTC"), U)
         /\ \A row \in T : Parts(TradeFeesOf(T), "BTC")[row] = TradeFee(bookOrders[row[1]].account)["BTC"]
         /\ \A i \in U : Parts(TransactionFeesOf(U), "BTC")[i] = transactions[i].fee["BTC"]
  <1>1. "BTC" \in Currencies
    BY DEF Currencies
  <1>2. DOMAIN TradeFeesOf(T) = T /\ DOMAIN TransactionFeesOf(U) = U
    BY DEF TradeFeesOf, TransactionFeesOf
  <1>3. /\ SumOf(TradeFeesOf(T)).BTC = Total(Parts(TradeFeesOf(T), "BTC"), T)
        /\ SumOf(TransactionFeesOf(U)).BTC = Total(Parts(TransactionFeesOf(U), "BTC"), U)
    BY <1>1, <1>2, SumOfIs
  <1>4. /\ \A row \in T : Parts(TradeFeesOf(T), "BTC")[row] = TradeFee(bookOrders[row[1]].account)["BTC"]
        /\ \A i \in U : Parts(TransactionFeesOf(U), "BTC")[i] = transactions[i].fee["BTC"]
    BY DEF Parts, TradeFeesOf, TransactionFeesOf
  <1>5. IsFiniteSet(T) /\ IsFiniteSet(U)
    <2>1. bookOrders \in BookOrders
      BY DEF BooksTypeOK
    <2>2. DOMAIN transactions = 1..Len(transactions) /\ Len(transactions) \in Nat
      BY MovesAre
    <2>3. IsFiniteSet(DOMAIN transactions) /\ IsFiniteSet(Rows(bookOrders))
      BY <2>1, <2>2, RowsAre, FS_Interval
    <2> QED
      BY <2>3, FS_Subset
  <1>6. \A i \in U : transactions[i].fee["BTC"] \in Int
    <2>1. \A i \in U : transactions[i] \in BookTransaction
      BY MovesAre
    <2> QED
      BY <1>1, <2>1 DEF BookTransaction, Money
  <1>7. \A a : TradeFee(a)["BTC"] \in Int
    BY TradeMoney
  <1>8. Summands(Parts(TradeFeesOf(T), "BTC"), T)
    BY <1>4, <1>5, <1>7 DEF Summands
  <1>9. Summands(Parts(TransactionFeesOf(U), "BTC"), U)
    BY <1>4, <1>5, <1>6 DEF Summands
  <1> QED
    BY <1>3, <1>4, <1>8, <1>9

\* What fee_buyback reads at its prompt is outstanding, and adds up.
LEMMA AskBuybackInv ==
  ASSUME BooksInv, AskBuyback
  PROVE  BooksInv'
  <1> DEFINE T == OutstandingTrades
             U == OutstandingTransactions
             rows == [trades |-> T, transactions |-> U, amount |-> OutstandingFees,
                      replaced |-> FALSE]
  <1>1. /\ BooksTypeOK /\ asked' = {rows}
        /\ UNCHANGED <<bookOrders, transactions, balances, debts, today, watchSince, paidAgain>>
    BY DEF AskBuyback, BooksInv
  <1>2. /\ T \in SUBSET (Nat \X Nat) /\ U \in SUBSET Nat
        /\ T \subseteq Rows(bookOrders) /\ U \subseteq DOMAIN transactions
    BY <1>1, OutstandingAre
  <1>3. OutstandingFees = SumOf(TradeFeesOf(T)).BTC + SumOf(TransactionFeesOf(U)).BTC
    BY DEF OutstandingFees, TradeFeesOf, TransactionFeesOf
  <1>4. OutstandingFees \in Int
    <2>1. /\ SumOf(TradeFeesOf(T)).BTC = Total(Parts(TradeFeesOf(T), "BTC"), T)
          /\ SumOf(TransactionFeesOf(U)).BTC = Total(Parts(TransactionFeesOf(U), "BTC"), U)
          /\ Summands(Parts(TradeFeesOf(T), "BTC"), T)
          /\ Summands(Parts(TransactionFeesOf(U), "BTC"), U)
      BY <1>1, <1>2, FeesAre
    <2>2. Total(Parts(TradeFeesOf(T), "BTC"), T) \in Int
      BY <2>1, TotalStep
    <2>3. Total(Parts(TransactionFeesOf(U), "BTC"), U) \in Int
      BY <2>1, TotalStep
    <2> QED
      BY <1>3, <2>1, <2>2, <2>3
  <1>5. /\ rows \in AskedRows /\ rows.trades = T /\ rows.transactions = U
        /\ rows.amount = OutstandingFees
    BY <1>2, <1>4 DEF AskedRows
  <1> HIDE DEF rows
  <1>6. BooksTypeOK'
    BY <1>1, <1>5 DEF BooksTypeOK, EnteredTrades, EnteredMoves, EnteredDebts
  <1>7. OutstandingTrades' = T /\ OutstandingTransactions' = U
    BY <1>1 DEF OutstandingTrades, TradeRows, OutstandingTransactions
  <1>8. AskedTrue'
    <2> SUFFICES ASSUME NEW asking \in asked'
                 PROVE  /\ asking.trades \subseteq OutstandingTrades'
                        /\ asking.transactions \subseteq OutstandingTransactions'
                        /\ asking.amount = SumOf(TradeFeesOf(asking.trades)').BTC
                                             + SumOf(TransactionFeesOf(asking.transactions)').BTC
      BY DEF AskedTrue, TradeFeesOf, TransactionFeesOf
    <2>1. asking = rows
      BY <1>1
    <2>2. TradeFeesOf(T)' = TradeFeesOf(T) /\ TransactionFeesOf(U)' = TransactionFeesOf(U)
      BY <1>1, <1>7 DEF TradeFeesOf, TransactionFeesOf
    <2> HIDE DEF T, U
    <2>3. /\ TradeFeesOf(asking.trades)' = TradeFeesOf(T)
          /\ TransactionFeesOf(asking.transactions)' = TransactionFeesOf(U)
      BY <1>5, <2>1, <2>2, <1>1, <1>7 DEF TradeFeesOf, TransactionFeesOf
    <2> QED
      BY <1>3, <1>5, <1>7, <2>1, <2>3
  <1> QED
    BY <1>1, <1>6, <1>8, NothingEntered DEF BooksInv

\* The fees of some trades, which were not, are marked as bought.
MarkedOrder(order, i, T) ==
  LET trades == order.trades
  IN  [order EXCEPT !.trades =
         [k \in DOMAIN trades |-> [trades[k] EXCEPT !.bought = @ \/ <<i, k>> \in T]]]
MarkedOrders(orders, T) == [i \in DOMAIN orders |-> MarkedOrder(orders[i], i, T)]

Markable(Trade) ==
  \A trade \in Trade :
    /\ trade.bought \in BOOLEAN
    /\ \A b \in BOOLEAN : /\ [trade EXCEPT !.bought = b] \in Trade
                          /\ [trade EXCEPT !.bought = b].bought = b

\* Marking a trade changes nothing but its mark.
LEMMA TradeMarked ==
  ASSUME NEW Trade, NEW trade \in Trade, NEW x, Markable(Trade)
  PROVE  LET new == [trade EXCEPT !.bought = @ \/ x]
         IN  /\ new \in Trade
             /\ new.bought <=> trade.bought \/ x
  <1>1. PICK b \in BOOLEAN : b = (trade.bought \/ x)
    OBVIOUS
  <1>2. [trade EXCEPT !.bought = @ \/ x] = [trade EXCEPT !.bought = b]
    BY <1>1
  <1>3. /\ [trade EXCEPT !.bought = b] \in Trade
        /\ [trade EXCEPT !.bought = b].bought = b
    BY DEF Markable
  <1> QED
    BY <1>1, <1>2, <1>3

\* The trades of the books can be marked.
LEMMA TradesMarkable ==
  /\ Markable(BookTrade) /\ Markable(EnteredTrades)
  BY DEF Markable, BookTrade, EnteredTrades

\* Marking trades of an order.
LEMMA OrderMarked ==
  ASSUME NEW order \in BookOrder, NEW i, NEW T, NEW Trade, NEW new,
         Markable(Trade), order.trades \in Seq(Trade),
         new = MarkedOrder(order, i, T)
  PROVE  /\ new.account = order.account /\ new.type = order.type
         /\ new.trades \in Seq(Trade)
         /\ Len(new.trades) = Len(order.trades) /\ DOMAIN new.trades = DOMAIN order.trades
         /\ \A k \in DOMAIN order.trades :
              new.trades[k].bought <=> order.trades[k].bought \/ <<i, k>> \in T
  <1> DEFINE ts == order.trades
             marked == [k \in DOMAIN ts |-> [ts[k] EXCEPT !.bought = @ \/ <<i, k>> \in T]]
  <1>1. new.account = order.account /\ new.type = order.type /\ new.trades = marked
    <2>1. new = [order EXCEPT !.trades = marked]
      BY DEF MarkedOrder
    <2> HIDE DEF marked
    <2> QED
      BY <2>1 DEF BookOrder
  <1>2. PICK m \in Nat : m = Len(ts) /\ DOMAIN ts = 1..m /\ \A k \in 1..m : ts[k] \in Trade
    BY LenProperties, ElementOfSeq
  <1>3. ASSUME NEW k \in 1..m
        PROVE  marked[k] \in Trade /\ (marked[k].bought <=> ts[k].bought \/ <<i, k>> \in T)
    <2>1. PICK trade \in Trade : trade = ts[k]
      BY <1>2
    <2>2. marked[k] = [trade EXCEPT !.bought = @ \/ <<i, k>> \in T]
      BY <1>2, <2>1
    <2> HIDE DEF marked
    <2> QED
      BY <2>1, <2>2, TradeMarked
  <1>4. marked \in [1..m -> Trade]
    <2>1. marked = [k \in 1..m |-> marked[k]]
      BY <1>2
    <2> HIDE DEF marked
    <2> QED
      BY <1>3, <2>1
  <1> HIDE DEF marked
  <1>5. marked \in Seq(Trade) /\ Len(marked) = m /\ DOMAIN marked = 1..m
    BY <1>4, SeqFromFun
  <1> QED
    BY <1>1, <1>2, <1>3, <1>5

\* Marking trades of all orders.
LEMMA RowsMarked ==
  ASSUME NEW orders \in BookOrders, NEW T, NEW new, new = MarkedOrders(orders, T)
  PROVE  /\ new \in BookOrders /\ DOMAIN new = DOMAIN orders /\ Rows(new) = Rows(orders)
         /\ \A row \in Rows(orders) :
              RowKind(new, row)
                = Kind(orders[row[1]], orders[row[1]].trades[row[2]].bought \/ row \in T)
  <1>1. /\ orders \in Seq(BookOrder) /\ Len(orders) \in Nat /\ DOMAIN orders = 1..Len(orders)
        /\ \A i \in DOMAIN orders :
              /\ orders[i] \in BookOrder
              /\ orders[i].trades \in Seq(BookTrade)
              /\ Len(orders[i].trades) <= MaxBookTrades
    BY OrdersAre
  <1>2. ASSUME NEW i \in DOMAIN orders
        PROVE  /\ new[i].account = orders[i].account /\ new[i].type = orders[i].type
               /\ new[i].trades \in Seq(BookTrade)
               /\ Len(new[i].trades) = Len(orders[i].trades)
               /\ DOMAIN new[i].trades = DOMAIN orders[i].trades
               /\ \A k \in DOMAIN orders[i].trades :
                    new[i].trades[k].bought <=> orders[i].trades[k].bought \/ <<i, k>> \in T
    <2>1. PICK order \in BookOrder : order = orders[i]
      BY <1>1
    <2>2. new[i] = MarkedOrder(order, i, T)
      BY <2>1 DEF MarkedOrders
    <2>3. order.trades \in Seq(BookTrade)
      BY <1>1, <2>1
    <2>6. Markable(BookTrade)
      BY TradesMarkable
    <2> DEFINE o == new[i]
    <2>4. o = MarkedOrder(order, i, T)
      BY <2>2
    <2> HIDE DEF o
    <2>5. /\ o.account = order.account /\ o.type = order.type
          /\ o.trades \in Seq(BookTrade)
          /\ Len(o.trades) = Len(order.trades) /\ DOMAIN o.trades = DOMAIN order.trades
          /\ \A k \in DOMAIN order.trades :
               o.trades[k].bought <=> order.trades[k].bought \/ <<i, k>> \in T
      BY <2>3, <2>4, <2>6, OrderMarked
    <2> QED
      BY <2>1, <2>5 DEF o
  <1>3. ASSUME NEW i \in DOMAIN orders
        PROVE  new[i] \in BookOrder /\ Len(new[i].trades) <= MaxBookTrades
    <2>1. PICK order \in BookOrder : order = orders[i]
      BY <1>1
    <2>2. new[i] = [order EXCEPT !.trades = new[i].trades]
      BY <1>2, <2>1 DEF MarkedOrders, MarkedOrder, BookOrder
    <2>3. PICK ts \in Seq(BookTrade) : ts = new[i].trades
      BY <1>2
    <2>4. [order EXCEPT !.trades = ts] \in BookOrder
      BY DEF BookOrder
    <2> QED
      BY <1>1, <1>2, <2>2, <2>3, <2>4
  <1>4. new \in BookOrders /\ DOMAIN new = DOMAIN orders
    <2>1. PICK m \in Nat : m = Len(orders) /\ DOMAIN orders = 1..m
      BY <1>1
    <2>2. new = [i \in 1..m |-> new[i]]
      BY <2>1 DEF MarkedOrders
    <2>3. new \in [1..m -> BookOrder]
      BY <1>3, <2>1, <2>2
    <2>4. new \in Seq(BookOrder) /\ DOMAIN new = 1..m
      BY <2>3, SeqFromFun
    <2> QED
      BY <1>3, <2>1, <2>4 DEF BookOrders
  <1>5. Rows(new) = Rows(orders)
    <2>1. \A i \in DOMAIN orders : DOMAIN new[i].trades = DOMAIN orders[i].trades
      BY <1>2
    <2>2. (DOMAIN new) \X (1..MaxBookTrades) = (DOMAIN orders) \X (1..MaxBookTrades)
      BY <1>4
    <2>3. \A row \in (DOMAIN orders) \X (1..MaxBookTrades) : row[1] \in DOMAIN orders
      OBVIOUS
    <2> QED
      BY <2>1, <2>2, <2>3 DEF Rows
  <1>6. ASSUME NEW row \in Rows(orders)
        PROVE  RowKind(new, row)
                 = Kind(orders[row[1]], orders[row[1]].trades[row[2]].bought \/ row \in T)
    <2>1. /\ row[1] \in DOMAIN orders /\ row[2] \in DOMAIN orders[row[1]].trades
          /\ row = <<row[1], row[2]>>
      BY RowsAre
    <2>2. PICK i, k : i \in DOMAIN orders /\ i = row[1] /\ k = row[2] /\ k \in DOMAIN orders[i].trades
                                        /\ row = <<i, k>>
      BY <2>1
    <2>3. /\ new[i].account = orders[i].account /\ new[i].type = orders[i].type
          /\ new[i].trades[k].bought <=> orders[i].trades[k].bought \/ row \in T
      BY <1>2, <2>2
    <2>4. new[i].trades[k].bought \in BOOLEAN /\ orders[i].trades[k].bought \in BOOLEAN
      <3>1. new[i].trades[k] \in BookTrade /\ orders[i].trades[k] \in BookTrade
        BY <1>2, <1>4, <2>2, OrdersAre
      <3> QED
        BY <3>1 DEF BookTrade
    <2>5. new[i].trades[k].bought = (orders[i].trades[k].bought \/ row \in T)
      BY <2>3, <2>4
    <2> QED
      BY <2>2, <2>3, <2>5 DEF RowKind, Kind
  <1> QED
    BY <1>4, <1>5, <1>6

Relieves(h, orders, T, V) ==
  \A row \in T : /\ ~orders[row[1]].trades[row[2]].bought
                 /\ h[row] = V[Kind(orders[row[1]], FALSE)] - V[Kind(orders[row[1]], TRUE)]

\* Marked trades leave what they relieve.
LEMMA MarkedWeigh ==
  ASSUME NEW orders \in BookOrders, NEW T, NEW new, NEW V \in [Kinds -> Int], NEW h,
         new = MarkedOrders(orders, T), T \in SUBSET Rows(orders), Relieves(h, orders, T, V)
  PROVE  WeighRows(orders, V) = WeighRows(new, V) + Total(h, T)
  <1> DEFINE D == Rows(orders)
  <1> USE DEF Relieves
  <1>1. /\ new \in BookOrders /\ Rows(new) = D
        /\ \A row \in D :
             RowKind(new, row)
               = Kind(orders[row[1]], orders[row[1]].trades[row[2]].bought \/ row \in T)
    BY RowsMarked
  <1>2. ASSUME NEW row \in D, row \notin T
        PROVE  RowWeights(orders, V)[row] = RowWeights(new, V)[row]
    <2>1. orders[row[1]].trades[row[2]].bought \in BOOLEAN
      <3>1. row[1] \in DOMAIN orders /\ row[2] \in DOMAIN orders[row[1]].trades
        BY RowsAre
      <3>2. orders[row[1]].trades[row[2]] \in BookTrade
        BY <3>1, OrdersAre
      <3> QED
        BY <3>2 DEF BookTrade
    <2>2. RowKind(new, row) = RowKind(orders, row)
      BY <1>1, <1>2, <2>1 DEF RowKind
    <2> QED
      BY <1>1, <2>2 DEF RowWeights
  <1>3. ASSUME NEW row \in T
        PROVE  h[row] = RowWeights(orders, V)[row] - RowWeights(new, V)[row]
    <2>1. orders[row[1]].trades[row[2]].bought = FALSE
      <3>1. row[1] \in DOMAIN orders /\ row[2] \in DOMAIN orders[row[1]].trades
        BY RowsAre
      <3>2. orders[row[1]].trades[row[2]] \in BookTrade
        BY <3>1, OrdersAre
      <3> QED
        BY <3>2 DEF BookTrade
    <2>2. RowKind(orders, row) = Kind(orders[row[1]], FALSE)
          /\ RowKind(new, row) = Kind(orders[row[1]], TRUE)
      <3>1. RowKind(new, row)
               = Kind(orders[row[1]], orders[row[1]].trades[row[2]].bought \/ row \in T)
        BY <1>1
      <3>2. (orders[row[1]].trades[row[2]].bought \/ row \in T) = TRUE
        OBVIOUS
      <3> QED
        BY <2>1, <3>1, <3>2 DEF RowKind
    <2>3. row \in D
      OBVIOUS
    <2> QED
      BY <1>1, <2>2, <2>3 DEF RowWeights
  <1>4. Rows(new) \subseteq Rows(orders) /\ T \in SUBSET Rows(new)
        /\ \A row \in Rows(new) \ T : RowWeights(orders, V)[row] = RowWeights(new, V)[row]
    BY <1>1, <1>2
  <1> HIDE DEF D
  <1>5. Total(RowWeights(orders, V), Rows(new)) = WeighRows(new, V) + Total(h, T)
    BY <1>1, <1>3, <1>4, RowsDiffer
  <1> QED
    BY <1>1, <1>5 DEF WeighRows, D

\* A transaction whose fee is bought leaves that fee less.
LEMMA BoughtLeft ==
  ASSUME NEW t \in BookTransaction, NEW n \in BookTransaction,
         n.status = t.status, n.amount = t.amount, n.fee = t.fee, n.drift = t.drift,
         t.bought = FALSE, n.bought = TRUE, TransactionPosition(n) = TransactionPosition(t)
  PROVE  t.fee["BTC"] = MoveLeft[t] - MoveLeft[n]
  <1> DEFINE fee == t.fee["BTC"]
             under == IF t.status = "IN_TRANSIT" THEN t.amount["BTC"] - t.fee["BTC"] ELSE 0
             drift == IF t.drift THEN TransactionPosition(t)["BTC"] ELSE 0
  <1>1. t.amount \in Money /\ t.fee \in Money
    BY DEF BookTransaction
  <1>2. t.amount["BTC"] \in Int /\ t.fee["BTC"] \in Int
    BY <1>1 DEF Money, Currencies
  <1>3. TransactionPosition(t)["BTC"] \in Int
    BY <1>1, MovePositionIs DEF Money, Currencies
  <1>4. MoveLeft[t] = fee + under - drift
    BY DEF MoveLeft
  <1>5. MoveLeft[n] = 0 + under - drift
    BY DEF MoveLeft
  <1>6. fee \in Int /\ under \in Int /\ drift \in Int
    BY <1>2, <1>3
  <1> HIDE DEF fee, under, drift
  <1>7. fee = MoveLeft[t] - MoveLeft[n]
    BY <1>4, <1>5, <1>6
  <1> QED
    BY <1>7 DEF fee

\* Marking a transaction changes what it leaves, and no balance.
LEMMA MoveMarked ==
  ASSUME NEW t \in EnteredMoves, NEW x \in BOOLEAN, NEW new,
         new = [t EXCEPT !.bought = @ \/ x]
  PROVE  /\ new \in EnteredMoves /\ new \in BookTransaction /\ t \in BookTransaction
         /\ new.status = t.status /\ new.fee = t.fee
         /\ \A a : \A c \in Currencies : MoveIn(a, c)[new] = MoveIn(a, c)[t]
         /\ ~x => new = t
         /\ x /\ ~t.bought => t.fee["BTC"] = MoveLeft[t] - MoveLeft[new]
  <1>1. t \in BookTransaction /\ t.bought \in BOOLEAN
    BY DEF EnteredMoves, BookTransaction
  <1>2. PICK b \in BOOLEAN : b = (t.bought \/ x)
    BY <1>1
  <1>3. new = [t EXCEPT !.bought = b]
    BY <1>2
  <1>4. /\ new \in BookTransaction
        /\ new.account = t.account /\ new.type = t.type /\ new.status = t.status
        /\ new.amount = t.amount /\ new.fee = t.fee /\ new.created = t.created
        /\ new.completed = t.completed /\ new.drift = t.drift /\ new.bought = b
    BY <1>1, <1>3 DEF BookTransaction
  <1>5. new \in EnteredMoves
    BY <1>4 DEF EnteredMoves
  <1>6. TransactionPosition(new) = TransactionPosition(t)
    BY <1>4 DEF TransactionPosition
  <1>7. \A a : \A c \in Currencies : MoveIn(a, c)[new] = MoveIn(a, c)[t]
    BY <1>1, <1>4, <1>6 DEF MoveIn
  <1>8. ~x => new = t
    BY <1>1, <1>2, <1>3 DEF BookTransaction
  <1>9. ASSUME x, ~t.bought
        PROVE  t.fee["BTC"] = MoveLeft[t] - MoveLeft[new]
    <2>1. b = TRUE /\ t.bought = FALSE
      BY <1>1, <1>2, <1>9
    <2>2. /\ t \in BookTransaction /\ new \in BookTransaction
          /\ new.status = t.status /\ new.amount = t.amount /\ new.fee = t.fee
          /\ new.drift = t.drift /\ t.bought = FALSE /\ new.bought = TRUE
          /\ TransactionPosition(new) = TransactionPosition(t)
      BY <1>1, <1>4, <1>6, <2>1
    <2> QED
      BY <2>2, BoughtLeft
  <1> QED
    BY <1>1, <1>4, <1>5, <1>7, <1>8, <1>9

MarkedTransactions(U) ==
  [i \in DOMAIN transactions |-> [transactions[i] EXCEPT !.bought = @ \/ i \in U]]

\* Marking some of the transactions.
LEMMA MarkedMoves ==
  ASSUME BooksTypeOK, NEW U, NEW new, new = MarkedTransactions(U)
  PROVE  /\ new \in Seq(EnteredMoves) /\ DOMAIN new = DOMAIN transactions
         /\ \A i \in DOMAIN transactions :
              /\ \A a : \A c \in Currencies : MoveIn(a, c)[new[i]] = MoveIn(a, c)[transactions[i]]
              /\ new[i].status = transactions[i].status /\ new[i].fee = transactions[i].fee
              /\ i \notin U => new[i] = transactions[i]
              /\ i \in U /\ ~transactions[i].bought =>
                   transactions[i].fee["BTC"] = MoveLeft[transactions[i]] - MoveLeft[new[i]]
  <1>1. PICK m \in Nat : /\ DOMAIN transactions = 1..m
                         /\ \A i \in 1..m : transactions[i] \in EnteredMoves
    BY MovesAre
  <1>2. ASSUME NEW i \in 1..m
        PROVE  /\ new[i] \in EnteredMoves
               /\ \A a : \A c \in Currencies : MoveIn(a, c)[new[i]] = MoveIn(a, c)[transactions[i]]
               /\ new[i].status = transactions[i].status /\ new[i].fee = transactions[i].fee
               /\ i \notin U => new[i] = transactions[i]
               /\ i \in U /\ ~transactions[i].bought =>
                    transactions[i].fee["BTC"] = MoveLeft[transactions[i]] - MoveLeft[new[i]]
    <2>1. PICK x \in BOOLEAN : x = (i \in U)
      <3>1. (i \in U) \in BOOLEAN
        OBVIOUS
      <3> QED
        BY <3>1, Zenon
    <2>2. PICK t \in EnteredMoves : t = transactions[i]
      BY <1>1
    <2>3. new[i] = [t EXCEPT !.bought = @ \/ x]
      BY <1>1, <2>1, <2>2 DEF MarkedTransactions
    <2> DEFINE n == new[i]
    <2>4. n = [t EXCEPT !.bought = @ \/ x]
      BY <2>3
    <2> HIDE DEF n
    <2>5. /\ n \in EnteredMoves
          /\ \A a : \A c \in Currencies : MoveIn(a, c)[n] = MoveIn(a, c)[t]
          /\ n.status = t.status /\ n.fee = t.fee
          /\ ~x => n = t
          /\ x /\ ~t.bought => t.fee["BTC"] = MoveLeft[t] - MoveLeft[n]
      BY <2>4, MoveMarked
    <2> QED
      BY <2>1, <2>2, <2>5 DEF n
  <1>3. new \in Seq(EnteredMoves) /\ DOMAIN new = 1..m
    <2>1. new = [i \in 1..m |-> new[i]]
      BY <1>1 DEF MarkedTransactions
    <2>2. new \in [1..m -> EnteredMoves]
      BY <1>2, <2>1
    <2> QED
      BY <2>2, SeqFromFun
  <1> QED
    BY <1>1, <1>2, <1>3

\* The weights of the transactions when some are marked.
LEMMA MovesMarked ==
  ASSUME BooksTypeOK, NEW U, NEW new \in Seq(EnteredMoves), U \in SUBSET DOMAIN transactions,
         DOMAIN new = DOMAIN transactions,
         \A i \in DOMAIN transactions :
           /\ \A a : \A c \in Currencies : MoveIn(a, c)[new[i]] = MoveIn(a, c)[transactions[i]]
           /\ i \notin U => new[i] = transactions[i]
           /\ i \in U =>
                transactions[i].fee["BTC"] = MoveLeft[transactions[i]] - MoveLeft[new[i]]
  PROVE  /\ new \in Seq(BookTransaction)
         /\ \A a : \A c \in Currencies :
              Weigh(new, MoveIn(a, c)) = Weigh(transactions, MoveIn(a, c))
         /\ Weigh(transactions, MoveLeft)
              = Weigh(new, MoveLeft) + Total(Parts(TransactionFeesOf(U), "BTC"), U)
  <1>1. PICK m \in Nat : DOMAIN transactions = 1..m /\ DOMAIN new = 1..m
    BY MovesAre
  <1>4. new \in Seq(BookTransaction) /\ transactions \in Seq(BookTransaction)
    BY MovesAre, SeqMonotonic DEF EnteredMoves
  <1>5. ASSUME NEW W \in [BookTransaction -> Int], NEW h,
               \A i \in U : h[i] = W[transactions[i]] - W[new[i]]
        PROVE  Weigh(transactions, W) = Weigh(new, W) + Total(h, U)
    <2>1. /\ \A i \in DOMAIN new \ U : transactions[i] = new[i]
          /\ DOMAIN transactions = DOMAIN new /\ U \in SUBSET DOMAIN new
      OBVIOUS
    <2> QED
      BY <1>4, <1>5, <2>1, WeighMarked
  <1>6. Weigh(transactions, MoveLeft)
          = Weigh(new, MoveLeft) + Total(Parts(TransactionFeesOf(U), "BTC"), U)
    <2>1. \A i \in U : Parts(TransactionFeesOf(U), "BTC")[i] = transactions[i].fee["BTC"]
      BY DEF Parts, TransactionFeesOf
    <2>2. \A i \in U : Parts(TransactionFeesOf(U), "BTC")[i]
                         = MoveLeft[transactions[i]] - MoveLeft[new[i]]
      BY <2>1
    <2>3. MoveLeft \in [BookTransaction -> Int]
      BY WeightsAre
    <2> QED
      BY <1>5, <2>2, <2>3
  <1>7. \A a : \A c \in Currencies : Weigh(new, MoveIn(a, c)) = Weigh(transactions, MoveIn(a, c))
    <2> SUFFICES ASSUME NEW a, NEW c \in Currencies
                 PROVE  Weigh(new, MoveIn(a, c)) = Weigh(transactions, MoveIn(a, c))
      OBVIOUS
    <2> DEFINE h == [i \in U |-> 0]
               W == MoveIn(a, c)
    <2>6. \A i \in 1..m : MoveIn(a, c)[new[i]] = MoveIn(a, c)[transactions[i]]
      BY <1>1
    <2>7. MoveIn(a, c) \in [BookTransaction -> Int]
      BY WeightsAre
    <2> HIDE DEF W
    <2>1. W \in [BookTransaction -> Int] /\ \A i \in 1..m : W[new[i]] = W[transactions[i]]
      BY <2>6, <2>7 DEF W
    <2>8. \A i \in U : i \in 1..m /\ transactions[i] \in BookTransaction
      BY <1>1, MovesAre
    <2>2. \A i \in U : h[i] = W[transactions[i]] - W[new[i]]
      BY <2>1, <2>8
    <2> HIDE DEF h
    <2>3. Weigh(transactions, W) = Weigh(new, W) + Total(h, U)
      BY <1>5, <2>1, <2>2
    <2>4. Total(h, U) = 0
      <3>1. IsFiniteSet(U)
        BY <1>1, FS_Interval, FS_Subset
      <3>2. Summands(h, U) /\ \A i \in U \ {} : h[i] = 0
        BY <3>1 DEF Summands, h
      <3>3. Total(h, U) = Total(h, {}) /\ Summands(h, {})
        BY <3>2, TotalOfPart, FS_EmptySet DEF Summands
      <3> QED
        BY <3>3, TotalStep
    <2>5. Weigh(new, W) \in Int
      BY <1>4, <2>1, Weighable
    <2> QED
      BY <2>3, <2>4, <2>5 DEF W
  <1> QED
    BY <1>4, <1>6, <1>7

\* A buyback some rows of which were replaced, or of nothing.
LEMMA NoBuybackInv ==
  ASSUME BooksInv, asked' = {},
         UNCHANGED <<bookOrders, transactions, balances, debts, today, watchSince, paidAgain>>
  PROVE  BooksInv'
  <1>1. BooksTypeOK'
    BY DEF BooksInv, BooksTypeOK, EnteredTrades, EnteredMoves, EnteredDebts
  <1>2. AskedTrue'
    BY DEF AskedTrue
  <1> QED
    BY <1>1, <1>2, NothingEntered

\* Nor does one with nothing outstanding, whose withdrawal moves no coins.
LEMMA EmptyBuybackInv ==
  ASSUME BooksInv, asked' = {},
         transactions' = Append(transactions, Transit(Coinbase, "WITHDRAWL", BuybackCost, NoMoney)),
         UNCHANGED <<bookOrders, balances, debts, today, watchSince, paidAgain>>
  PROVE  BooksInv'
  <1> DEFINE t == Transit(Coinbase, "WITHDRAWL", BuybackCost, NoMoney)
  <1>1. /\ BooksTypeOK /\ today \in Nat \ {0} /\ debts' \in Seq(EnteredDebts)
        /\ Coinbase \in Accounts /\ asked' \subseteq asked
    BY BooksAssumption DEF BooksInv, BooksTypeOK
  <1>2. /\ BuybackCost \in Money /\ NoMoney \in Money /\ "WITHDRAWL" \in MoveTypes
        /\ BuybackCost["BTC"] = 0 /\ NoMoney["BTC"] = 0 /\ \A c \in Currencies : NoMoney[c] = 0
    BY MoneyIs DEF BuybackCost, MoveTypes, Currencies
  <1>3. transactions' = Append(transactions, t)
    OBVIOUS
  <1> HIDE DEF t
  <1>4. t = Transit(Coinbase, "WITHDRAWL", BuybackCost, NoMoney)
    BY DEF t
  <1>5. /\ t \in EnteredMoves /\ MoveLeft[t] = 0
        /\ \A a : \A c \in Currencies : MoveIn(a, c)[t] = 0
    BY <1>1, <1>2, <1>4, TransitEnters
  <1>6. Credit(Coinbase, NoMoney)
    BY <1>1, NoCredit
  <1>7. OwedCoins' = OwedCoins /\ OwedCoins \in Int
    BY <1>1, OwedIs DEF OwedCoins, Owed
  <1>8. NoMoney["BTC"] + MoveLeft[t] - OwedCoins' = -OwedCoins
    BY <1>2, <1>5, <1>7
  <1>9. \A a : \A c \in Currencies :
          MoveIn(a, c)[t] = IF a = Coinbase THEN NoMoney[c] ELSE 0
    BY <1>2, <1>5
  <1> QED
    BY <1>1, <1>2, <1>3, <1>5, <1>6, <1>8, <1>9, OnceEntered

\* What the buyback enters.
LEMMA BuybackMoves ==
  ASSUME BooksTypeOK, NEW n \in Int,
         NEW u, u = Entered(Coinbase, "WITHDRAWL", BuybackCost, NoMoney),
         NEW d, d = Entered(Coinbase, "DEPOSIT", Coins(n), NoMoney),
         NEW amount, amount = Minus(Coins(n), BuybackCost)
  PROVE  /\ u \in EnteredMoves /\ d \in EnteredMoves /\ amount \in Money /\ amount["BTC"] = n
         /\ MoveLeft[u] = 0 /\ MoveLeft[d] = 0
         /\ \A a : \A c \in Currencies :
              /\ MoveIn(a, c)[u] \in Int /\ MoveIn(a, c)[d] \in Int
              /\ MoveIn(a, c)[u] + MoveIn(a, c)[d] = IF a = Coinbase THEN amount[c] ELSE 0
  <1>1. today \in Nat \ {0} /\ Coinbase \in Accounts
    BY BooksAssumption DEF BooksTypeOK
  <1>2. /\ Coins(n) \in Money /\ BuybackCost \in Money /\ NoMoney \in Money
        /\ Coins(n)["BTC"] = n /\ BuybackCost["BTC"] = 0
        /\ \A c \in Currencies : NoMoney[c] = 0
        /\ "WITHDRAWL" \in MoveTypes /\ "DEPOSIT" \in MoveTypes
    BY MoneyIs DEF BuybackCost, MoveTypes
  <1>3. "BTC" \in Currencies /\ NoMoney["BTC"] = 0
    BY <1>2 DEF Currencies
  <1>4. /\ amount \in Money
        /\ \A c \in Currencies : /\ amount[c] = Coins(n)[c] - BuybackCost[c]
                                 /\ Coins(n)[c] \in Int /\ BuybackCost[c] \in Int
    <2>1. \A c \in Currencies : Coins(n)[c] \in Int /\ BuybackCost[c] \in Int
      BY <1>2 DEF Money
    <2> QED
      BY <1>2, <2>1, MoneyAdds
  <1>5. /\ u \in EnteredMoves /\ u.account = Coinbase /\ u.type = "WITHDRAWL"
        /\ u.status = "COMPLETED" /\ u.amount = BuybackCost /\ u.fee = NoMoney /\ MoveLeft[u] = 0
    BY <1>1, <1>2, <1>3, EnteredIs
  <1>6. /\ d \in EnteredMoves /\ d.account = Coinbase /\ d.type = "DEPOSIT"
        /\ d.status = "COMPLETED" /\ d.amount = Coins(n) /\ d.fee = NoMoney /\ MoveLeft[d] = 0
    <2>1. PICK coins \in Money : coins = Coins(n)
      BY <1>2
    <2>2. d = Entered(Coinbase, "DEPOSIT", coins, NoMoney)
      BY <2>1
    <2>3. /\ d \in EnteredMoves /\ d.account = Coinbase /\ d.type = "DEPOSIT"
          /\ d.status = "COMPLETED" /\ d.amount = coins /\ d.fee = NoMoney
          /\ MoveLeft[d] = NoMoney["BTC"]
      BY <1>1, <1>2, <2>2, EnteredIs
    <2> QED
      BY <1>3, <2>1, <2>3
  <1>7. ASSUME NEW a, NEW c \in Currencies
        PROVE  /\ MoveIn(a, c)[u] = IF a = Coinbase THEN -BuybackCost[c] ELSE 0
               /\ MoveIn(a, c)[d] = IF a = Coinbase THEN Coins(n)[c] ELSE 0
    <2>1. u \in BookTransaction /\ d \in BookTransaction
      BY <1>5, <1>6 DEF EnteredMoves
    <2>2. /\ MoveIn(a, c)[u] = IF a = Coinbase THEN TransactionPosition(u)[c] ELSE 0
          /\ MoveIn(a, c)[d] = IF a = Coinbase THEN TransactionPosition(d)[c] ELSE 0
      BY <1>5, <1>6, <2>1, CompletedMoves
    <2>3. TransactionPosition(u)[c] = -BuybackCost[c] - NoMoney[c]
      <3>1. TransactionPosition(u)[c]
              = (IF u.type = "DEPOSIT" THEN u.amount[c] ELSE -u.amount[c]) - u.fee[c]
        BY <1>2, <1>5, MovePositionIs
      <3> QED
        BY <1>5, <3>1
    <2>4. TransactionPosition(d)[c] = Coins(n)[c] - NoMoney[c]
      <3>1. TransactionPosition(d)[c]
              = (IF d.type = "DEPOSIT" THEN d.amount[c] ELSE -d.amount[c]) - d.fee[c]
        BY <1>2, <1>6, MovePositionIs
      <3> QED
        BY <1>6, <3>1
    <2> QED
      BY <1>2, <1>4, <2>2, <2>3, <2>4
  <1>8. \A a : \A c \in Currencies :
          /\ MoveIn(a, c)[u] \in Int /\ MoveIn(a, c)[d] \in Int
          /\ MoveIn(a, c)[u] + MoveIn(a, c)[d] = IF a = Coinbase THEN amount[c] ELSE 0
    BY <1>4, <1>7
  <1>9. amount["BTC"] = n
    BY <1>2, <1>3, <1>4
  <1> QED
    BY <1>4, <1>5, <1>6, <1>8, <1>9

\* The orders' rows are marked: no balance is changed, and their fees are no
\* longer to be explained.
LEMMA OrdersMarked ==
  ASSUME BooksTypeOK, NEW T, T \subseteq OutstandingTrades,
         NEW new, new = MarkedOrders(bookOrders, T)
  PROVE  /\ new \in BookOrders /\ DOMAIN new = DOMAIN bookOrders
         /\ \A i \in DOMAIN new : new[i].trades \in Seq(EnteredTrades)
         /\ \A a : \A c \in Currencies :
              WeighRows(new, TradeIn(a, c)) = WeighRows(bookOrders, TradeIn(a, c))
         /\ WeighRows(bookOrders, TradeLeft)
              = WeighRows(new, TradeLeft) + Total(Parts(TradeFeesOf(T), "BTC"), T)
  <1>1. bookOrders \in BookOrders
    BY DEF BooksTypeOK
  <1>2. new \in BookOrders /\ DOMAIN new = DOMAIN bookOrders
    BY <1>1, RowsMarked
  <1>3. ASSUME NEW i \in DOMAIN new
        PROVE  new[i].trades \in Seq(EnteredTrades)
    <2>1. PICK order \in BookOrder : order = bookOrders[i]
      BY <1>1, <1>2, OrdersAre
    <2>2. order.trades \in Seq(EnteredTrades)
      BY <1>2, <2>1 DEF BooksTypeOK
    <2>3. PICK o : o = MarkedOrder(order, i, T)
      OBVIOUS
    <2>4. new[i] = o
      BY <1>2, <2>1, <2>3 DEF MarkedOrders
    <2>5. Markable(EnteredTrades)
      BY TradesMarkable
    <2>6. o.trades \in Seq(EnteredTrades)
      BY <2>2, <2>3, <2>5, OrderMarked
    <2> QED
      BY <2>4, <2>6
  <1>4. /\ T \in SUBSET Rows(bookOrders) /\ IsFiniteSet(T)
        /\ \A row \in T : /\ ~bookOrders[row[1]].trades[row[2]].bought
                          /\ bookOrders[row[1]] \in BookOrder
    <2>1. OutstandingTrades \subseteq Rows(bookOrders) /\ IsFiniteSet(OutstandingTrades)
      BY OutstandingAre
    <2>2. \A row \in T : ~bookOrders[row[1]].trades[row[2]].bought
      BY DEF OutstandingTrades
    <2>3. \A row \in T : row[1] \in DOMAIN bookOrders
      BY <1>1, <2>1, RowsAre
    <2>4. \A row \in T : bookOrders[row[1]] \in BookOrder
      BY <1>1, <2>3, OrdersAre
    <2>5. IsFiniteSet(T)
      BY <2>1, FS_Subset
    <2> QED
      BY <2>1, <2>2, <2>4, <2>5
  <1>5. ASSUME NEW V \in [Kinds -> Int], NEW h,
               \A row \in T : h[row] = V[Kind(bookOrders[row[1]], FALSE)]
                                         - V[Kind(bookOrders[row[1]], TRUE)]
        PROVE  WeighRows(bookOrders, V) = WeighRows(new, V) + Total(h, T)
    <2>1. Relieves(h, bookOrders, T, V)
      BY <1>4, <1>5 DEF Relieves
    <2> QED
      BY <1>1, <1>4, <2>1, MarkedWeigh
  <1>6. WeighRows(bookOrders, TradeLeft)
          = WeighRows(new, TradeLeft) + Total(Parts(TradeFeesOf(T), "BTC"), T)
    <2> DEFINE h == Parts(TradeFeesOf(T), "BTC")
    <2>1. ASSUME NEW row \in T
          PROVE  h[row] = TradeLeft[Kind(bookOrders[row[1]], FALSE)]
                            - TradeLeft[Kind(bookOrders[row[1]], TRUE)]
      <3>1. PICK o \in BookOrder : o = bookOrders[row[1]]
        BY <1>4
      <3>2. h[row] = TradeFee(o.account)["BTC"]
        BY <3>1 DEF Parts, TradeFeesOf
      <3> HIDE DEF h
      <3>3. TradeLeft[Kind(o, FALSE)] = TradeLeft[Kind(o, TRUE)] + TradeFee(o.account)["BTC"]
        BY TradeWeighs
      <3>4. TradeFee(o.account)["BTC"] \in Int
        BY TradeMoney
      <3>5. TradeLeft[Kind(o, TRUE)] \in Int
        <4>1. Kind(o, TRUE) \in Kinds
          BY DEF Kind, Kinds, BookOrder
        <4> QED
          BY <4>1, WeightsAre
      <3>7. PICK left \in Int, fee \in Int :
              left = TradeLeft[Kind(o, TRUE)] /\ fee = TradeFee(o.account)["BTC"]
        BY <3>4, <3>5
      <3>8. TradeLeft[Kind(o, FALSE)] = left + fee /\ h[row] = fee
        BY <3>2, <3>3, <3>7
      <3>9. fee = (left + fee) - left
        OBVIOUS
      <3>6. h[row] = TradeLeft[Kind(o, FALSE)] - TradeLeft[Kind(o, TRUE)]
        BY <3>7, <3>8, <3>9
      <3> QED
        BY <3>1, <3>6
    <2>2. TradeLeft \in [Kinds -> Int]
      BY WeightsAre
    <2> HIDE DEF h
    <2>3. WeighRows(bookOrders, TradeLeft) = WeighRows(new, TradeLeft) + Total(h, T)
      BY <1>5, <2>1, <2>2
    <2> QED
      BY <2>3 DEF h
  <1>7. ASSUME NEW a, NEW c \in Currencies
        PROVE  WeighRows(new, TradeIn(a, c)) = WeighRows(bookOrders, TradeIn(a, c))
    <2> DEFINE h == [row \in T |-> 0]
    <2>1. TradeIn(a, c) \in [Kinds -> Int]
      BY WeightsAre
    <2>2. ASSUME NEW row \in T
          PROVE  h[row] = TradeIn(a, c)[Kind(bookOrders[row[1]], FALSE)]
                            - TradeIn(a, c)[Kind(bookOrders[row[1]], TRUE)]
      <3>1. PICK o \in BookOrder : o = bookOrders[row[1]]
        BY <1>4
      <3>5. /\ TradeIn(a, c)[Kind(o, FALSE)] = IF a = o.account THEN TradePosition(o)[c] ELSE 0
            /\ TradeIn(a, c)[Kind(o, TRUE)] = IF a = o.account THEN TradePosition(o)[c] ELSE 0
        BY TradeWeighs
      <3>2. TradeIn(a, c)[Kind(o, FALSE)] = TradeIn(a, c)[Kind(o, TRUE)]
        BY <3>5
      <3>3. TradeIn(a, c)[Kind(o, TRUE)] \in Int
        <4>1. Kind(o, TRUE) \in Kinds
          BY DEF Kind, Kinds, BookOrder
        <4> QED
          BY <2>1, <4>1
      <3>4. h[row] = 0
        OBVIOUS
      <3>6. PICK in \in Int : in = TradeIn(a, c)[Kind(o, TRUE)]
        BY <3>3
      <3>7. 0 = in - in
        OBVIOUS
      <3> HIDE DEF h
      <3> QED
        BY <3>1, <3>2, <3>4, <3>6, <3>7
    <2>3. Total(h, T) = 0
      <3>1. Summands(h, T) /\ \A row \in T \ {} : h[row] = 0
        BY <1>4 DEF Summands
      <3> HIDE DEF h
      <3>2. Total(h, T) = Total(h, {}) /\ Summands(h, {})
        BY <3>1, TotalOfPart, FS_EmptySet DEF Summands
      <3> QED
        BY <3>2, TotalStep
    <2> HIDE DEF h
    <2>4. WeighRows(bookOrders, TradeIn(a, c)) = WeighRows(new, TradeIn(a, c)) + Total(h, T)
      BY <1>5, <2>1, <2>2
    <2>5. WeighRows(new, TradeIn(a, c)) \in Int
      BY <1>2, <2>1, RowsWeighable
    <2> QED
      BY <2>3, <2>4, <2>5
  <1> QED
    BY <1>2, <1>3, <1>6, <1>7

\* A buyback of the rows at the prompt keeps the books right: the coins that
\* are bought are the fees that are marked.
LEMMA BuyInv ==
  ASSUME BooksInv, NEW rows \in asked, ~rows.replaced, asked' = {},
         bookOrders' = MarkedOrders(bookOrders, rows.trades),
         transactions' = MarkedTransactions(rows.transactions)
                           \o <<Entered(Coinbase, "WITHDRAWL", BuybackCost, NoMoney),
                                Entered(Coinbase, "DEPOSIT", Coins(rows.amount), NoMoney)>>,
         Credit(Coinbase, Minus(Coins(rows.amount), BuybackCost)),
         UNCHANGED <<debts, today, watchSince, paidAgain>>
  PROVE  BooksInv'
  <1> DEFINE T == rows.trades
             U == rows.transactions
             n == rows.amount
             u == Entered(Coinbase, "WITHDRAWL", BuybackCost, NoMoney)
             d == Entered(Coinbase, "DEPOSIT", Coins(n), NoMoney)
             amount == Minus(Coins(n), BuybackCost)
             mid == MarkedTransactions(U)
             fees == Total(Parts(TradeFeesOf(T), "BTC"), T)
             moveFees == Total(Parts(TransactionFeesOf(U), "BTC"), U)
  <1>1. BooksTypeOK /\ AskedTrue /\ Accounted /\ Explained /\ Coinbase \in Accounts
    BY BooksAssumption DEF BooksInv
  <1>2. T \subseteq OutstandingTrades /\ U \subseteq OutstandingTransactions /\ n \in Int
    BY <1>1 DEF AskedTrue, BooksTypeOK, AskedRows
  <1>3. n = fees + moveFees /\ fees \in Int /\ moveFees \in Int
    <2>1. n = SumOf(TradeFeesOf(T)).BTC + SumOf(TransactionFeesOf(U)).BTC
      BY <1>1 DEF AskedTrue
    <2>2. T \subseteq Rows(bookOrders) /\ U \subseteq DOMAIN transactions
      BY <1>1, <1>2, OutstandingAre
    <2> HIDE DEF T, U
    <2>3. /\ SumOf(TradeFeesOf(T)).BTC = Total(Parts(TradeFeesOf(T), "BTC"), T)
          /\ SumOf(TransactionFeesOf(U)).BTC = Total(Parts(TransactionFeesOf(U), "BTC"), U)
          /\ Summands(Parts(TradeFeesOf(T), "BTC"), T)
          /\ Summands(Parts(TransactionFeesOf(U), "BTC"), U)
      BY <1>1, <2>2, FeesAre
    <2>4. Total(Parts(TradeFeesOf(T), "BTC"), T) \in Int
      BY <2>3, TotalStep
    <2>5. Total(Parts(TransactionFeesOf(U), "BTC"), U) \in Int
      BY <2>3, TotalStep
    <2> QED
      BY <2>1, <2>3, <2>4, <2>5
  <1>4. transactions' = mid \o <<u, d>> /\ Credit(Coinbase, amount)
        /\ bookOrders' = MarkedOrders(bookOrders, T)
    OBVIOUS
  <1> HIDE DEF T, U, n, u, d, amount, mid
  <1>5. /\ u \in EnteredMoves /\ d \in EnteredMoves /\ amount \in Money /\ amount["BTC"] = n
        /\ MoveLeft[u] = 0 /\ MoveLeft[d] = 0
        /\ \A a : \A c \in Currencies :
              /\ MoveIn(a, c)[u] \in Int /\ MoveIn(a, c)[d] \in Int
              /\ MoveIn(a, c)[u] + MoveIn(a, c)[d] = IF a = Coinbase THEN amount[c] ELSE 0
    <2>1. /\ u = Entered(Coinbase, "WITHDRAWL", BuybackCost, NoMoney)
          /\ d = Entered(Coinbase, "DEPOSIT", Coins(n), NoMoney)
          /\ amount = Minus(Coins(n), BuybackCost)
      BY DEF u, d, amount
    <2> QED
      BY <1>1, <1>2, <2>1, BuybackMoves
  <1>6. /\ bookOrders' \in BookOrders /\ DOMAIN bookOrders' = DOMAIN bookOrders
        /\ \A i \in DOMAIN bookOrders' : bookOrders'[i].trades \in Seq(EnteredTrades)
        /\ \A a : \A c \in Currencies :
              WeighRows(bookOrders', TradeIn(a, c)) = WeighRows(bookOrders, TradeIn(a, c))
        /\ WeighRows(bookOrders, TradeLeft) = WeighRows(bookOrders', TradeLeft) + fees
    BY <1>1, <1>2, <1>4, OrdersMarked
  <1>7. /\ mid \in Seq(EnteredMoves) /\ mid \in Seq(BookTransaction)
        /\ \A a : \A c \in Currencies : Weigh(mid, MoveIn(a, c)) = Weigh(transactions, MoveIn(a, c))
        /\ Weigh(transactions, MoveLeft) = Weigh(mid, MoveLeft) + moveFees
    <2>1. mid = MarkedTransactions(U)
      BY DEF mid
    <2>2. U \in SUBSET DOMAIN transactions /\ \A i \in U : ~transactions[i].bought
      BY <1>2 DEF OutstandingTransactions
    <2>3. /\ mid \in Seq(EnteredMoves) /\ DOMAIN mid = DOMAIN transactions
          /\ \A i \in DOMAIN transactions :
               /\ \A a : \A c \in Currencies : MoveIn(a, c)[mid[i]] = MoveIn(a, c)[transactions[i]]
               /\ i \notin U => mid[i] = transactions[i]
               /\ i \in U /\ ~transactions[i].bought =>
                    transactions[i].fee["BTC"] = MoveLeft[transactions[i]] - MoveLeft[mid[i]]
      BY <1>1, <2>1, MarkedMoves
    <2>4. \A i \in DOMAIN transactions :
               /\ \A a : \A c \in Currencies : MoveIn(a, c)[mid[i]] = MoveIn(a, c)[transactions[i]]
               /\ i \notin U => mid[i] = transactions[i]
               /\ i \in U =>
                    transactions[i].fee["BTC"] = MoveLeft[transactions[i]] - MoveLeft[mid[i]]
      BY <2>2, <2>3
    <2> QED
      BY <1>1, <2>2, <2>3, <2>4, MovesMarked
  <1> HIDE DEF fees, moveFees
  <1>8. /\ transactions' \in Seq(EnteredMoves)
        /\ \A W \in [BookTransaction -> Int] :
             Weigh(transactions', W) = Weigh(mid, W) + W[u] + W[d] /\ Weigh(mid, W) \in Int
    <2> DEFINE one == Append(mid, u)
    <2>1. u \in BookTransaction /\ d \in BookTransaction
      BY <1>5 DEF EnteredMoves
    <2>7. mid \in Seq(EnteredMoves) /\ u \in EnteredMoves /\ d \in EnteredMoves
      BY <1>5, <1>7
    <2>8. mid \o <<u, d>> = Append(one, d)
      BY <2>7, TwoMore
    <2>2. transactions' = Append(one, d)
      BY <1>4, <2>8
    <2>3. one \in Seq(EnteredMoves) /\ one \in Seq(BookTransaction)
      BY <1>5, <1>7, <2>1, AppendIs
    <2>4. ASSUME NEW W \in [BookTransaction -> Int]
          PROVE  Weigh(one, W) = Weigh(mid, W) + W[u] /\ Weigh(mid, W) \in Int
      BY <1>7, <2>1, WeighMore, Weighable
    <2> HIDE DEF one
    <2>9. one \in Seq(EnteredMoves)
      BY <2>3
    <2>10. Append(one, d) \in Seq(EnteredMoves)
      BY <2>7, <2>9, AppendIs
    <2>5. transactions' \in Seq(EnteredMoves)
      BY <2>2, <2>10
    <2>6. ASSUME NEW W \in [BookTransaction -> Int]
          PROVE  Weigh(transactions', W) = Weigh(one, W) + W[d]
      BY <2>1, <2>2, <2>3, WeighMore
    <2> QED
      BY <2>4, <2>5, <2>6
  <1>9. BooksTypeOK'
    <2>1. balances' \in [Accounts -> Money]
      BY <1>1, <1>4, <1>5, CreditIs
    <2>2. EnteredMoves' = EnteredMoves /\ EnteredTrades' = EnteredTrades
          /\ EnteredDebts' = EnteredDebts
      BY DEF EnteredMoves, EnteredTrades, EnteredDebts
    <2>3. asked' \in SUBSET AskedRows
      OBVIOUS
    <2> QED
      BY <1>1, <1>6, <1>8, <2>1, <2>2, <2>3 DEF BooksTypeOK
  <1>10. AskedTrue'
    BY DEF AskedTrue
  <1>11. \A a : \A c \in Currencies :
           WeighRows(bookOrders', TradeIn(a, c)) + Weigh(transactions', MoveIn(a, c))
             = WeighRows(bookOrders, TradeIn(a, c)) + Weigh(transactions, MoveIn(a, c))
                 + (IF a = Coinbase THEN amount[c] ELSE 0)
    <2> SUFFICES ASSUME NEW a, NEW c \in Currencies
                 PROVE  WeighRows(bookOrders', TradeIn(a, c)) + Weigh(transactions', MoveIn(a, c))
                          = WeighRows(bookOrders, TradeIn(a, c)) + Weigh(transactions, MoveIn(a, c))
                              + (IF a = Coinbase THEN amount[c] ELSE 0)
      OBVIOUS
    <2> DEFINE r == WeighRows(bookOrders, TradeIn(a, c))
               w == Weigh(transactions, MoveIn(a, c))
               x == MoveIn(a, c)[u]
               y == MoveIn(a, c)[d]
               z == IF a = Coinbase THEN amount[c] ELSE 0
    <2>1. r \in Int /\ w \in Int
      BY <1>1, MovesAre
    <2>2. x \in Int /\ y \in Int /\ x + y = z
      BY <1>5
    <2>3. Weigh(transactions', MoveIn(a, c)) = w + x + y
      <3>1. MoveIn(a, c) \in [BookTransaction -> Int]
        BY WeightsAre
      <3> QED
        BY <1>7, <1>8, <3>1
    <2>4. WeighRows(bookOrders', TradeIn(a, c)) = r
      BY <1>6
    <2> HIDE DEF r, w, x, y, z
    <2>5. r + (w + x + y) = r + w + z
      BY <2>1, <2>2
    <2> QED
      BY <2>3, <2>4, <2>5 DEF r, w, z
  <1>12. amount["BTC"] + WeighRows(bookOrders', TradeLeft) + Weigh(transactions', MoveLeft)
                 - paidAgain' - OwedCoins'
           = WeighRows(bookOrders, TradeLeft) + Weigh(transactions, MoveLeft)
               - paidAgain - OwedCoins
    <2> DEFINE r == WeighRows(bookOrders', TradeLeft)
               w == Weigh(mid, MoveLeft)
               o == OwedCoins
    <2>1. MoveLeft \in [BookTransaction -> Int] /\ TradeLeft \in [Kinds -> Int]
      BY WeightsAre
    <2>2. r \in Int /\ w \in Int /\ o \in Int /\ paidAgain \in Int
      BY <1>1, <1>6, <1>7, <2>1, RowsWeighable, Weighable, OwedIs DEF BooksTypeOK
    <2>3. Weigh(transactions', MoveLeft) = w + 0 + 0
      BY <1>5, <1>8, <2>1
    <2>4. OwedCoins' = o /\ paidAgain' = paidAgain
      BY DEF OwedCoins, Owed
    <2>5. WeighRows(bookOrders, TradeLeft) = r + fees /\ Weigh(transactions, MoveLeft) = w + moveFees
      BY <1>6, <1>7
    <2> HIDE DEF r, w, o
    <2>6. n + r + (w + 0 + 0) - paidAgain - o = (r + fees) + (w + moveFees) - paidAgain - o
      BY <1>3, <2>2
    <2> QED
      BY <1>5, <2>3, <2>4, <2>5, <2>6 DEF r, o
  <1>13. Accounted' /\ Explained'
    BY <1>1, <1>4, <1>5, <1>9, <1>11, <1>12, BooksStay
  <1> QED
    BY <1>9, <1>10, <1>13 DEF BooksInv

\* Entering a buyback keeps the books right.
LEMMA EnterBuybackInv ==
  ASSUME BooksInv, NEW rows \in asked, EnterBuyback(rows)
  PROVE  BooksInv'
  <1>1. asked' = {} /\ UNCHANGED <<debts, today, watchSince, paidAgain>>
    BY DEF EnterBuyback
  <1>2. CASE rows.replaced /\ UNCHANGED <<transactions, balances, bookOrders>>
    BY <1>1, <1>2, NoBuybackInv
  <1>3. CASE /\ transactions' = Append(transactions,
                                       Transit(Coinbase, "WITHDRAWL", BuybackCost, NoMoney))
             /\ UNCHANGED <<bookOrders, balances>>
    BY <1>1, <1>3, EmptyBuybackInv
  <1>4. CASE /\ ~rows.replaced
             /\ bookOrders' = MarkedOrders(bookOrders, rows.trades)
             /\ transactions' = MarkedTransactions(rows.transactions)
                           \o <<Entered(Coinbase, "WITHDRAWL", BuybackCost, NoMoney),
                                Entered(Coinbase, "DEPOSIT", Coins(rows.amount), NoMoney)>>
             /\ Credit(Coinbase, Minus(Coins(rows.amount), BuybackCost))
    BY <1>1, <1>4, BuyInv
  <1>5. Entered(Coinbase, "DEPOSIT", Coins(rows.amount), NoMoney).amount = Coins(rows.amount)
    BY DEF Entered, Complete, Transit
  <1> QED
    BY <1>2, <1>3, <1>4, <1>5
       DEF EnterBuyback, Marked, MarkedOrders, MarkedOrder, MarkedTransactions, Entered

\* The empty books are right.
LEMMA BooksStart ==
  ASSUME BooksInit
  PROVE  BooksInv
  <1>1. /\ bookOrders = <<>> /\ transactions = <<>> /\ debts = <<>>
        /\ balances = [a \in Accounts |-> NoMoney] /\ today = 1 /\ watchSince = 1
        /\ asked = {} /\ paidAgain = 0
    BY DEF BooksInit
  <1>2. <<>> \in BookOrders /\ \A V : WeighRows(<<>>, V) = 0 /\ Weigh(<<>>, V) = 0
    BY NoRows, WeighNothing
  <1>3. NoMoney \in Money /\ \A c \in Currencies : NoMoney[c] = 0
    BY MoneyIs
  <1>4. BooksTypeOK
    <2>1. <<>> \in Seq(EnteredMoves) /\ <<>> \in Seq(EnteredDebts) /\ DOMAIN <<>> = {}
      OBVIOUS
    <2> QED
      BY <1>1, <1>2, <1>3, <2>1 DEF BooksTypeOK
  <1>5. AskedTrue
    BY <1>1 DEF AskedTrue
  <1>6. Accounted
    <2> SUFFICES ASSUME NEW a \in Accounts, NEW c \in Currencies
                 PROVE  balances[a][c] = WeighRows(bookOrders, TradeIn(a, c))
                                           + Weigh(transactions, MoveIn(a, c))
      BY DEF Accounted
    <2> QED
      BY <1>1, <1>2, <1>3
  <1>7. Explained
    <2> DEFINE f == Parts(balances, "BTC")
    <2>1. \A a \in Accounts : f[a] = 0
      BY <1>1, <1>3 DEF Parts, Currencies
    <2> HIDE DEF f
    <2>2. Summands(f, Accounts) /\ \A a \in Accounts \ {} : f[a] = 0
      BY <2>1, BooksAssumption DEF Summands
    <2>3. Total(f, Accounts) = Total(f, {}) /\ Summands(f, {})
      BY <2>2, TotalOfPart, FS_EmptySet DEF Summands
    <2>4. Total(f, Accounts) = 0
      BY <2>3, TotalStep
    <2>5. OwedCoins = 0
      <3>1. Owed = {}
        BY <1>1 DEF Owed
      <3>2. Debt["BTC"] \in Int
        BY <1>4, OwedIs
      <3>3. OwedCoins = 0 * Debt["BTC"]
        BY <3>1, FS_EmptySet DEF OwedCoins
      <3> QED
        BY <3>2, <3>3
    <2>6. 0 + 0 + 0 = 0 + 0
      OBVIOUS
    <2> QED
      BY <1>1, <1>2, <2>4, <2>5, <2>6 DEF Explained, f
  <1> QED
    BY <1>4, <1>5, <1>6, <1>7 DEF BooksInv

\* Every operation keeps the books right.
LEMMA BooksStep ==
  ASSUME BooksInv, BooksNext
  PROVE  BooksInv'
  <1>1. ASSUME NEW a \in Accounts, NEW type \in {"BID", "ASK"}, NewOrder(a, type)
        PROVE  BooksInv'
    BY <1>1, NewOrderInv
  <1>2. ASSUME NEW i \in DOMAIN bookOrders, Eaten(i)
        PROVE  BooksInv'
    BY <1>2, EatenInv
  <1>3. ASSUME NEW a \in Accounts, NEW b \in Accounts,
               RecordWithdrawal(a, b) \/ RecordFiatWithdrawal(a, b)
        PROVE  BooksInv'
    BY <1>3, RecordWithdrawalInv, RecordFiatWithdrawalInv
  <1>4. ASSUME NEW i \in DOMAIN transactions, Land(i)
        PROVE  BooksInv'
    BY <1>4, LandInv
  <1>5. ASSUME NEW a \in Accounts, EnterDrift(a)
        PROVE  BooksInv'
    BY <1>5, EnterDriftInv
  <1>6. ASSUME NEW rows \in asked, EnterBuyback(rows)
        PROVE  BooksInv'
    BY <1>6, EnterBuybackInv
  <1>7. ASSUME NEW a \in Accounts, Borrow(a) \/ \E i \in DOMAIN debts : Repay(a, i)
        PROVE  BooksInv'
    BY <1>7, BorrowInv, RepayInv
  <1> QED
    BY <1>1, <1>2, <1>3, <1>4, <1>5, <1>6, <1>7, AskBuybackInv, StartWatchInv, TickInv
       DEF BooksNext

(***************************************************************************)
(* The books are right after any operations, of any accounts: their types, *)
(* what a buyback at its prompt has read, the balance columns, and the net *)
(* assets, that every operation leaves explained.                          *)
(***************************************************************************)
THEOREM BooksAlwaysRight == Spec => []BooksInv
  <1>1. Init => BooksInv
    BY BooksStart DEF Init
  <1>2. BooksInv /\ [Next]_<<subject, makerVars, bookVars>> => BooksInv'
    <2> SUFFICES ASSUME BooksInv, [Next]_<<subject, makerVars, bookVars>>
                 PROVE  BooksInv'
      OBVIOUS
    <2>1. BooksNext \/ UNCHANGED bookVars
      BY DEF Next
    <2> QED
      BY <2>1, BooksStep, StandingStillInv
  <1> QED
    BY <1>1, <1>2, PTL DEF Spec

(* What the invariant says of the net assets.                              *)

\* What the trades leave is their outstanding fees less what they traded.
LEMMA RowsLeft ==
  ASSUME BooksTypeOK
  PROVE  /\ SumOf(TradeFeesOf(OutstandingTrades)).BTC \in Int /\ TradedCoins \in Int
         /\ WeighRows(bookOrders, TradeLeft)
              = SumOf(TradeFeesOf(OutstandingTrades)).BTC - TradedCoins
  <1> DEFINE D == Rows(bookOrders)
             T == OutstandingTrades
             w == RowWeights(bookOrders, TradeLeft)
             fees == Parts(TradeFeesOf(T), "BTC")
             fee == [row \in D |-> IF row \in T THEN TradeFee(bookOrders[row[1]].account)["BTC"]
                                               ELSE 0]
             moved == [row \in TradeRows |->
                         IF bookOrders[row[1]].type = "BID" THEN Volume ELSE Minus(NoMoney, Volume)]
             coins == Parts(moved, "BTC")
  <1>1. /\ bookOrders \in BookOrders /\ TradeRows = D /\ T \subseteq D /\ "BTC" \in Currencies
        /\ TradeLeft \in [Kinds -> Int]
    BY OutstandingAre, WeightsAre DEF BooksTypeOK, TradeRows, Rows, Currencies
  <1>2. /\ SumOf(TradeFeesOf(T)).BTC = Total(fees, T) /\ Summands(fees, T)
        /\ \A row \in T : fees[row] = TradeFee(bookOrders[row[1]].account)["BTC"]
    <2>1. {} \subseteq DOMAIN transactions
      OBVIOUS
    <2> QED
      BY <1>1, <2>1, FeesAre
  <1>3. TradedCoins = Total(coins, D)
    <2>1. DOMAIN moved = D
      BY <1>1
    <2>2. SumOf(moved)["BTC"] = Total(coins, DOMAIN moved)
      BY <1>1, SumOfIs
    <2> QED
      BY <2>1, <2>2 DEF TradedCoins
  <1>4. Summands(w, D) /\ WeighRows(bookOrders, TradeLeft) = Total(w, D)
    BY <1>1, RowsWeighable DEF WeighRows
  <1>5. ASSUME NEW row \in D
        PROVE  coins[row] \in Int /\ fee[row] \in Int /\ fee[row] = w[row] + coins[row]
    <2>1. /\ row[1] \in DOMAIN bookOrders /\ row[2] \in DOMAIN bookOrders[row[1]].trades
          /\ RowKind(bookOrders, row) \in Kinds
      BY <1>1, RowsAre
    <2>2. PICK o : o = bookOrders[row[1]]
      OBVIOUS
    <2>3. o \in BookOrder /\ o.trades[row[2]].bought \in BOOLEAN /\ o.type \in {"BID", "ASK"}
      <3>1. o \in BookOrder /\ o.trades[row[2]] \in BookTrade
        BY <1>1, <2>1, <2>2, OrdersAre
      <3> QED
        BY <3>1 DEF BookTrade, BookOrder
    <2> DEFINE bought == o.trades[row[2]].bought
               f == TradeFee(o.account)["BTC"]
               v == IF o.type = "BID" THEN Volume["BTC"] ELSE -Volume["BTC"]
    <2>4. f \in Int /\ v \in Int
      BY TradeMoney
    <2>5. coins[row] = v
      <3>1. Minus(NoMoney, Volume)["BTC"] = NoMoney["BTC"] - Volume["BTC"] /\ NoMoney["BTC"] = 0
            /\ Volume["BTC"] \in Int
        BY <1>1, MoneyIs, MoneyAdds, TradeMoney
      <3>2. coins[row] = (IF o.type = "BID" THEN Volume ELSE Minus(NoMoney, Volume))["BTC"]
        BY <1>1, <2>2 DEF Parts
      <3> QED
        BY <3>1, <3>2
    <2>6. w[row] = (IF bought THEN 0 ELSE f) - v
      <3>1. w[row] = TradeLeft[RowKind(bookOrders, row)]
        BY DEF RowWeights
      <3>2. RowKind(bookOrders, row) = Kind(o, bought)
        BY <2>2 DEF RowKind
      <3>3. Kind(o, bought) \in Kinds /\ Kind(o, bought).account = o.account
            /\ Kind(o, bought).type = o.type /\ Kind(o, bought).bought = bought
        BY <2>1, <3>2 DEF Kind
      <3> HIDE DEF bought
      <3>4. TradeLeft[Kind(o, bought)] = (IF bought THEN 0 ELSE f) - v
        BY <3>3 DEF TradeLeft
      <3> QED
        BY <3>1, <3>2, <3>4
    <2>7. fee[row] = IF bought THEN 0 ELSE f
      <3>1. row \in T <=> f # 0 /\ ~bought
        BY <1>1, <2>2 DEF OutstandingTrades
      <3>2. fee[row] = IF row \in T THEN f ELSE 0
        BY <2>2
      <3> QED
        BY <3>1, <3>2
    <2>8. (IF bought THEN 0 ELSE f) \in Int
      BY <2>3, <2>4
    <2> HIDE DEF v, f, bought, fee, coins, w
    <2> QED
      BY <2>4, <2>5, <2>6, <2>7, <2>8
  <1>6. Summands(coins, D) /\ Summands(fee, D)
    BY <1>4, <1>5 DEF Summands
  <1>7. \A row \in D \ T : fee[row] = 0
    OBVIOUS
  <1>8. \A row \in T : fee[row] = fees[row]
    BY <1>1, <1>2
  <1> HIDE DEF w, fee, coins, fees, D, T
  <1>9. Total(fee, D) = Total(w, D) + Total(coins, D)
    BY <1>4, <1>5, <1>6, TotalPlus
  <1>10. Total(fee, D) = Total(fee, T)
    BY <1>1, <1>6, <1>7, TotalOfPart
  <1>11. Total(fee, T) = Total(fees, T)
    BY <1>2, <1>8, SameTotal
  <1>12. Total(w, D) \in Int /\ Total(coins, D) \in Int /\ Total(fees, T) \in Int
    BY <1>2, <1>4, <1>6, TotalStep
  <1>13. Total(w, D) = Total(fees, T) - Total(coins, D)
    BY <1>9, <1>10, <1>11, <1>12
  <1> QED
    BY <1>2, <1>3, <1>4, <1>12, <1>13 DEF T

UnderWay == {i \in DOMAIN transactions : transactions[i].status = "IN_TRANSIT"}
ComingIn == [i \in UnderWay |-> Minus(transactions[i].amount, transactions[i].fee)]
Drifts == {i \in DOMAIN transactions : transactions[i].drift}

\* What a transaction leaves, by its parts.
LEMMA MoveParts ==
  ASSUME NEW t \in BookTransaction
  PROVE  LET fee == IF t.bought THEN 0 ELSE t.fee["BTC"]
             under == IF t.status = "IN_TRANSIT" THEN Minus(t.amount, t.fee)["BTC"] ELSE 0
             drift == IF t.drift THEN TransactionPosition(t)["BTC"] ELSE 0
         IN  /\ fee \in Int /\ under \in Int /\ drift \in Int
             /\ Minus(t.amount, t.fee)["BTC"] \in Int /\ TransactionPosition(t)["BTC"] \in Int
             /\ t.fee["BTC"] \in Int
             /\ fee + under = MoveLeft[t] + drift
  <1> DEFINE fee == IF t.bought THEN 0 ELSE t.fee["BTC"]
             diff == t.amount["BTC"] - t.fee["BTC"]
             under == IF t.status = "IN_TRANSIT" THEN diff ELSE 0
             drift == IF t.drift THEN TransactionPosition(t)["BTC"] ELSE 0
  <1>1. t.amount \in Money /\ t.fee \in Money /\ "BTC" \in Currencies
    BY DEF BookTransaction, Currencies
  <1>2. t.amount["BTC"] \in Int /\ t.fee["BTC"] \in Int
    BY <1>1 DEF Money
  <1>3. TransactionPosition(t)["BTC"] \in Int
    BY <1>1, MovePositionIs DEF Money
  <1>4. Minus(t.amount, t.fee)["BTC"] = diff
    BY <1>1, MoneyAdds
  <1>5. MoveLeft[t] = fee + under - drift
    BY DEF MoveLeft
  <1>6. fee \in Int /\ under \in Int /\ drift \in Int /\ diff \in Int
    BY <1>2, <1>3
  <1>7. under = IF t.status = "IN_TRANSIT" THEN Minus(t.amount, t.fee)["BTC"] ELSE 0
    BY <1>4
  <1> HIDE DEF fee, under, drift, diff
  <1>8. fee + under = MoveLeft[t] + drift
    BY <1>5, <1>6
  <1> QED
    BY <1>2, <1>3, <1>4, <1>6, <1>7, <1>8 DEF fee, drift

\* What the transactions leave is outstanding fees and what is under way, less
\* drift.
LEMMA MovesLeft ==
  ASSUME BooksTypeOK
  PROVE  /\ SumOf(TransactionFeesOf(OutstandingTransactions)).BTC \in Int
         /\ SumOf(ComingIn).BTC \in Int /\ DriftOf(DOMAIN transactions).BTC \in Int
         /\ Weigh(transactions, MoveLeft)
              = SumOf(TransactionFeesOf(OutstandingTransactions)).BTC + SumOf(ComingIn).BTC
                  - DriftOf(DOMAIN transactions).BTC
  <1> DEFINE D == DOMAIN transactions
             U == OutstandingTransactions
             w == Weights(transactions, MoveLeft)
             fees == Parts(TransactionFeesOf(U), "BTC")
             fee == [i \in D |-> IF transactions[i].bought THEN 0 ELSE transactions[i].fee["BTC"]]
             unders == Parts(ComingIn, "BTC")
             under == [i \in D |-> IF transactions[i].status = "IN_TRANSIT"
                                   THEN Minus(transactions[i].amount, transactions[i].fee)["BTC"]
                                   ELSE 0]
             drifting == [i \in Drifts |-> TransactionPosition(transactions[i])]
             drifts == Parts(drifting, "BTC")
             drift == [i \in D |-> IF transactions[i].drift
                                   THEN TransactionPosition(transactions[i])["BTC"] ELSE 0]
             both == [i \in D |-> fee[i] + under[i]]
  <1>1. /\ IsFiniteSet(D) /\ "BTC" \in Currencies /\ MoveLeft \in [BookTransaction -> Int]
        /\ transactions \in Seq(BookTransaction)
        /\ \A i \in D : transactions[i] \in BookTransaction
    <2>1. DOMAIN transactions = 1..Len(transactions) /\ Len(transactions) \in Nat
      BY MovesAre
    <2>2. IsFiniteSet(D)
      BY <2>1, FS_Interval
    <2> QED
      BY <2>2, MovesAre, WeightsAre DEF Currencies
  <1>2. Summands(w, D) /\ Weigh(transactions, MoveLeft) = Total(w, D)
    BY <1>1, Weighable DEF Weigh
  <1>3. SumOf(TransactionFeesOf(U)).BTC = Total(fees, U) /\ Summands(fees, U) /\ U \subseteq D
        /\ \A i \in U : fees[i] = transactions[i].fee["BTC"]
    <2>1. U \subseteq D /\ {} \subseteq Rows(bookOrders)
      BY OutstandingAre
    <2> QED
      BY <2>1, FeesAre
  <1>4. SumOf(ComingIn).BTC = Total(unders, UnderWay) /\ UnderWay \subseteq D
        /\ \A i \in UnderWay : unders[i] = under[i]
    <2>1. DOMAIN ComingIn = UnderWay
      BY DEF ComingIn
    <2>2. SumOf(ComingIn)["BTC"] = Total(unders, DOMAIN ComingIn)
      BY <1>1, SumOfIs
    <2>3. \A i \in UnderWay : unders[i] = Minus(transactions[i].amount, transactions[i].fee)["BTC"]
      BY DEF Parts, ComingIn
    <2> QED
      BY <2>1, <2>2, <2>3 DEF UnderWay
  <1>5. DriftOf(D).BTC = Total(drifts, Drifts) /\ Drifts \subseteq D
        /\ \A i \in Drifts : drifts[i] = drift[i]
    <2>1. DOMAIN drifting = Drifts /\ DriftOf(D) = SumOf(drifting)
      BY DEF DriftOf, Drifts
    <2>2. SumOf(drifting)["BTC"] = Total(drifts, DOMAIN drifting)
      BY <1>1, SumOfIs
    <2>3. \A i \in Drifts : drifts[i] = TransactionPosition(transactions[i])["BTC"]
      BY DEF Parts
    <2> QED
      BY <2>1, <2>2, <2>3 DEF Drifts
  <1>6. ASSUME NEW i \in D
        PROVE  /\ fee[i] \in Int /\ under[i] \in Int /\ drift[i] \in Int /\ both[i] \in Int
               /\ both[i] = fee[i] + under[i] /\ both[i] = w[i] + drift[i]
    <2>1. PICK t \in BookTransaction : t = transactions[i]
      BY <1>1
    <2>2. w[i] = MoveLeft[t]
      BY <2>1 DEF Weights
    <2> HIDE DEF w
    <2> DEFINE f == IF t.bought THEN 0 ELSE t.fee["BTC"]
               v == IF t.status = "IN_TRANSIT" THEN Minus(t.amount, t.fee)["BTC"] ELSE 0
               p == IF t.drift THEN TransactionPosition(t)["BTC"] ELSE 0
    <2>3. f \in Int /\ v \in Int /\ p \in Int /\ f + v = MoveLeft[t] + p
      BY MoveParts
    <2>4. fee[i] = f /\ under[i] = v /\ drift[i] = p /\ both[i] = fee[i] + under[i]
      BY <2>1
    <2> HIDE DEF f, v, p, fee, under, drift, both
    <2> QED
      BY <2>2, <2>3, <2>4
  <1>7. Summands(fee, D) /\ Summands(under, D) /\ Summands(drift, D) /\ Summands(both, D)
    BY <1>1, <1>6 DEF Summands
  <1>8. (\A i \in D \ U : fee[i] = 0) /\ (\A i \in U : fee[i] = fees[i])
    <2>1. ASSUME NEW i \in D
          PROVE  i \in U <=> transactions[i].fee["BTC"] # 0 /\ ~transactions[i].bought
      <3>1. transactions[i].status # "CANCELED"
        BY <1>1 DEF BookTransaction
      <3> QED
        BY <3>1 DEF OutstandingTransactions
    <2>2. \A i \in U : fees[i] = transactions[i].fee["BTC"] /\ i \in D
      BY <1>3
    <2> HIDE DEF fees, U
    <2>3. \A i \in D \ U : fee[i] = 0
      BY <2>1
    <2>4. \A i \in U : fee[i] = fees[i]
      BY <2>1, <2>2
    <2> QED
      BY <2>3, <2>4
  <1>9. \A i \in D \ UnderWay : under[i] = 0
    BY DEF UnderWay
  <1>10. \A i \in D \ Drifts : drift[i] = 0
    BY DEF Drifts
  <1> HIDE DEF w, fee, fees, under, unders, drift, drifts, drifting, both, D, U
  <1>11. Total(both, D) = Total(fee, D) + Total(under, D)
    BY <1>6, <1>7, TotalPlus
  <1>12. Total(both, D) = Total(w, D) + Total(drift, D)
    BY <1>2, <1>6, <1>7, TotalPlus
  <1>13. Total(fee, D) = Total(fees, U)
    <2>1. Total(fee, D) = Total(fee, U)
      BY <1>3, <1>7, <1>8, TotalOfPart
    <2>2. Total(fees, U) = Total(fee, U)
      BY <1>3, <1>8, SameTotal
    <2> QED
      BY <2>1, <2>2
  <1>14. Total(under, D) = Total(unders, UnderWay)
    <2>1. Total(under, D) = Total(under, UnderWay)
      BY <1>4, <1>7, <1>9, TotalOfPart
    <2>2. Summands(under, UnderWay)
      BY <1>4, <1>7, FS_Subset DEF Summands
    <2>3. Total(under, UnderWay) = Total(unders, UnderWay)
      BY <1>4, <2>2, SameTotal
    <2> QED
      BY <2>1, <2>3
  <1>15. Total(drift, D) = Total(drifts, Drifts)
    <2>1. Total(drift, D) = Total(drift, Drifts)
      BY <1>5, <1>7, <1>10, TotalOfPart
    <2>2. Summands(drift, Drifts)
      BY <1>5, <1>7, FS_Subset DEF Summands
    <2>3. Total(drift, Drifts) = Total(drifts, Drifts)
      BY <1>5, <2>2, SameTotal
    <2> QED
      BY <2>1, <2>3
  <1>16. /\ Total(w, D) \in Int /\ Total(fee, D) \in Int /\ Total(under, D) \in Int
         /\ Total(drift, D) \in Int
    BY <1>2, <1>7, TotalStep
  <1>17. Total(w, D) = Total(fee, D) + Total(under, D) - Total(drift, D)
    BY <1>11, <1>12, <1>16
  <1> QED
    BY <1>2, <1>3, <1>4, <1>5, <1>13, <1>14, <1>15, <1>16, <1>17 DEF U, D

\* The loans of a day are finitely many.
LEMMA ActiveAre ==
  ASSUME BooksTypeOK, NEW date
  PROVE  Cardinality(ActiveDebts(date)) \in Nat
  <1>1. DOMAIN debts = 1..Len(debts) /\ Len(debts) \in Nat
    BY LenProperties DEF BooksTypeOK
  <1>2. IsFiniteSet(DOMAIN debts)
    BY <1>1, FS_Interval
  <1>3. ActiveDebts(date) \subseteq DOMAIN debts
    BY DEF ActiveDebts
  <1> QED
    BY <1>2, <1>3, FS_Subset, FS_CardinalityType

\* The coins on the listed accounts, and those on the others.
Watched == SumOf([a \in ListedAccounts |-> balances[a]]).BTC

LEMMA CoinsSplit ==
  ASSUME BooksTypeOK
  PROVE  /\ Watched \in Int /\ NotWatched \in Int
         /\ Watched + NotWatched = Total(Parts(balances, "BTC"), Accounts)
  <1> DEFINE owned == Parts(balances, "BTC")
             others == Accounts \ ListedAccounts
             Some(S) == [a \in S |-> balances[a]]
  <1>1. /\ "BTC" \in Currencies /\ DOMAIN balances = Accounts
        /\ ListedAccounts \subseteq Accounts /\ others \subseteq Accounts
    BY BooksAssumption DEF BooksTypeOK, Currencies, ListedAccounts
  <1>2. Summands(owned, Accounts)
    BY <1>1, BooksAssumption DEF Summands, Parts, BooksTypeOK, Money
  <1>3. /\ Summands(owned, ListedAccounts) /\ Summands(owned, others)
        /\ Total(owned, Accounts) = Total(owned, ListedAccounts) + Total(owned, others)
    BY <1>1, <1>2, TotalSplit
  <1>4. ASSUME NEW S, S \subseteq Accounts, Summands(owned, S)
        PROVE  SumOf(Some(S))["BTC"] = Total(owned, S)
    <2>1. DOMAIN Some(S) = S /\ \A a \in S : Parts(Some(S), "BTC")[a] = owned[a]
      BY <1>1, <1>4 DEF Parts
    <2> HIDE DEF Some, owned
    <2>2. SumOf(Some(S))["BTC"] = Total(Parts(Some(S), "BTC"), S)
      BY <1>1, <2>1, SumOfIs
    <2>3. Total(owned, S) = Total(Parts(Some(S), "BTC"), S)
      BY <1>4, <2>1, SameTotal
    <2> QED
      BY <2>2, <2>3
  <1>5. Watched = Total(owned, ListedAccounts)
    BY <1>1, <1>3, <1>4 DEF Watched
  <1>6. SumOf(Some(others))["BTC"] = Total(owned, others)
    BY <1>1, <1>3, <1>4
  <1> HIDE DEF owned
  <1>7. Total(owned, ListedAccounts) \in Int /\ Total(owned, others) \in Int
    BY <1>3, TotalStep
  <1>8. NotWatched = Total(owned, others) + 0
    BY <1>6 DEF NotWatched, CachedMultiPosition
  <1> QED
    BY <1>3, <1>5, <1>7, <1>8 DEF owned

\* The net assets, by what they are made of.
LEMMA NetAssetsAre ==
  ASSUME BooksInv
  PROVE  /\ NetAssets \in Int /\ OutstandingFees \in Int /\ Unseen \in Int
         /\ NetAssets + NotWatched + OutstandingFees
              = TradedCoins + DriftOf(DOMAIN transactions).BTC + paidAgain + Unseen
  <1>1. BooksTypeOK /\ Explained /\ paidAgain \in Int
    BY DEF BooksInv, BooksTypeOK
  <1> DEFINE owned == Total(Parts(balances, "BTC"), Accounts)
             tradeFees == SumOf(TradeFeesOf(OutstandingTrades)).BTC
             moveFees == SumOf(TransactionFeesOf(OutstandingTransactions)).BTC
             under == SumOf(ComingIn).BTC
             drift == DriftOf(DOMAIN transactions).BTC
             known == Cardinality(ActiveDebts(watchSince)) * Debt.BTC
  <1>2. Watched \in Int /\ NotWatched \in Int /\ Watched + NotWatched = owned
    BY <1>1, CoinsSplit
  <1>3. OutstandingFees = tradeFees + moveFees
    BY DEF OutstandingFees, TradeFeesOf, TransactionFeesOf
  <1>4. NetAssets = Watched + under - 0 - known
    BY DEF NetAssets, Watched, ComingIn, UnderWay, CachedMultiPosition
  <1>5. Debt.BTC \in Int /\ OwedCoins \in Int
    BY <1>1, OwedIs
  <1>6. known \in Int /\ Unseen = OwedCoins - known
    <2>1. Cardinality(ActiveDebts(watchSince)) \in Nat
      BY <1>1, ActiveAre
    <2>2. Cardinality(Owed) \in Nat
      BY <1>1, OwedIs, FS_CardinalityType
    <2>3. PICK m \in Int, n \in Int, b \in Int :
            m = Cardinality(Owed) /\ n = Cardinality(ActiveDebts(watchSince)) /\ b = Debt.BTC
      BY <1>5, <2>1, <2>2
    <2>4. (m - n) * b = m * b - n * b /\ n * b \in Int
      BY <2>3
    <2> QED
      BY <2>3, <2>4 DEF Unseen, OwedCoins
  <1>7. /\ tradeFees \in Int /\ TradedCoins \in Int
        /\ WeighRows(bookOrders, TradeLeft) = tradeFees - TradedCoins
    BY <1>1, RowsLeft
  <1>8. /\ moveFees \in Int /\ under \in Int /\ drift \in Int
        /\ Weigh(transactions, MoveLeft) = moveFees + under - drift
    BY <1>1, MovesLeft
  <1>9. owned + WeighRows(bookOrders, TradeLeft) + Weigh(transactions, MoveLeft)
          = paidAgain + OwedCoins
    BY <1>1 DEF Explained
  <1> HIDE DEF owned, tradeFees, moveFees, under, drift, known
  <1>10. owned + (tradeFees - TradedCoins) + (moveFees + under - drift) = paidAgain + OwedCoins
    BY <1>7, <1>8, <1>9
  <1>11. (Watched + under - 0 - known) + NotWatched + (tradeFees + moveFees)
           = TradedCoins + drift + paidAgain + (OwedCoins - known)
    BY <1>1, <1>2, <1>5, <1>6, <1>7, <1>8, <1>10
  <1>12. NetAssets \in Int /\ OutstandingFees \in Int /\ Unseen \in Int
    BY <1>2, <1>3, <1>4, <1>5, <1>6, <1>7, <1>8
  <1> QED
    BY <1>3, <1>4, <1>6, <1>11, <1>12 DEF drift

\* The error of the net assets is what the property says.
LEMMA ErrorExplained ==
  ASSUME BooksInv
  PROVE  -NetAssetsError + NotWatched
           = TradedCoins + DriftOf(DOMAIN transactions).BTC + paidAgain + Unseen
  <1>1. /\ NetAssets \in Int /\ OutstandingFees \in Int /\ NotWatched \in Int
        /\ NetAssets + NotWatched + OutstandingFees
             = TradedCoins + DriftOf(DOMAIN transactions).BTC + paidAgain + Unseen
    BY NetAssetsAre, CoinsSplit DEF BooksInv
  <1>2. -NetAssetsError + NotWatched = NetAssets + NotWatched + OutstandingFees
    <2>1. PICK n \in Int, f \in Int, w \in Int :
            n = NetAssets /\ f = OutstandingFees /\ w = NotWatched
      BY <1>1
    <2>2. -(-(n + f)) + w = n + w + f
      OBVIOUS
    <2> QED
      BY <2>1, <2>2 DEF NetAssetsError
  <1> QED
    BY <1>1, <1>2

RowValue(c) == [row \in TradeRows |-> TradePosition(bookOrders[row[1]])[c]]
MoveValue(c) == [i \in DOMAIN transactions |-> TransactionPosition(transactions[i])[c]]

\* The positions of trades and of transactions are numbers.
LEMMA ValuesAre ==
  ASSUME BooksTypeOK, NEW c \in Currencies
  PROVE  /\ TradeRows = Rows(bookOrders) /\ bookOrders \in BookOrders
         /\ Summands(RowValue(c), TradeRows) /\ Summands(MoveValue(c), DOMAIN transactions)
  <1>1. bookOrders \in BookOrders /\ TradeRows = Rows(bookOrders)
    BY DEF BooksTypeOK, TradeRows, Rows
  <1>2. \A row \in TradeRows : RowValue(c)[row] \in Int
    BY TradePositionIs DEF RowValue, Money
  <1>3. Summands(RowValue(c), TradeRows)
    BY <1>1, <1>2, RowsAre DEF Summands
  <1>4. \A i \in DOMAIN transactions : MoveValue(c)[i] \in Int
    <2>1. \A i \in DOMAIN transactions : transactions[i] \in BookTransaction
      BY MovesAre
    <2>2. \A i \in DOMAIN transactions :
            transactions[i].amount \in Money /\ transactions[i].fee \in Money
      BY <2>1 DEF BookTransaction
    <2>3. \A i \in DOMAIN transactions : TransactionPosition(transactions[i]) \in Money
      BY <2>2, MovePositionIs
    <2> QED
      BY <2>3 DEF MoveValue, Money
  <1>5. DOMAIN transactions = 1..Len(transactions) /\ Len(transactions) \in Nat
    BY MovesAre
  <1>6. IsFiniteSet(DOMAIN transactions)
    BY <1>5, FS_Interval
  <1>7. Summands(MoveValue(c), DOMAIN transactions)
    BY <1>4, <1>6 DEF Summands
  <1> QED
    BY <1>1, <1>3, <1>7

\* The balance of a ledger, as sums over the rows it asks for.
LEMMA LedgerIs ==
  ASSUME BooksTypeOK, NEW a, NEW start, NEW end, NEW pending
  PROVE  /\ LedgerBalanceOf(a, start, end, pending) \in Money
         /\ TradesOf(a, start, end) \subseteq TradeRows
         /\ MovesOf(a, start, end, pending) \subseteq DOMAIN transactions
         /\ \A c \in Currencies :
              /\ Total(RowValue(c), TradesOf(a, start, end)) \in Int
              /\ Total(MoveValue(c), MovesOf(a, start, end, pending)) \in Int
              /\ LedgerBalanceOf(a, start, end, pending)[c]
                   = Total(RowValue(c), TradesOf(a, start, end))
                       + Total(MoveValue(c), MovesOf(a, start, end, pending))
  <1> DEFINE D == TradesOf(a, start, end)
             E == MovesOf(a, start, end, pending)
             traded == [row \in D |-> TradePosition(bookOrders[row[1]])]
             moved == [i \in E |-> TransactionPosition(transactions[i])]
  <1>1. D \subseteq TradeRows /\ E \subseteq DOMAIN transactions
    BY DEF TradesOf, MovesOf
  <1>2. ASSUME NEW c \in Currencies
        PROVE  /\ Total(RowValue(c), D) \in Int /\ Total(MoveValue(c), E) \in Int
               /\ SumOf(traded)[c] = Total(RowValue(c), D)
               /\ SumOf(moved)[c] = Total(MoveValue(c), E)
    <2>1. Summands(RowValue(c), D) /\ Summands(MoveValue(c), E)
      <3>1. Summands(RowValue(c), TradeRows) /\ Summands(MoveValue(c), DOMAIN transactions)
        BY ValuesAre
      <3> HIDE DEF D, E
      <3> QED
        BY <1>1, <3>1, FS_Subset DEF Summands
    <2>2. /\ \A row \in D : RowValue(c)[row] = Parts(traded, c)[row]
          /\ \A i \in E : MoveValue(c)[i] = Parts(moved, c)[i]
      BY <1>1 DEF RowValue, MoveValue, Parts
    <2>3. DOMAIN traded = D /\ DOMAIN moved = E
      OBVIOUS
    <2> HIDE DEF D, E, traded, moved
    <2>4. SumOf(traded)[c] = Total(Parts(traded, c), D) /\ SumOf(moved)[c] = Total(Parts(moved, c), E)
      BY <2>3, SumOfIs
    <2>5. Total(RowValue(c), D) = Total(Parts(traded, c), D)
      BY <2>1, <2>2, SameTotal
    <2>6. Total(MoveValue(c), E) = Total(Parts(moved, c), E)
      BY <2>1, <2>2, SameTotal
    <2> QED
      BY <2>1, <2>4, <2>5, <2>6, TotalStep
  <1>3. SumOf(traded) \in Money /\ SumOf(moved) \in Money
    <2>1. SumOf(traded) = [c \in Currencies |-> SumOf(traded)[c]]
          /\ SumOf(moved) = [c \in Currencies |-> SumOf(moved)[c]]
      BY DEF SumOf, Currencies
    <2> HIDE DEF D, E, traded, moved
    <2> QED
      BY <1>2, <2>1 DEF Money
  <1>4. LedgerBalanceOf(a, start, end, pending) = Plus(SumOf(traded), SumOf(moved))
    BY DEF LedgerBalanceOf
  <1> HIDE DEF D, E, traded, moved
  <1>5. /\ LedgerBalanceOf(a, start, end, pending) \in Money
        /\ \A c \in Currencies : LedgerBalanceOf(a, start, end, pending)[c]
                                   = SumOf(traded)[c] + SumOf(moved)[c]
    BY <1>3, <1>4, MoneyAdds
  <1> QED
    BY <1>1, <1>2, <1>5 DEF D, E

\* Up to today, these are all rows of the account.
LEMMA UntilToday ==
  ASSUME BooksTypeOK, NEW a
  PROVE  /\ TradesOf(a, 0, today) = {row \in TradeRows : bookOrders[row[1]].account = a}
         /\ MovesOf(a, 0, today, FALSE)
              = {i \in DOMAIN transactions : /\ transactions[i].account = a
                                             /\ transactions[i].status = "COMPLETED"}
         /\ MovesOf(a, 0, today, TRUE) = {i \in DOMAIN transactions : transactions[i].account = a}
  <1>1. today \in Nat /\ bookOrders \in BookOrders /\ TradeRows = Rows(bookOrders)
    BY DEF BooksTypeOK, TradeRows, Rows
  <1>2. ASSUME NEW row \in TradeRows
        PROVE  Within(bookOrders[row[1]].trades[row[2]].time, 0, today)
    <2>1. row[1] \in DOMAIN bookOrders /\ row[2] \in DOMAIN bookOrders[row[1]].trades
      BY <1>1, RowsAre
    <2>2. PICK ts \in Seq(EnteredTrades) : ts = bookOrders[row[1]].trades
      BY <2>1 DEF BooksTypeOK
    <2>3. ts[row[2]] \in EnteredTrades
      BY <2>1, <2>2, LenProperties, ElementOfSeq
    <2>4. ts[row[2]].time \in 1..today
      BY <2>3 DEF EnteredTrades
    <2> QED
      BY <1>1, <2>2, <2>4 DEF Within
  <1>3. ASSUME NEW i \in DOMAIN transactions
        PROVE  /\ transactions[i].status \in {"COMPLETED", "IN_TRANSIT"}
               /\ Within(transactions[i].created, 0, today)
               /\ transactions[i].status = "COMPLETED" => Within(When(transactions[i]), 0, today)
    <2>1. PICK t \in EnteredMoves : t = transactions[i]
      BY MovesAre
    <2>2. t.status \in {"COMPLETED", "IN_TRANSIT"} /\ t.created \in 1..today
          /\ (t.status = "COMPLETED" => t.completed \in 1..today)
      BY <2>1 DEF EnteredMoves, BookTransaction
    <2> QED
      BY <1>1, <2>1, <2>2 DEF Within, When, Never
  <1>4. TradesOf(a, 0, today) = {row \in TradeRows : bookOrders[row[1]].account = a}
    BY <1>2 DEF TradesOf
  <1>5. MovesOf(a, 0, today, FALSE)
              = {i \in DOMAIN transactions : /\ transactions[i].account = a
                                             /\ transactions[i].status = "COMPLETED"}
    BY <1>3 DEF MovesOf
  <1>6. MovesOf(a, 0, today, TRUE) = {i \in DOMAIN transactions : transactions[i].account = a}
    BY <1>3 DEF MovesOf
  <1> QED
    BY <1>4, <1>5, <1>6

\* The weights behind a balance are the sums of its ledger.
LEMMA WeighedIs ==
  ASSUME BooksTypeOK, NEW a, NEW c \in Currencies
  PROVE  /\ WeighRows(bookOrders, TradeIn(a, c)) = Total(RowValue(c), TradesOf(a, 0, today))
         /\ Weigh(transactions, MoveIn(a, c)) = Total(MoveValue(c), MovesOf(a, 0, today, FALSE))
  <1>1. /\ TradeRows = Rows(bookOrders) /\ bookOrders \in BookOrders
        /\ Summands(RowValue(c), TradeRows) /\ Summands(MoveValue(c), DOMAIN transactions)
    BY ValuesAre
  <1>2. WeighRows(bookOrders, TradeIn(a, c)) = Total(RowValue(c), TradesOf(a, 0, today))
    <2> DEFINE w == RowWeights(bookOrders, TradeIn(a, c))
               D == TradesOf(a, 0, today)
    <2>1. Summands(w, TradeRows) /\ WeighRows(bookOrders, TradeIn(a, c)) = Total(w, TradeRows)
      BY <1>1, WeightsAre, RowsWeighable DEF WeighRows
    <2>2. D = {row \in TradeRows : bookOrders[row[1]].account = a}
      BY UntilToday
    <2>3. ASSUME NEW row \in TradeRows
          PROVE  w[row] = IF bookOrders[row[1]].account = a THEN RowValue(c)[row] ELSE 0
      <3>1. PICK o, b : o = bookOrders[row[1]] /\ b = o.trades[row[2]].bought
        OBVIOUS
      <3>2. Kind(o, b) \in Kinds /\ RowKind(bookOrders, row) = Kind(o, b)
        BY <1>1, <3>1, RowsAre DEF RowKind
      <3>3. w[row] = TradeIn(a, c)[Kind(o, b)]
        BY <1>1, <3>2 DEF RowWeights
      <3>4. TradeIn(a, c)[Kind(o, b)] = IF o.account = a THEN TradePosition(Kind(o, b))[c] ELSE 0
        BY <3>2 DEF TradeIn, Kind
      <3>5. TradePosition(Kind(o, b)) = TradePosition(o)
        BY TradePositionIs
      <3> QED
        BY <3>1, <3>3, <3>4, <3>5 DEF RowValue
    <2> HIDE DEF w, D
    <2>4. D \subseteq TradeRows /\ (\A row \in TradeRows \ D : w[row] = 0)
          /\ \A row \in D : w[row] = RowValue(c)[row]
      BY <2>2, <2>3
    <2>5. Total(w, TradeRows) = Total(w, D)
      BY <2>1, <2>4, TotalOfPart
    <2>6. Summands(w, D)
      BY <2>1, <2>4, FS_Subset DEF Summands
    <2>7. Total(w, D) = Total(RowValue(c), D)
      BY <2>4, <2>6, SameTotal
    <2> QED
      BY <2>1, <2>5, <2>7 DEF D
  <1>3. Weigh(transactions, MoveIn(a, c)) = Total(MoveValue(c), MovesOf(a, 0, today, FALSE))
    <2> DEFINE w == Weights(transactions, MoveIn(a, c))
               D == MovesOf(a, 0, today, FALSE)
               E == DOMAIN transactions
    <2>1. Summands(w, E) /\ Weigh(transactions, MoveIn(a, c)) = Total(w, E)
      BY MovesAre, WeightsAre, Weighable DEF Weigh
    <2>2. D = {i \in E : transactions[i].account = a /\ transactions[i].status = "COMPLETED"}
      BY UntilToday
    <2>3. ASSUME NEW i \in E
          PROVE  w[i] = IF transactions[i].account = a /\ transactions[i].status = "COMPLETED"
                        THEN MoveValue(c)[i] ELSE 0
      <3>1. transactions[i] \in BookTransaction
        BY MovesAre
      <3>2. w[i] = MoveIn(a, c)[transactions[i]]
        BY DEF Weights
      <3> QED
        BY <3>1, <3>2 DEF MoveIn, MoveValue
    <2> HIDE DEF w, D, E
    <2>4. D \subseteq E /\ (\A i \in E \ D : w[i] = 0)
          /\ \A i \in D : w[i] = MoveValue(c)[i]
      BY <2>2, <2>3
    <2>5. Total(w, E) = Total(w, D)
      BY <2>1, <2>4, TotalOfPart
    <2>6. Summands(w, D)
      BY <2>1, <2>4, FS_Subset DEF Summands
    <2>7. Total(w, D) = Total(MoveValue(c), D)
      BY <2>4, <2>6, SameTotal
    <2> QED
      BY <2>1, <2>5, <2>7 DEF D
  <1> QED
    BY <1>2, <1>3

\* Money is the same when it is in each currency.
LEMMA SameMoney ==
  ASSUME NEW x \in Money, NEW y \in Money, \A c \in Currencies : x[c] = y[c]
  PROVE  x = y
  BY DEF Money

\* The balance column is what the ledger says.
LEMMA BalanceIsLedger ==
  ASSUME BooksInv, NEW a \in Accounts
  PROVE  balances[a] = LedgerBalanceOf(a, 0, today, FALSE)
  <1>1. BooksTypeOK /\ Accounted
    BY DEF BooksInv
  <1>2. LedgerBalanceOf(a, 0, today, FALSE) \in Money /\ balances[a] \in Money
    BY <1>1, LedgerIs DEF BooksTypeOK
  <1>3. \A c \in Currencies : balances[a][c] = LedgerBalanceOf(a, 0, today, FALSE)[c]
    <2> SUFFICES ASSUME NEW c \in Currencies
                 PROVE  balances[a][c] = LedgerBalanceOf(a, 0, today, FALSE)[c]
      OBVIOUS
    <2>1. LedgerBalanceOf(a, 0, today, FALSE)[c]
            = Total(RowValue(c), TradesOf(a, 0, today))
                + Total(MoveValue(c), MovesOf(a, 0, today, FALSE))
      BY <1>1, LedgerIs
    <2>2. balances[a][c] = WeighRows(bookOrders, TradeIn(a, c)) + Weigh(transactions, MoveIn(a, c))
      BY <1>1 DEF Accounted
    <2> QED
      BY <1>1, <2>1, <2>2, WeighedIs
  <1> QED
    BY <1>2, <1>3, SameMoney

\* What was made by the middle of a period and what was made after it is what
\* was made in the period.
LEMMA PeriodsSplit ==
  ASSUME NEW time \in Int, NEW start \in Int, NEW middle \in Int, NEW end \in Int,
         start <= middle, middle <= end
  PROVE  /\ Within(time, start, end) <=> Within(time, start, middle) \/ Within(time, middle, end)
         /\ ~(Within(time, start, middle) /\ Within(time, middle, end))
  BY DEF Within

\* The ledger of a period is that of its beginning and that of its end.
LEMMA LedgersSplit ==
  ASSUME BooksTypeOK, NEW a, NEW start \in Int, NEW middle \in Int, NEW end \in Int,
         start <= middle, middle <= end, NEW c \in Currencies
  PROVE  LedgerBalanceOf(a, start, end, TRUE)[c]
           = LedgerBalanceOf(a, start, middle, TRUE)[c] + LedgerBalanceOf(a, middle, end, TRUE)[c]
  <1>1. ASSUME NEW row \in TradeRows
        PROVE  bookOrders[row[1]].trades[row[2]].time \in Int
    <2>1. row[1] \in DOMAIN bookOrders /\ row[2] \in DOMAIN bookOrders[row[1]].trades
      BY ValuesAre, RowsAre
    <2>2. PICK ts \in Seq(EnteredTrades) : ts = bookOrders[row[1]].trades
      BY <2>1 DEF BooksTypeOK
    <2>3. ts[row[2]] \in EnteredTrades
      BY <2>1, <2>2, LenProperties, ElementOfSeq
    <2>4. ts[row[2]].time \in 1..today
      BY <2>3 DEF EnteredTrades
    <2> QED
      BY <2>2, <2>4
  <1>2. ASSUME NEW i \in DOMAIN transactions
        PROVE  transactions[i].created \in Int
    BY MovesAre DEF EnteredMoves, BookTransaction
  <1> DEFINE D == TradesOf(a, start, end)
             D1 == TradesOf(a, start, middle)
             D2 == TradesOf(a, middle, end)
             E == MovesOf(a, start, end, TRUE)
             E1 == MovesOf(a, start, middle, TRUE)
             E2 == MovesOf(a, middle, end, TRUE)
             f == RowValue(c)
             g == MoveValue(c)
  <1>3. D1 \subseteq D /\ D2 = D \ D1
    <2>1. ASSUME NEW row \in TradeRows
          PROVE  (row \in D <=> row \in D1 \/ row \in D2) /\ ~(row \in D1 /\ row \in D2)
      <3>1. PICK time \in Int : time = bookOrders[row[1]].trades[row[2]].time
        BY <1>1
      <3>2. /\ Within(time, start, end) <=> Within(time, start, middle) \/ Within(time, middle, end)
            /\ ~(Within(time, start, middle) /\ Within(time, middle, end))
        BY PeriodsSplit
      <3> QED
        BY <3>1, <3>2 DEF TradesOf
    <2>2. D \subseteq TradeRows /\ D1 \subseteq TradeRows /\ D2 \subseteq TradeRows
      BY DEF TradesOf
    <2> HIDE DEF D, D1, D2
    <2> QED
      BY <2>1, <2>2
  <1>4. E1 \subseteq E /\ E2 = E \ E1
    <2>1. ASSUME NEW i \in DOMAIN transactions
          PROVE  (i \in E <=> i \in E1 \/ i \in E2) /\ ~(i \in E1 /\ i \in E2)
      <3>1. PICK time \in Int : time = transactions[i].created
        BY <1>2
      <3>2. /\ Within(time, start, end) <=> Within(time, start, middle) \/ Within(time, middle, end)
            /\ ~(Within(time, start, middle) /\ Within(time, middle, end))
        BY PeriodsSplit
      <3> QED
        BY <3>1, <3>2 DEF MovesOf
    <2>2. E \subseteq DOMAIN transactions /\ E1 \subseteq DOMAIN transactions
          /\ E2 \subseteq DOMAIN transactions
      BY DEF MovesOf
    <2> HIDE DEF E, E1, E2
    <2> QED
      BY <2>1, <2>2
  <1>5. Summands(f, D) /\ Summands(g, E)
    <2>1. Summands(f, TradeRows) /\ Summands(g, DOMAIN transactions)
      BY ValuesAre
    <2>2. D \subseteq TradeRows /\ E \subseteq DOMAIN transactions
      BY LedgerIs
    <2> HIDE DEF f, g, D, E
    <2> QED
      BY <2>1, <2>2, FS_Subset DEF Summands
  <1>6. /\ LedgerBalanceOf(a, start, end, TRUE)[c] = Total(f, D) + Total(g, E)
        /\ LedgerBalanceOf(a, start, middle, TRUE)[c] = Total(f, D1) + Total(g, E1)
        /\ LedgerBalanceOf(a, middle, end, TRUE)[c] = Total(f, D2) + Total(g, E2)
        /\ Total(f, D1) \in Int /\ Total(g, E1) \in Int /\ Total(f, D2) \in Int /\ Total(g, E2) \in Int
    BY LedgerIs
  <1> HIDE DEF f, g, D, D1, D2, E, E1, E2
  <1>7. Total(f, D) = Total(f, D1) + Total(f, D2)
    BY <1>3, <1>5, TotalSplit
  <1>8. Total(g, E) = Total(g, E1) + Total(g, E2)
    BY <1>4, <1>5, TotalSplit
  <1>9. PICK x1 \in Int, x2 \in Int, y1 \in Int, y2 \in Int :
          x1 = Total(f, D1) /\ x2 = Total(f, D2) /\ y1 = Total(g, E1) /\ y2 = Total(g, E2)
    BY <1>6
  <1>10. /\ LedgerBalanceOf(a, start, end, TRUE)[c] = (x1 + x2) + (y1 + y2)
         /\ LedgerBalanceOf(a, start, middle, TRUE)[c] = x1 + y1
         /\ LedgerBalanceOf(a, middle, end, TRUE)[c] = x2 + y2
    BY <1>6, <1>7, <1>8, <1>9
  <1>11. (x1 + x2) + (y1 + y2) = (x1 + y1) + (x2 + y2)
    OBVIOUS
  <1> QED
    BY <1>10, <1>11

\* What the ledgers of all accounts add up to.
LedgerIn(start, end, c) == [a \in Accounts |-> LedgerBalanceOf(a, start, end, TRUE)[c]]

\* The total balance, in each currency.
LEMMA TotalBalanceIs ==
  ASSUME BooksTypeOK, NEW start, NEW end
  PROVE  /\ TotalBalance(start, end) \in Money
         /\ \A c \in Currencies : /\ Summands(LedgerIn(start, end, c), Accounts)
                                  /\ TotalBalance(start, end)[c]
                                       = Total(LedgerIn(start, end, c), Accounts)
  <1> DEFINE ledgers == [a \in Accounts |-> LedgerBalanceOf(a, start, end, TRUE)]
  <1>1. TotalBalance(start, end) = SumOf(ledgers) /\ DOMAIN ledgers = Accounts
    BY DEF TotalBalance
  <1>2. ASSUME NEW c \in Currencies
        PROVE  /\ Summands(LedgerIn(start, end, c), Accounts)
               /\ SumOf(ledgers)[c] = Total(LedgerIn(start, end, c), Accounts)
               /\ SumOf(ledgers)[c] \in Int
    <2>1. ASSUME NEW a \in Accounts
          PROVE  LedgerBalanceOf(a, start, end, TRUE)[c] \in Int
      <3>1. LedgerBalanceOf(a, start, end, TRUE) \in Money
        BY LedgerIs
      <3> QED
        BY <3>1 DEF Money
    <2>2. Parts(ledgers, c) = LedgerIn(start, end, c)
      BY DEF Parts, LedgerIn
    <2>3. Summands(LedgerIn(start, end, c), Accounts)
      BY <2>1, BooksAssumption DEF Summands, LedgerIn
    <2> HIDE DEF ledgers
    <2>4. SumOf(ledgers)[c] = Total(Parts(ledgers, c), Accounts)
      BY <1>1, SumOfIs
    <2> QED
      BY <2>2, <2>3, <2>4, TotalStep
  <1>3. SumOf(ledgers) = [c \in Currencies |-> SumOf(ledgers)[c]]
    BY DEF SumOf, Currencies
  <1> HIDE DEF ledgers
  <1>4. SumOf(ledgers) \in Money
    BY <1>2, <1>3 DEF Money
  <1> QED
    BY <1>1, <1>2, <1>4

\* The total balance of a period, by its beginning and its end.
LEMMA TotalBalanceSplits ==
  ASSUME BooksTypeOK, NEW start \in Int, NEW middle \in Int, NEW end \in Int,
         start <= middle, middle <= end
  PROVE  TotalBalance(start, end) = Plus(TotalBalance(start, middle), TotalBalance(middle, end))
  <1>1. /\ TotalBalance(start, end) \in Money /\ TotalBalance(start, middle) \in Money
        /\ TotalBalance(middle, end) \in Money
    BY TotalBalanceIs
  <1>2. /\ Plus(TotalBalance(start, middle), TotalBalance(middle, end)) \in Money
        /\ \A c \in Currencies : Plus(TotalBalance(start, middle), TotalBalance(middle, end))[c]
                                   = TotalBalance(start, middle)[c] + TotalBalance(middle, end)[c]
    BY <1>1, MoneyAdds
  <1>3. ASSUME NEW c \in Currencies
        PROVE  TotalBalance(start, end)[c] = TotalBalance(start, middle)[c] + TotalBalance(middle, end)[c]
    <2> DEFINE f == LedgerIn(start, middle, c)
               g == LedgerIn(middle, end, c)
               h == LedgerIn(start, end, c)
    <2>1. /\ Summands(f, Accounts) /\ TotalBalance(start, middle)[c] = Total(f, Accounts)
          /\ Summands(g, Accounts) /\ TotalBalance(middle, end)[c] = Total(g, Accounts)
          /\ TotalBalance(start, end)[c] = Total(h, Accounts)
      BY TotalBalanceIs
    <2>2. \A a \in Accounts : h[a] = f[a] + g[a]
      BY LedgersSplit DEF LedgerIn
    <2> HIDE DEF f, g, h
    <2>3. Total(h, Accounts) = Total(f, Accounts) + Total(g, Accounts)
      BY <2>1, <2>2, TotalPlus
    <2> QED
      BY <2>1, <2>3
  <1> QED
    BY <1>1, <1>2, <1>3, SameMoney

\* The page, which adds from day to day, shows for each day what all ledgers
\* add up to.
DayByDay(series, start, end) ==
  series = [day \in start..end |->
              IF day = start THEN TotalBalance(0, start)
                             ELSE Plus(series[day - 1], TotalBalance(day - 1, day))]

\* The day before, within a period.
LEMMA DayBefore ==
  ASSUME NEW start \in Nat, NEW end \in Nat, NEW day \in start..end, day # start
  PROVE  /\ day - 1 \in start..end /\ 0 <= day - 1 /\ day - 1 <= day
         /\ day \in Int /\ day - 1 \in Int /\ ~(day <= day - 1)
  OBVIOUS

\* The last day of the series, from whatever day on it was added up.
LEMMA SeriesIs ==
  ASSUME BooksTypeOK, NEW start \in Nat, NEW end \in Nat, start <= end
  PROVE  AssetsSeries(start, end)[end] = TotalBalance(0, end)
  <1> DEFINE all == [day \in start..end |-> TotalBalance(0, day)]
  <1>1. AssetsSeries(start, end) = CHOOSE series : DayByDay(series, start, end)
    BY DEF AssetsSeries, DayByDay
  <1>2. DayByDay(all, start, end)
    <2>1. ASSUME NEW day \in start..end, day # start
          PROVE  TotalBalance(0, day) = Plus(all[day - 1], TotalBalance(day - 1, day))
      <3>1. day - 1 \in start..end /\ 0 <= day - 1 /\ day - 1 <= day /\ day \in Int /\ day - 1 \in Int
        BY <2>1, DayBefore
      <3>2. all[day - 1] = TotalBalance(0, day - 1)
        BY <3>1
      <3>3. TotalBalance(0, day) = Plus(TotalBalance(0, day - 1), TotalBalance(day - 1, day))
        BY <3>1, TotalBalanceSplits
      <3> QED
        BY <3>2, <3>3
    <2>2. \A day \in start..end :
            all[day] = IF day = start THEN TotalBalance(0, start)
                                      ELSE Plus(all[day - 1], TotalBalance(day - 1, day))
      BY <2>1
    <2>3. all = [day \in start..end |-> all[day]]
      OBVIOUS
    <2> HIDE DEF all
    <2> QED
      BY <2>2, <2>3 DEF DayByDay
  <1> DEFINE series == AssetsSeries(start, end)
  <1>3. DayByDay(series, start, end)
    BY <1>1, <1>2
  <1> HIDE DEF series
  <1>4. \A day \in start..end :
          series[day] = IF day = start THEN TotalBalance(0, start)
                                       ELSE Plus(series[day - 1], TotalBalance(day - 1, day))
    BY <1>3 DEF DayByDay
  <1>5. \A day \in start..end :
          all[day] = IF day = start THEN TotalBalance(0, start)
                                    ELSE Plus(all[day - 1], TotalBalance(day - 1, day))
    BY <1>2 DEF DayByDay
  <1>6. all[end] = TotalBalance(0, end)
    OBVIOUS
  <1> HIDE DEF all
  <1> DEFINE bad == {day \in start..end : series[day] # all[day]}
  <1>7. bad = {}
    <2> SUFFICES ASSUME bad # {} PROVE FALSE
      OBVIOUS
    <2>1. bad \subseteq Nat
      OBVIOUS
    <2>2. PICK day \in bad : \A other \in bad : day <= other
      BY <2>1, LeastNumber
    <2>3. day \in start..end /\ series[day] # all[day]
      OBVIOUS
    <2>4. day # start
      BY <1>4, <1>5, <2>3
    <2>5. day - 1 \in start..end /\ ~(day <= day - 1)
      BY <2>3, <2>4, DayBefore
    <2>6. series[day - 1] = all[day - 1]
      BY <2>2, <2>5
    <2> QED
      BY <1>4, <1>5, <2>3, <2>4, <2>6
  <1> QED
    BY <1>6, <1>7 DEF series

\* What a ledger has beside the balance is what is under way to its account.
UnderWayTo(a) == {i \in UnderWay : transactions[i].account = a}

\* The ledger with the pending ones is the balance and what is under way.
LEMMA WithUnderWay ==
  ASSUME BooksInv, NEW a \in Accounts
  PROVE  /\ UnderWayTo(a) \subseteq DOMAIN transactions
         /\ LedgerBalanceOf(a, 0, today, TRUE)["BTC"]
              = balances[a]["BTC"] + Total(MoveValue("BTC"), UnderWayTo(a))
  <1> DEFINE D == TradesOf(a, 0, today)
             E == MovesOf(a, 0, today, TRUE)
             E1 == MovesOf(a, 0, today, FALSE)
             E2 == UnderWayTo(a)
             f == RowValue("BTC")
             g == MoveValue("BTC")
  <1>1. BooksTypeOK /\ "BTC" \in Currencies
    BY DEF BooksInv, Currencies
  <1>2. /\ E1 = {i \in DOMAIN transactions : /\ transactions[i].account = a
                                             /\ transactions[i].status = "COMPLETED"}
        /\ E = {i \in DOMAIN transactions : transactions[i].account = a}
    BY <1>1, UntilToday
  <1>3. \A i \in DOMAIN transactions : transactions[i].status \in {"IN_TRANSIT", "COMPLETED"}
    BY <1>1, MovesAre DEF BookTransaction
  <1>4. E2 \subseteq E /\ E1 = E \ E2 /\ E \subseteq DOMAIN transactions
    BY <1>2, <1>3 DEF UnderWayTo, UnderWay
  <1>5. Summands(g, E)
    <2>1. Summands(g, DOMAIN transactions)
      BY <1>1, ValuesAre
    <2> HIDE DEF g, E
    <2> QED
      BY <1>4, <2>1, FS_Subset DEF Summands
  <1>6. /\ LedgerBalanceOf(a, 0, today, TRUE)["BTC"] = Total(f, D) + Total(g, E)
        /\ LedgerBalanceOf(a, 0, today, FALSE)["BTC"] = Total(f, D) + Total(g, E1)
        /\ Total(f, D) \in Int /\ Total(g, E) \in Int /\ Total(g, E1) \in Int
    BY <1>1, LedgerIs
  <1>7. balances[a] = LedgerBalanceOf(a, 0, today, FALSE)
    BY BalanceIsLedger
  <1> HIDE DEF f, g, D, E, E1, E2
  <1>8. Summands(g, E2) /\ Total(g, E) = Total(g, E2) + Total(g, E1)
    BY <1>4, <1>5, TotalSplit
  <1>9. Total(g, E2) \in Int
    BY <1>8, TotalStep
  <1>10. PICK x \in Int, y1 \in Int, y2 \in Int :
          x = Total(f, D) /\ y1 = Total(g, E1) /\ y2 = Total(g, E2)
    BY <1>6, <1>9
  <1>11. /\ LedgerBalanceOf(a, 0, today, TRUE)["BTC"] = x + (y2 + y1)
         /\ balances[a]["BTC"] = x + y1
    BY <1>6, <1>7, <1>8, <1>10
  <1>12. x + (y2 + y1) = (x + y1) + y2
    OBVIOUS
  <1> QED
    BY <1>4, <1>10, <1>11, <1>12 DEF E2, E, g

\* What is under way to all accounts.
LEMMA AllUnderWay ==
  ASSUME BooksTypeOK, NEW g, \A a \in Accounts : g[a] = Total(MoveValue("BTC"), UnderWayTo(a))
  PROVE  Summands(g, Accounts) /\ Total(g, Accounts) = SumOf(ComingIn)["BTC"]
  <1> DEFINE f == MoveValue("BTC")
             U == UnderWay
             part == [a \in Accounts |-> UnderWayTo(a)]
             unders == Parts(ComingIn, "BTC")
  <1>1. "BTC" \in Currencies /\ U \subseteq DOMAIN transactions
    BY DEF Currencies, UnderWay
  <1>2. Summands(f, U)
    <2>1. Summands(f, DOMAIN transactions)
      BY <1>1, ValuesAre
    <2> HIDE DEF f, U
    <2> QED
      BY <1>1, <2>1, FS_Subset DEF Summands
  <1>3. \A i \in U : f[i] = unders[i]
    <2> SUFFICES ASSUME NEW i \in U PROVE f[i] = unders[i]
      OBVIOUS
    <2>1. PICK t \in EnteredMoves : t = transactions[i] /\ t \in BookTransaction
      BY <1>1, MovesAre
    <2>2. t.status = "IN_TRANSIT"
      BY <2>1 DEF UnderWay
    <2>3. /\ t.amount \in Money /\ t.fee \in Money /\ t.type \in {"DEPOSIT", "WITHDRAWL"}
          /\ t.type = "WITHDRAWL" => t.amount["BTC"] = 0 /\ t.fee["BTC"] = 0
      BY <2>1, <2>2 DEF BookTransaction, EnteredMoves
    <2>4. /\ TransactionPosition(t)["BTC"]
               = (IF t.type = "DEPOSIT" THEN t.amount["BTC"] ELSE -t.amount["BTC"]) - t.fee["BTC"]
          /\ Minus(t.amount, t.fee)["BTC"] = t.amount["BTC"] - t.fee["BTC"]
      BY <1>1, <2>3, MovePositionIs, MoneyAdds
    <2>5. TransactionPosition(t)["BTC"] = Minus(t.amount, t.fee)["BTC"]
      BY <2>3, <2>4
    <2>6. f[i] = TransactionPosition(t)["BTC"]
      BY <1>1, <2>1 DEF MoveValue
    <2>7. unders[i] = Minus(t.amount, t.fee)["BTC"]
      BY <2>1 DEF Parts, ComingIn
    <2> QED
      BY <2>5, <2>6, <2>7
  <1>4. /\ \A i \in U : \E a \in Accounts : \A b \in Accounts : i \in part[b] <=> b = a
        /\ \A a \in Accounts : part[a] \subseteq U
    <2>1. \A i \in U : transactions[i].account \in Accounts
      BY <1>1, MovesAre DEF BookTransaction
    <2> QED
      BY <2>1 DEF UnderWayTo
  <1>5. \A a \in Accounts : g[a] = Total(f, part[a])
    OBVIOUS
  <1>6. SumOf(ComingIn)["BTC"] = Total(unders, U)
    <2>1. DOMAIN ComingIn = UnderWay
      BY DEF ComingIn
    <2> QED
      BY <1>1, <2>1, SumOfIs
  <1>7. IsFiniteSet(Accounts)
    BY BooksAssumption
  <1> HIDE DEF f, U, part, unders
  <1>8. Summands(g, Accounts) /\ Total(g, Accounts) = Total(f, U)
    BY <1>2, <1>4, <1>5, <1>7, TotalByParts
  <1>9. Total(f, U) = Total(unders, U)
    BY <1>2, <1>3, SameTotal
  <1> QED
    BY <1>6, <1>8, <1>9

\* The loans of today are those that were not repaid.
LEMMA OwedToday ==
  ASSUME BooksTypeOK
  PROVE  ActiveDebts(today) = Owed
  <1>1. ASSUME NEW i \in DOMAIN debts
        PROVE  (debts[i].started <= today /\ (debts[i].repaid = Never \/ debts[i].repaid > today))
                 <=> debts[i].repaid = Never
    <2>1. PICK d \in EnteredDebts : d = debts[i]
      BY LenProperties, ElementOfSeq DEF BooksTypeOK
    <2>2. today \in Nat /\ d.started \in 1..today /\ d.repaid \in 0..today
      BY <2>1 DEF BooksTypeOK, EnteredDebts
    <2>3. d.started <= today /\ ~(d.repaid > today)
      BY <2>2
    <2> QED
      BY <2>1, <2>3
  <1> QED
    BY <1>1 DEF ActiveDebts, Owed

\* The page ends with the net assets of the balances and the loans of today.
LEMMA DashboardEnds ==
  ASSUME BooksInv, NEW start \in 1..today
  PROVE  NetAssetsSeries(start, today)[today].BTC = NetAssets + NotWatched - Unseen
  <1>1. BooksTypeOK /\ today \in Nat /\ start \in Nat /\ start <= today /\ "BTC" \in Currencies
    BY DEF BooksInv, BooksTypeOK, Currencies
  <1> DEFINE owned == Parts(balances, "BTC")
             under == [a \in Accounts |-> Total(MoveValue("BTC"), UnderWayTo(a))]
             ledgers == LedgerIn(0, today, "BTC")
             known == Cardinality(ActiveDebts(watchSince)) * Debt.BTC
             all == Total(owned, Accounts)
             moving == SumOf(ComingIn)["BTC"]
  <1>2. /\ Summands(owned, Accounts)
        /\ Watched \in Int /\ NotWatched \in Int /\ Watched + NotWatched = all
    BY <1>1, CoinsSplit, BooksAssumption DEF Summands, Parts, BooksTypeOK, Money
  <1>3. Summands(under, Accounts) /\ Total(under, Accounts) = moving
    <2>1. \A a \in Accounts : under[a] = Total(MoveValue("BTC"), UnderWayTo(a))
      OBVIOUS
    <2> HIDE DEF under
    <2> QED
      BY <1>1, <2>1, AllUnderWay
  <1>4. \A a \in Accounts : ledgers[a] = owned[a] + under[a]
    <2>1. \A a \in Accounts : owned[a] = balances[a]["BTC"]
      BY <1>1 DEF Parts, BooksTypeOK
    <2>2. \A a \in Accounts : ledgers[a] = LedgerBalanceOf(a, 0, today, TRUE)["BTC"]
      BY DEF LedgerIn
    <2>3. \A a \in Accounts : under[a] = Total(MoveValue("BTC"), UnderWayTo(a))
      OBVIOUS
    <2> HIDE DEF owned, under, ledgers
    <2> QED
      BY <2>1, <2>2, <2>3, WithUnderWay
  <1>5. TotalBalance(0, today) \in Money /\ TotalBalance(0, today)["BTC"] = Total(ledgers, Accounts)
    BY <1>1, TotalBalanceIs
  <1>6. AssetsSeries(start, today)[today] = TotalBalance(0, today)
    BY <1>1, SeriesIs
  <1>7. known \in Int /\ OwedCoins \in Int /\ Unseen = OwedCoins - known
    <2>1. Cardinality(ActiveDebts(watchSince)) \in Nat
      BY <1>1, ActiveAre
    <2>2. Cardinality(Owed) \in Nat
      BY <1>1, OwedIs, FS_CardinalityType
    <2>3. PICK m \in Int, n \in Int, b \in Int :
            m = Cardinality(Owed) /\ n = Cardinality(ActiveDebts(watchSince)) /\ b = Debt.BTC
      BY <1>1, <2>1, <2>2, OwedIs
    <2>4. (m - n) * b = m * b - n * b /\ n * b \in Int /\ m * b \in Int
      BY <2>3
    <2> QED
      BY <2>3, <2>4 DEF Unseen, OwedCoins
  <1>8. NetAssets = Watched + moving - 0 - known
    BY DEF NetAssets, Watched, ComingIn, UnderWay, CachedMultiPosition
  <1>9. NetAssetsSeries(start, today)[today]["BTC"] = TotalBalance(0, today)["BTC"] - OwedCoins
    <2> DEFINE loans == Coins(Cardinality(ActiveDebts(today)) * Debt.BTC)
    <2>1. today \in start..today
      BY <1>1
    <2>2. NetAssetsSeries(start, today)[today] = Minus(TotalBalance(0, today), loans)
      BY <1>6, <2>1 DEF NetAssetsSeries, LiabilitiesSeries
    <2>3. loans = Coins(OwedCoins)
      BY <1>1, OwedToday DEF OwedCoins
    <2> HIDE DEF loans
    <2>4. loans["BTC"] = OwedCoins
      BY <2>3 DEF Coins
    <2> QED
      BY <2>2, <2>4 DEF Minus
  <1> HIDE DEF owned, under, ledgers, known, all, moving
  <1>10. Total(ledgers, Accounts) = Total(owned, Accounts) + Total(under, Accounts)
    BY <1>2, <1>3, <1>4, TotalPlus
  <1>11. Total(owned, Accounts) \in Int /\ Total(under, Accounts) \in Int
    BY <1>2, <1>3, TotalStep
  <1>12. PICK x \in Int, z \in Int, y \in Int, k \in Int, o \in Int :
           /\ x = Watched /\ z = NotWatched /\ y = Total(under, Accounts)
           /\ k = known /\ o = OwedCoins
    BY <1>2, <1>7, <1>11
  <1>13. /\ NetAssetsSeries(start, today)[today]["BTC"] = ((x + z) + y) - o
         /\ NetAssets = x + y - 0 - k /\ Unseen = o - k
    BY <1>2, <1>3, <1>5, <1>7, <1>8, <1>9, <1>10, <1>12 DEF all
  <1>14. ((x + z) + y) - o = (x + y - 0 - k) + z - (o - k)
    BY <1>12
  <1> QED
    BY <1>12, <1>13, <1>14

(***************************************************************************)
(* After any operations of any accounts: the net assets that the overwatch *)
(* bot watches (calculate_btc_net_assets_error), with the coins on the     *)
(* accounts it does not list, are in error by what was traded, by drift,   *)
(* by fees paid again and by loans it does not know, and by nothing else.  *)
(* The balance columns are what ledger_balance adds up; and the page of    *)
(* the dashboard, from whatever day on it adds the ledgers up, ends with   *)
(* what they come to, what is in transit, and the loans.                   *)
(***************************************************************************)
THEOREM NetAssetsAlwaysExplained == Spec => []NetAssetsExplained
  <1>1. BooksInv => NetAssetsExplained
    BY ErrorExplained, BalanceIsLedger, DashboardEnds DEF NetAssetsExplained
  <1> QED
    BY <1>1, BooksAlwaysRight, PTL
================================================================================
