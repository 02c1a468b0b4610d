----------------------------- MODULE FundsProofs -----------------------------
(***************************************************************************)
(* FundsTransfer keeps balance and ledger of an account together but for   *)
(* what commits overwrite of each other's updates; and where the amounts   *)
(* can be told apart, its audits credit the deposits that have landed,     *)
(* these and no others.                                                    *)
(***************************************************************************)
EXTENDS FundsProperties, SumTheorems

IsFcn(f, S) == f = [x \in S |-> f[x]]

RowShape(r) ==
  /\ r = [own |-> r.own, cnt |-> r.cnt, status |-> r.status,
          ledger |-> r.ledger, booked |-> r.booked]
  /\ IsFcn(r.own, Accounts) /\ IsFcn(r.cnt, Entries) /\ IsFcn(r.status, Entries)
  /\ IsFcn(r.ledger, Accounts) /\ IsFcn(r.booked, Accounts)

SessShape(s) ==
  /\ s = [on |-> s.on, base |-> s.base, db |-> s.db, wrote |-> s.wrote,
          touched |-> s.touched, ins |-> s.ins, done |-> s.done]
  /\ RowShape(s.base) /\ RowShape(s.db) /\ s.touched \subseteq Entries

Shape ==
  /\ RowShape(rows)
  /\ IsFcn(sess, Processes)
  /\ \A p \in Processes : SessShape(sess[p])

-----------------------------------------------------------------------------
(* What the operations do to the fields of a copy.                         *)

LEMMA SetStatusFields ==
  ASSUME NEW r, RowShape(r), NEW S, NEW st, NEW q, q = SetStatus(r, S, st)
  PROVE  /\ RowShape(q)
         /\ q.own = r.own /\ q.cnt = r.cnt /\ q.ledger = r.ledger /\ q.booked = r.booked
         /\ \A e \in Entries : q.status[e] = IF e \in S THEN st ELSE r.status[e]
  BY DEF SetStatus, RowShape, IsFcn

LEMMA CountFields ==
  ASSUME NEW r, RowShape(r), NEW S, NEW n, NEW q, q = Count(r, S, n)
  PROVE  /\ RowShape(q)
         /\ q.own = r.own /\ q.status = r.status /\ q.ledger = r.ledger
         /\ q.booked = r.booked
         /\ \A e \in Entries : q.cnt[e] = IF e \in S THEN r.cnt[e] + n ELSE r.cnt[e]
  BY DEF Count, RowShape, IsFcn

LEMMA CompletedFields ==
  ASSUME NEW r, RowShape(r), NEW S, NEW q, q = Completed(r, S)
  PROVE  /\ RowShape(q)
         /\ q.own = r.own /\ q.ledger = r.ledger /\ q.booked = r.booked
         /\ \A e \in Entries :
              /\ q.status[e] = IF e \in S THEN "COMPLETED" ELSE r.status[e]
              /\ q.cnt[e] = IF e \in S THEN r.cnt[e] + 1 ELSE r.cnt[e]
<1> DEFINE t == SetStatus(r, S, "COMPLETED")
<1>1. /\ RowShape(t)
      /\ t.own = r.own /\ t.cnt = r.cnt /\ t.ledger = r.ledger /\ t.booked = r.booked
      /\ \A e \in Entries : t.status[e] = IF e \in S THEN "COMPLETED" ELSE r.status[e]
  BY SetStatusFields
<1>2. q = Count(t, S, 1)  BY DEF Completed
<1> HIDE DEF t
<1>3. QED  BY <1>1, <1>2, CountFields

LEMMA BookedFields ==
  ASSUME NEW r, RowShape(r), NEW a \in Accounts, NEW d, NEW q, q = Booked(r, a, d)
  PROVE  /\ RowShape(q)
         /\ q.cnt = r.cnt /\ q.status = r.status /\ q.booked = r.booked
         /\ \A b \in Accounts :
              /\ q.own[b] = IF b = a THEN r.own[b] + d ELSE r.own[b]
              /\ q.ledger[b] = IF b = a THEN r.ledger[b] + d ELSE r.ledger[b]
  BY DEF Booked, RowShape, IsFcn

LEMMA ExpectedPending ==
  ASSUME NEW r, NEW a, NEW c, NEW S \in Expected(r, a, c)
  PROVE  S \subseteq PendingDeposits(r, a)
  BY DEF Expected, Landed, Matches

LEMMA EntryFacts ==
  ASSUME NEW k \in Transfers
  PROVE  /\ Withdrawal(k) \in Entries /\ Deposit(k) \in Entries
         /\ Withdrawal(k) # Deposit(k)
         /\ Account(Withdrawal(k)) = From[k] /\ Account(Deposit(k)) = To[k]
  BY DEF Withdrawal, Deposit, Entries, Account

LEMMA ClosedShape == SessShape(Closed) /\ ~Closed.on
  BY DEF SessShape, Closed, RowShape, EmptyRow, IsFcn

\* The rows after the commit of a session s.
LEMMA MergedFields ==
  ASSUME NEW r, RowShape(r), NEW p, NEW s, NEW m, m = Merged(r, p, s)
  PROVE  /\ RowShape(m)
         /\ \A a \in Accounts :
              /\ m.own[a] = IF a \in s.wrote THEN s.db.own[a] ELSE r.own[a]
              /\ m.ledger[a] = IF s.ins # NoInsert /\ s.ins[1] = a
                               THEN r.ledger[a] + s.ins[2] ELSE r.ledger[a]
         /\ \A e \in Entries :
              /\ m.cnt[e] = IF Account(e) \in s.wrote THEN s.db.cnt[e] ELSE r.cnt[e]
              /\ m.status[e] = IF e \in s.touched THEN s.db.status[e] ELSE r.status[e]
         /\ \A a \in Accounts : m.booked[a] = IF a = p THEN s.db.booked[a] ELSE r.booked[a]
  BY DEF Merged, RowShape, IsFcn

-----------------------------------------------------------------------------
(* The sums of the model are such sums.                                    *)

Credits == [k \in Transfers |-> Credit(k)]
Debits == [k \in Transfers |-> Debit(k)]
Changes == [e \in Entries |-> Signed(e)]
Counted(r) == [e \in Entries |-> r.cnt[e] * Signed(e)]

LEMMA AmountTypes ==
  /\ \A k \in Transfers : Credit(k) \in Int /\ Debit(k) \in Int
  /\ \A e \in Entries : Account(e) \in Accounts /\ Signed(e) \in Int
  /\ IsFiniteSet(Transfers) /\ IsFiniteSet(Entries)
<1>1. \A k \in Transfers : Credit(k) \in Int /\ Debit(k) \in Int
  BY FundsAssumption, AmountsAssumption DEF Credit, Debit
<1>2. \A e \in Entries : e[2] \in Transfers  BY DEF Entries
<1>3. \A e \in Entries : Account(e) \in Accounts /\ Signed(e) \in Int
  BY <1>1, <1>2, FundsAssumption DEF Account, Signed
<1>4. IsFiniteSet({"WITHDRAWL"} \cup {"DEPOSIT"})
  BY FS_Singleton, FS_AddElement
<1>5. IsFiniteSet(Entries)
  <2>1. Entries = ({"WITHDRAWL"} \cup {"DEPOSIT"}) \X Transfers  BY DEF Entries
  <2>2. QED  BY <1>4, <2>1, AmountsAssumption, FS_Product
<1>6. QED  BY <1>1, <1>3, <1>5, AmountsAssumption

LEMMA CreditsSum ==
  ASSUME NEW U, U \subseteq Transfers
  PROVE  MapThenSumSet(Credit, U) = Total(Credits, U)
<1> DEFINE Q(g) == g = [T \in SUBSET U |-> IF T = {} THEN 0
                                           ELSE Credit(Pick(T)) + g[T \ {Pick(T)}]]
           s == CHOOSE g : Q(g)
<1>1. MapThenSumSet(Credit, U) = s[U]
  BY DEF MapThenSumSet, MapThenFoldSet, Pick
<1>2. \A T \in SUBSET U : T # {} => Credit(Pick(T)) = Credits[Pick(T)]
  <2>1. \A T \in SUBSET U : T # {} => Pick(T) \in Transfers  BY DEF Pick
  <2>2. QED  BY <2>1 DEF Credits
<1>3. ASSUME NEW g
      PROVE  Q(g) <=> Sums(g, Credits, SUBSET U)
  BY <1>2 DEF Sums
<1>4. Summands(Credits, U)
  BY AmountTypes, FS_Subset DEF Summands, Credits
<1>5. \E g : Q(g)  BY <1>3, <1>4, SumsExist
<1>6. Q(s)  BY <1>5
<1> HIDE DEF s, Q
<1>7. Sums(s, Credits, SUBSET U)  BY <1>3, <1>6
<1>8. QED  BY <1>1, <1>4, <1>7, TotalIs

LEMMA DebitsSum ==
  ASSUME NEW U, U \subseteq Transfers
  PROVE  MapThenSumSet(Debit, U) = Total(Debits, U)
<1> DEFINE Q(g) == g = [T \in SUBSET U |-> IF T = {} THEN 0
                                           ELSE Debit(Pick(T)) + g[T \ {Pick(T)}]]
           s == CHOOSE g : Q(g)
<1>1. MapThenSumSet(Debit, U) = s[U]
  BY DEF MapThenSumSet, MapThenFoldSet, Pick
<1>2. \A T \in SUBSET U : T # {} => Debit(Pick(T)) = Debits[Pick(T)]
  <2>1. \A T \in SUBSET U : T # {} => Pick(T) \in Transfers  BY DEF Pick
  <2>2. QED  BY <2>1 DEF Debits
<1>3. ASSUME NEW g
      PROVE  Q(g) <=> Sums(g, Debits, SUBSET U)
  BY <1>2 DEF Sums
<1>4. Summands(Debits, U)
  BY AmountTypes, FS_Subset DEF Summands, Debits
<1>5. \E g : Q(g)  BY <1>3, <1>4, SumsExist
<1>6. Q(s)  BY <1>5
<1> HIDE DEF s, Q
<1>7. Sums(s, Debits, SUBSET U)  BY <1>3, <1>6
<1>8. QED  BY <1>1, <1>4, <1>7, TotalIs

LEMMA ChangesSum ==
  ASSUME NEW U, U \subseteq Entries
  PROVE  MapThenSumSet(Signed, U) = Total(Changes, U)
<1> DEFINE Q(g) == g = [T \in SUBSET U |-> IF T = {} THEN 0
                                           ELSE Signed(Pick(T)) + g[T \ {Pick(T)}]]
           s == CHOOSE g : Q(g)
<1>1. MapThenSumSet(Signed, U) = s[U]
  BY DEF MapThenSumSet, MapThenFoldSet, Pick
<1>2. \A T \in SUBSET U : T # {} => Signed(Pick(T)) = Changes[Pick(T)]
  <2>1. \A T \in SUBSET U : T # {} => Pick(T) \in Entries  BY DEF Pick
  <2>2. QED  BY <2>1 DEF Changes
<1>3. ASSUME NEW g
      PROVE  Q(g) <=> Sums(g, Changes, SUBSET U)
  BY <1>2 DEF Sums
<1>4. Summands(Changes, U)
  BY AmountTypes, FS_Subset DEF Summands, Changes
<1>5. \E g : Q(g)  BY <1>3, <1>4, SumsExist
<1>6. Q(s)  BY <1>5
<1> HIDE DEF s, Q
<1>7. Sums(s, Changes, SUBSET U)  BY <1>3, <1>6
<1>8. QED  BY <1>1, <1>4, <1>7, TotalIs

LEMMA CountedSum ==
  ASSUME NEW r, \A e \in Entries : r.cnt[e] \in Int, NEW U, U \subseteq Entries
  PROVE  MapThenSumSet(LAMBDA e : r.cnt[e] * Signed(e), U) = Total(Counted(r), U)
<1> DEFINE Q(g) == g = [T \in SUBSET U |-> IF T = {} THEN 0
                                           ELSE r.cnt[Pick(T)] * Signed(Pick(T)) + g[T \ {Pick(T)}]]
           s == CHOOSE g : Q(g)
<1>2. \A T \in SUBSET U : T # {} => r.cnt[Pick(T)] * Signed(Pick(T)) = Counted(r)[Pick(T)]
  <2>1. \A T \in SUBSET U : T # {} => Pick(T) \in Entries  BY DEF Pick
  <2>2. QED  BY <2>1 DEF Counted
<1>3. ASSUME NEW g
      PROVE  Q(g) <=> Sums(g, Counted(r), SUBSET U)
  BY <1>2 DEF Sums
<1>4. Summands(Counted(r), U)
  <2>1. \A e \in Entries : r.cnt[e] * Signed(e) \in Int  BY AmountTypes
  <2>2. QED  BY <2>1, AmountTypes, FS_Subset DEF Summands, Counted
<1>5. \E g : Q(g)  BY <1>3, <1>4, SumsExist
<1>6. Q(s)  BY <1>5
<1> HIDE DEF s, Q
<1>7. Sums(s, Counted(r), SUBSET U)  BY <1>3, <1>6
<1>8. s[U] = Total(Counted(r), U)  BY <1>4, <1>7, TotalIs
<1>9. QED  BY <1>8 DEF MapThenSumSet, MapThenFoldSet, Pick, s, Q

LEMMA FunctionSum ==
  ASSUME NEW f
  PROVE  SumFunction(f) = Total(f, DOMAIN f)
  BY DEF SumFunction, SumFunctionOnSet, FoldFunctionOnSet, MapThenFoldSet, Total, Sums, Pick

-----------------------------------------------------------------------------
(* What the exchange has for an account and the rows do not, as one sum    *)
(* over the transfers.                                                     *)

IsDeposit(e) == e[1] = "DEPOSIT"

Arrived(a, U) == {k \in U : To[k] = a /\ where[k] = "landed"}
Gone(a, U) == {k \in U : From[k] = a /\ where[k] \in {"moving", "landed"}}
Of(a, U) == {e \in Entries : Account(e) = a /\ e[2] \in U}
Within(S, U) == {e \in S : e[2] \in U}

\* The difference that the transfers of U make to account a when its copy is
\* r and the deposits S are going to be completed.
Difference(a, r, S, U) ==
  Total(Credits, Arrived(a, U)) - Total(Debits, Gone(a, U))
    - Total(Counted(r), Of(a, U)) - Total(Changes, Within(S, U))

\* How often a transfer is missing at its receiver, and is counted too often
\* at its sender.
Missing(a, r, S, k) ==
  IF To[k] # a THEN 0
  ELSE (IF where[k] = "landed" THEN 1 ELSE 0) - r.cnt[Deposit(k)]
         - (IF Deposit(k) \in S THEN 1 ELSE 0)
Untimely(a, r, k) ==
  IF From[k] # a THEN 0
  ELSE r.cnt[Withdrawal(k)] - (IF where[k] \in {"moving", "landed"} THEN 1 ELSE 0)

Odd(a, r, S) ==
  [k \in Transfers |-> Missing(a, r, S, k) * Credit(k) + Untimely(a, r, k) * Debit(k)]

DepositsOf(a) == {e \in Entries : IsDeposit(e) /\ Account(e) = a}
Countable(r) == \A e \in Entries : r.cnt[e] \in Int

LEMMA EntryIs ==
  ASSUME NEW e \in Entries
  PROVE  /\ e[2] \in Transfers
         /\ IsDeposit(e) => e = Deposit(e[2]) /\ Account(e) = To[e[2]] /\ Signed(e) = Credit(e[2])
         /\ ~IsDeposit(e) => e = Withdrawal(e[2]) /\ Account(e) = From[e[2]]
                             /\ Signed(e) = -Debit(e[2])
  BY DEF Entries, IsDeposit, Deposit, Withdrawal, Account, Signed

LEMMA TransferIs ==
  ASSUME NEW k \in Transfers
  PROVE  /\ Deposit(k) \in Entries /\ Withdrawal(k) \in Entries
         /\ IsDeposit(Deposit(k)) /\ ~IsDeposit(Withdrawal(k)) /\ Deposit(k) # Withdrawal(k)
         /\ Deposit(k)[2] = k /\ Withdrawal(k)[2] = k
         /\ Account(Deposit(k)) = To[k] /\ Account(Withdrawal(k)) = From[k]
         /\ Signed(Deposit(k)) = Credit(k) /\ Signed(Withdrawal(k)) = -Debit(k)
  BY DEF Entries, IsDeposit, Deposit, Withdrawal, Account, Signed

LEMMA Summable4 ==
  ASSUME NEW a, NEW r, Countable(r), NEW S, S \subseteq DepositsOf(a),
         NEW U, U \subseteq Transfers
  PROVE  /\ Summands(Credits, Arrived(a, U)) /\ Summands(Debits, Gone(a, U))
         /\ Summands(Counted(r), Of(a, U)) /\ Summands(Changes, Within(S, U))
         /\ Summands(Odd(a, r, S), U)
<1>1. /\ Arrived(a, U) \subseteq Transfers /\ Gone(a, U) \subseteq Transfers
      /\ Of(a, U) \subseteq Entries /\ Within(S, U) \subseteq Entries
  BY DEF Arrived, Gone, Of, Within, DepositsOf
<1>2. /\ IsFiniteSet(Arrived(a, U)) /\ IsFiniteSet(Gone(a, U)) /\ IsFiniteSet(U)
      /\ IsFiniteSet(Of(a, U)) /\ IsFiniteSet(Within(S, U))
  BY <1>1, AmountTypes, FS_Subset
<1>3. \A k \in Transfers : Credits[k] \in Int /\ Debits[k] \in Int
  BY AmountTypes DEF Credits, Debits
<1>4. \A e \in Entries : Counted(r)[e] \in Int /\ Changes[e] \in Int
  BY AmountTypes DEF Counted, Changes, Countable
<1>5. ASSUME NEW k \in Transfers PROVE Odd(a, r, S)[k] \in Int
  <2>1. Missing(a, r, S, k) \in Int /\ Untimely(a, r, k) \in Int
    BY TransferIs DEF Missing, Untimely, Countable
  <2>2. Credit(k) \in Int /\ Debit(k) \in Int  BY AmountTypes
  <2>3. Missing(a, r, S, k) * Credit(k) \in Int /\ Untimely(a, r, k) * Debit(k) \in Int
    BY <2>1, <2>2
  <2>4. QED  BY <2>3 DEF Odd
<1>6. Summands(Credits, Arrived(a, U)) /\ Summands(Debits, Gone(a, U))
  BY <1>1, <1>2, <1>3 DEF Summands
<1>7. Summands(Counted(r), Of(a, U)) /\ Summands(Changes, Within(S, U))
  BY <1>1, <1>2, <1>4 DEF Summands
<1>8. Summands(Odd(a, r, S), U)  BY <1>2, <1>5 DEF Summands
<1>9. QED  BY <1>6, <1>7, <1>8

\* Products of what is counted and amounts, taken apart.
LEMMA Spread ==
  ASSUME NEW x \in {0, 1}, NEW y \in Int, NEW z \in {0, 1}, NEW c \in Int
  PROVE  (x - y - z) * c = (IF x = 1 THEN c ELSE 0) - y * c - (IF z = 1 THEN c ELSE 0)
<1>1. y * c \in Int  OBVIOUS
<1>2. (0 - y - 0) * c = -(y * c) /\ (1 - y - 0) * c = c - y * c
      /\ (0 - y - 1) * c = -(y * c) - c /\ (1 - y - 1) * c = -(y * c)
  OBVIOUS
<1>3. QED  BY <1>1, <1>2

LEMMA SpreadOut ==
  ASSUME NEW y \in Int, NEW x \in {0, 1}, NEW c \in Int
  PROVE  (y - x) * c = y * c - (IF x = 1 THEN c ELSE 0) /\ y * (-c) = -(y * c)
<1>1. y * c \in Int  OBVIOUS
<1>2. (y - 0) * c = y * c /\ (y - 1) * c = y * c - c /\ y * (-c) = -(y * c)  OBVIOUS
<1>3. QED  BY <1>1, <1>2

\* The sums of U and of U without k differ by what k contributes.
LEMMA LessOne ==
  ASSUME NEW a, NEW r, NEW S, NEW U, NEW k, NEW V,
         Countable(r), S \subseteq DepositsOf(a), U \subseteq Transfers, k \in U,
         V = Without(U, k)
  PROVE  /\ Total(Credits, Arrived(a, U))
              = (IF To[k] = a /\ where[k] = "landed" THEN Credit(k) ELSE 0)
                + Total(Credits, Arrived(a, V))
         /\ Total(Debits, Gone(a, U))
              = (IF From[k] = a /\ where[k] \in {"moving", "landed"} THEN Debit(k) ELSE 0)
                + Total(Debits, Gone(a, V))
         /\ Total(Counted(r), Of(a, U))
              = (IF To[k] = a THEN r.cnt[Deposit(k)] * Credit(k) ELSE 0)
                + ((IF From[k] = a THEN r.cnt[Withdrawal(k)] * (-Debit(k)) ELSE 0)
                   + Total(Counted(r), Of(a, V)))
         /\ Total(Changes, Within(S, U))
              = (IF Deposit(k) \in S THEN Credit(k) ELSE 0) + Total(Changes, Within(S, V))
<1>1. /\ k \in Transfers /\ Credits[k] = Credit(k) /\ Debits[k] = Debit(k)
      /\ Deposit(k) \in Entries /\ Withdrawal(k) \in Entries
      /\ Deposit(k)[2] = k /\ Withdrawal(k)[2] = k /\ Deposit(k) # Withdrawal(k)
      /\ Account(Deposit(k)) = To[k] /\ Account(Withdrawal(k)) = From[k]
      /\ Changes[Deposit(k)] = Credit(k)
      /\ Counted(r)[Deposit(k)] = r.cnt[Deposit(k)] * Credit(k)
      /\ Counted(r)[Withdrawal(k)] = r.cnt[Withdrawal(k)] * (-Debit(k))
  BY TransferIs DEF Credits, Debits, Changes, Counted
<1>2. /\ Summands(Credits, Arrived(a, U)) /\ Summands(Debits, Gone(a, U))
      /\ Summands(Counted(r), Of(a, U)) /\ Summands(Changes, Within(S, U))
  BY Summable4
<1>3. Total(Credits, Arrived(a, U))
        = (IF To[k] = a /\ where[k] = "landed" THEN Credit(k) ELSE 0)
          + Total(Credits, Arrived(a, V))
  <2> DEFINE D == Arrived(a, U)
             E == Arrived(a, V)
             R == Without(D, k)
  <2>1. E = R  BY DEF Arrived, Without
  <2>2. Total(Credits, D) = (IF k \in D THEN Credits[k] ELSE 0) + Total(Credits, R)
    BY <1>2, TotalWithoutOrNot
  <2>3. k \in D <=> To[k] = a /\ where[k] = "landed"  BY DEF Arrived
  <2> HIDE DEF D, E, R
  <2>4. Total(Credits, D) = (IF To[k] = a /\ where[k] = "landed" THEN Credit(k) ELSE 0)
                            + Total(Credits, E)
    BY <1>1, <2>1, <2>2, <2>3
  <2>5. QED  BY <2>4 DEF D, E
<1>4. Total(Debits, Gone(a, U))
        = (IF From[k] = a /\ where[k] \in {"moving", "landed"} THEN Debit(k) ELSE 0)
          + Total(Debits, Gone(a, V))
  <2> DEFINE D == Gone(a, U)
             E == Gone(a, V)
             R == Without(D, k)
  <2>1. E = R  BY DEF Gone, Without
  <2>2. Total(Debits, D) = (IF k \in D THEN Debits[k] ELSE 0) + Total(Debits, R)
    BY <1>2, TotalWithoutOrNot
  <2>3. k \in D <=> From[k] = a /\ where[k] \in {"moving", "landed"}  BY DEF Gone
  <2> HIDE DEF D, E, R
  <2>4. Total(Debits, D)
          = (IF From[k] = a /\ where[k] \in {"moving", "landed"} THEN Debit(k) ELSE 0)
            + Total(Debits, E)
    BY <1>1, <2>1, <2>2, <2>3
  <2>5. QED  BY <2>4 DEF D, E
<1>5. Total(Counted(r), Of(a, U))
        = (IF To[k] = a THEN r.cnt[Deposit(k)] * Credit(k) ELSE 0)
          + ((IF From[k] = a THEN r.cnt[Withdrawal(k)] * (-Debit(k)) ELSE 0)
             + Total(Counted(r), Of(a, V)))
  <2> DEFINE D == Of(a, U)
             E == Of(a, V)
             dep == Deposit(k)
             wdl == Withdrawal(k)
             Q == Without(D, dep)
             R == Without(Q, wdl)
  <2>1. E = R
    <3>1. \A e \in Entries : e[2] = k => e = Deposit(k) \/ e = Withdrawal(k)  BY EntryIs
    <3>2. QED  BY <1>1, <3>1 DEF Of, Without
  <2> DEFINE f == Counted(r)
  <2> HIDE DEF D, f, dep, wdl
  <2>2. /\ Summands(f, Q)
        /\ Total(f, D) = (IF dep \in D THEN f[dep] ELSE 0) + Total(f, Q)
    BY <1>2, TotalWithoutOrNot DEF D, f
  <2> HIDE DEF Q
  <2>3. Total(f, Q) = (IF wdl \in Q THEN f[wdl] ELSE 0) + Total(f, R)
    BY <2>2, TotalWithoutOrNot
  <2>4. /\ Deposit(k) \in D <=> To[k] = a
        /\ Withdrawal(k) \in Q <=> From[k] = a
    BY <1>1 DEF Of, D, Q, dep, wdl, Without
  <2> DEFINE x == r.cnt[Deposit(k)] * Credit(k)
             y == r.cnt[Withdrawal(k)] * (-Debit(k))
  <2>5. Counted(r)[Deposit(k)] = x /\ Counted(r)[Withdrawal(k)] = y  BY <1>1
  <2> HIDE DEF E, R, x, y
  <2>6. Total(Counted(r), D) = (IF To[k] = a THEN x ELSE 0)
          + ((IF From[k] = a THEN y ELSE 0) + Total(Counted(r), E))
    BY <2>1, <2>2, <2>3, <2>4, <2>5 DEF f, dep, wdl
  <2>7. QED  BY <2>6 DEF D, E, x, y
<1>6. Total(Changes, Within(S, U))
        = (IF Deposit(k) \in S THEN Credit(k) ELSE 0) + Total(Changes, Within(S, V))
  <2> DEFINE D == Within(S, U)
             E == Within(S, V)
             dep == Deposit(k)
             R == Without(D, dep)
  <2>1. E = R
    <3>1. \A e \in S : e \in Entries /\ (e[2] = k => e = Deposit(k))
      BY EntryIs DEF DepositsOf
    <3>2. QED  BY <1>1, <3>1 DEF Within, Without
  <2> HIDE DEF D, dep
  <2>2. Total(Changes, D) = (IF dep \in D THEN Changes[dep] ELSE 0) + Total(Changes, R)
    BY <1>2, TotalWithoutOrNot DEF D
  <2>3. Deposit(k) \in D <=> Deposit(k) \in S  BY <1>1 DEF Within, D
  <2> HIDE DEF E, R
  <2>4. Total(Changes, D) = (IF Deposit(k) \in S THEN Credit(k) ELSE 0) + Total(Changes, E)
    BY <1>1, <2>1, <2>2, <2>3 DEF dep
  <2>5. QED  BY <2>4 DEF D, E
<1>7. QED  BY <1>3, <1>4, <1>5, <1>6

\* What transfer k contributes to the difference.
LEMMA OddIs ==
  ASSUME NEW a, NEW r, NEW S, NEW k,
         Countable(r), S \subseteq DepositsOf(a), k \in Transfers
  PROVE  Odd(a, r, S)[k]
           = (IF To[k] = a /\ where[k] = "landed" THEN Credit(k) ELSE 0)
             - (IF From[k] = a /\ where[k] \in {"moving", "landed"} THEN Debit(k) ELSE 0)
             - ((IF To[k] = a THEN r.cnt[Deposit(k)] * Credit(k) ELSE 0)
                + (IF From[k] = a THEN r.cnt[Withdrawal(k)] * (-Debit(k)) ELSE 0))
             - (IF Deposit(k) \in S THEN Credit(k) ELSE 0)
<1> DEFINE c == Credit(k)
           d == Debit(k)
           m == r.cnt[Deposit(k)]
           n == r.cnt[Withdrawal(k)]
           x == IF where[k] = "landed" THEN 1 ELSE 0
           y == IF where[k] \in {"moving", "landed"} THEN 1 ELSE 0
           z == IF Deposit(k) \in S THEN 1 ELSE 0
<1>1. c \in Int /\ d \in Int /\ m \in Int /\ n \in Int
  BY AmountTypes, TransferIs DEF Countable
<1>2. /\ x \in {0, 1} /\ y \in {0, 1} /\ z \in {0, 1}
      /\ x = 1 <=> where[k] = "landed"
      /\ y = 1 <=> where[k] \in {"moving", "landed"}
      /\ z = 1 <=> Deposit(k) \in S
  OBVIOUS
<1>3. Deposit(k) \in S => To[k] = a
  BY TransferIs DEF DepositsOf
<1>4. Odd(a, r, S)[k] = (IF To[k] # a THEN 0 ELSE x - m - z) * c
                        + (IF From[k] # a THEN 0 ELSE n - y) * d
  BY DEF Odd, Missing, Untimely
<1> HIDE DEF c, d, m, n, x, y, z
<1>5. (x - m - z) * c = (IF x = 1 THEN c ELSE 0) - m * c - (IF z = 1 THEN c ELSE 0)
  BY <1>1, <1>2, Spread
<1>6. (n - y) * d = n * d - (IF y = 1 THEN d ELSE 0) /\ n * (-d) = -(n * d)
  BY <1>1, <1>2, SpreadOut
<1>7. m * c \in Int /\ n * d \in Int  BY <1>1
<1>8. Odd(a, r, S)[k] = (IF To[k] # a THEN 0 ELSE (x - m - z) * c)
                        + (IF From[k] # a THEN 0 ELSE (n - y) * d)
  BY <1>1, <1>4
<1>9. Odd(a, r, S)[k]
        = (IF To[k] = a /\ x = 1 THEN c ELSE 0)
          - (IF From[k] = a /\ y = 1 THEN d ELSE 0)
          - ((IF To[k] = a THEN m * c ELSE 0) + (IF From[k] = a THEN n * (-d) ELSE 0))
          - (IF z = 1 THEN c ELSE 0)
  <2> DEFINE mc == m * c
             nd == n * d
             nn == n * (-d)
             p == (x - m - z) * c
             q == (n - y) * d
  <2> HIDE DEF mc, nd, nn, p, q
  <2>1. /\ mc \in Int /\ nd \in Int /\ nn = -nd
        /\ p = (IF x = 1 THEN c ELSE 0) - mc - (IF z = 1 THEN c ELSE 0)
        /\ q = nd - (IF y = 1 THEN d ELSE 0)
    BY <1>5, <1>6, <1>7 DEF mc, nd, nn, p, q
  <2>2. Odd(a, r, S)[k] = (IF To[k] # a THEN 0 ELSE p) + (IF From[k] # a THEN 0 ELSE q)
    BY <1>8 DEF p, q
  <2>3. z = 1 => To[k] = a  BY <1>2, <1>3
  <2>4. Odd(a, r, S)[k]
          = (IF To[k] = a /\ x = 1 THEN c ELSE 0) - (IF From[k] = a /\ y = 1 THEN d ELSE 0)
            - ((IF To[k] = a THEN mc ELSE 0) + (IF From[k] = a THEN nn ELSE 0))
            - (IF z = 1 THEN c ELSE 0)
    BY <1>1, <2>1, <2>2, <2>3
  <2>5. QED  BY <2>4 DEF mc, nn
<1>10. QED  BY <1>2, <1>9 DEF c, d, m, n

LEMMA DifferenceIs ==
  ASSUME NEW a, NEW r, Countable(r), NEW S, S \subseteq DepositsOf(a)
  PROVE  Difference(a, r, S, Transfers) = SumFunction(Odd(a, r, S))
<1> DEFINE F == Odd(a, r, S)
           Equal(V) == Difference(a, r, S, V) = Total(F, V)
           bad == {n \in Nat : \E V \in SUBSET Transfers : Cardinality(V) = n /\ ~Equal(V)}
<1>1. bad = {}
  <2>1. SUFFICES ASSUME bad # {} PROVE FALSE  OBVIOUS
  <2>2. PICK m \in bad : \A n \in bad : m <= n  BY <2>1, LeastNumber
  <2>3. PICK V \in SUBSET Transfers : Cardinality(V) = m /\ ~Equal(V)  BY <2>2
  <2> V \subseteq Transfers  OBVIOUS
  <2>4. /\ Summands(Credits, Arrived(a, V)) /\ Summands(Debits, Gone(a, V))
        /\ Summands(Counted(r), Of(a, V)) /\ Summands(Changes, Within(S, V))
        /\ Summands(F, V)
    BY Summable4
  <2>5. V # {}
    <3> SUFFICES ASSUME V = {} PROVE FALSE  OBVIOUS
    <3>1. Arrived(a, V) = {} /\ Gone(a, V) = {} /\ Of(a, V) = {} /\ Within(S, V) = {}
      BY DEF Arrived, Gone, Of, Within
    <3>2. /\ Total(Credits, Arrived(a, V)) = 0 /\ Total(Debits, Gone(a, V)) = 0
          /\ Total(Counted(r), Of(a, V)) = 0 /\ Total(Changes, Within(S, V)) = 0
          /\ Total(F, V) = 0
      BY <2>4, <3>1, TotalStep
    <3> HIDE DEF F
    <3>3. Difference(a, r, S, V) = Total(F, V)  BY <3>2 DEF Difference
    <3>4. QED  BY <2>3, <3>3
  <2>6. PICK k \in V : TRUE  BY <2>5
  <2> DEFINE W == Without(V, k)
  <2>7. W \in SUBSET Transfers /\ W \subseteq Transfers /\ Cardinality(W) = m - 1
        /\ Cardinality(W) \in Nat
    <3>0. W = V \ {k}  BY DEF Without
    <3>1. IsFiniteSet(V) /\ IsFiniteSet(W)  BY <3>0, AmountsAssumption, FS_Subset
    <3>2. Cardinality(W) = m - 1 /\ Cardinality(W) \in Nat
      BY <2>3, <2>6, <3>0, <3>1, FS_RemoveElement, FS_CardinalityType
    <3>3. QED  BY <3>0, <3>2
  <2>8. Equal(W)
    <3>1. m - 1 \notin bad  BY <2>2, <2>7
    <3>2. QED  BY <2>7, <3>1
  <2>9. Total(F, V) = F[k] + Total(F, W)  BY <2>4, <2>6, TotalWithout DEF Without
  <2>10. k \in Transfers  BY <2>6
  <2> DEFINE i == IF To[k] = a /\ where[k] = "landed" THEN Credit(k) ELSE 0
             g == IF From[k] = a /\ where[k] \in {"moving", "landed"} THEN Debit(k) ELSE 0
             x == IF To[k] = a THEN r.cnt[Deposit(k)] * Credit(k) ELSE 0
             y == IF From[k] = a THEN r.cnt[Withdrawal(k)] * (-Debit(k)) ELSE 0
             z == IF Deposit(k) \in S THEN Credit(k) ELSE 0
  <2>11. F[k] = i - g - (x + y) - z
    <3>1. Odd(a, r, S)[k] = i - g - (x + y) - z  BY <2>10, OddIs
    <3>2. QED  BY <3>1
  <2>12. i \in Int /\ g \in Int /\ x \in Int /\ y \in Int /\ z \in Int
    BY <2>10, AmountTypes, TransferIs DEF Countable
  <2> HIDE DEF W
  <2>13. W = Without(V, k)  BY DEF W
  <2>14. /\ Total(Credits, Arrived(a, V)) = i + Total(Credits, Arrived(a, W))
         /\ Total(Debits, Gone(a, V)) = g + Total(Debits, Gone(a, W))
         /\ Total(Counted(r), Of(a, V)) = x + (y + Total(Counted(r), Of(a, W)))
         /\ Total(Changes, Within(S, V)) = z + Total(Changes, Within(S, W))
    BY <2>6, <2>13, LessOne
  <2>15. /\ Total(Credits, Arrived(a, W)) \in Int /\ Total(Debits, Gone(a, W)) \in Int
         /\ Total(Counted(r), Of(a, W)) \in Int /\ Total(Changes, Within(S, W)) \in Int
    BY <2>7, Summable4, TotalStep
  <2> HIDE DEF F, i, g, x, y, z
  <2>16. Difference(a, r, S, V) = F[k] + Difference(a, r, S, W)
    BY <2>11, <2>12, <2>14, <2>15 DEF Difference
  <2>17. QED  BY <2>3, <2>8, <2>9, <2>16
<1>2. IsFiniteSet(Transfers) /\ Cardinality(Transfers) \in Nat
  BY AmountsAssumption, FS_CardinalityType
<1>3. Equal(Transfers)  BY <1>1, <1>2
<1>4. DOMAIN F = Transfers  BY DEF Odd
<1> HIDE DEF F
<1>5. QED  BY <1>3, <1>4, FunctionSum DEF F

\* What an audit sees, with the deposits S completed.
LEMMA DriftIs ==
  ASSUME NEW a, NEW r, Countable(r), NEW S, S \subseteq DepositsOf(a),
         fills[a] \in Int, r.own[a] \in Int
  PROVE  /\ MapThenSumSet(Signed, S) \in Int /\ Drift(r, a) \in Int
         /\ SumFunction(Odd(a, r, S)) \in Int
         /\ Drift(r, a) - MapThenSumSet(Signed, S)
              = (fills[a] - r.own[a]) + SumFunction(Odd(a, r, S))
<1>1. /\ Arrived(a, Transfers) = {k \in Transfers : To[k] = a /\ where[k] = "landed"}
      /\ Gone(a, Transfers) = {k \in Transfers : From[k] = a /\ where[k] \in {"moving", "landed"}}
  BY DEF Arrived, Gone
<1>2. Of(a, Transfers) = {e \in Entries : Account(e) = a}
  BY EntryIs DEF Of
<1>3. Within(S, Transfers) = S /\ S \subseteq Entries
  BY EntryIs DEF Within, DepositsOf
<1>4. ExchangeAmount(a) = fills[a] + Total(Credits, Arrived(a, Transfers))
                          - Total(Debits, Gone(a, Transfers))
  <2>1. Arrived(a, Transfers) \subseteq Transfers /\ Gone(a, Transfers) \subseteq Transfers
    BY DEF Arrived, Gone
  <2>2. /\ MapThenSumSet(Credit, Arrived(a, Transfers)) = Total(Credits, Arrived(a, Transfers))
        /\ MapThenSumSet(Debit, Gone(a, Transfers)) = Total(Debits, Gone(a, Transfers))
    BY <2>1, CreditsSum, DebitsSum
  <2>3. QED  BY <2>2 DEF ExchangeAmount, Arrived, Gone
<1>5. DbAmount(r, a) = r.own[a] + Total(Counted(r), Of(a, Transfers))
  <2>1. MapThenSumSet(LAMBDA e : r.cnt[e] * Signed(e), Of(a, Transfers))
          = Total(Counted(r), Of(a, Transfers))
    <3>1. Of(a, Transfers) \subseteq Entries  BY DEF Of
    <3>2. QED  BY <3>1, CountedSum DEF Countable
  <2>2. QED  BY <2>1, <1>2 DEF DbAmount
<1>6. MapThenSumSet(Signed, S) = Total(Changes, Within(S, Transfers))
  BY <1>3, ChangesSum
<1>7. /\ Total(Credits, Arrived(a, Transfers)) \in Int
      /\ Total(Debits, Gone(a, Transfers)) \in Int
      /\ Total(Counted(r), Of(a, Transfers)) \in Int
      /\ Total(Changes, Within(S, Transfers)) \in Int
      /\ Total(Odd(a, r, S), Transfers) \in Int
  BY Summable4, TotalStep
<1>8. DOMAIN Odd(a, r, S) = Transfers  BY DEF Odd
<1>9. SumFunction(Odd(a, r, S)) \in Int  BY <1>7, <1>8, FunctionSum
<1>10. QED
  BY <1>4, <1>5, <1>6, <1>7, <1>9, DifferenceIs DEF Drift, Difference

\* A sum of zeros.
LEMMA NoneOdd ==
  ASSUME NEW f, NEW D, Summands(f, D), \A x \in D : f[x] = 0
  PROVE  Total(f, D) = 0
<1> DEFINE bad == {n \in Nat : \E U \in SUBSET D : Cardinality(U) = n /\ Total(f, U) # 0}
<1>1. bad = {}
  <2>1. SUFFICES ASSUME bad # {} PROVE FALSE  OBVIOUS
  <2>2. PICK m \in bad : \A n \in bad : m <= n  BY <2>1, LeastNumber
  <2>3. PICK U \in SUBSET D : Cardinality(U) = m /\ Total(f, U) # 0  BY <2>2
  <2>4. Summands(f, U)  BY PartsOf DEF Summands
  <2>5. U # {}  BY <2>3, <2>4, TotalStep
  <2> DEFINE V == U \ {Pick(U)}
  <2>6. /\ Pick(U) \in U /\ V \in SUBSET D /\ Cardinality(V) = m - 1
        /\ Cardinality(V) \in Nat
    <3>1. IsFiniteSet(D)  BY DEF Summands
    <3>2. Pick(U) \in U /\ V \in SUBSET D /\ Cardinality(V) = Cardinality(U) - 1
      BY <2>5, <3>1, PickOne
    <3>3. Cardinality(V) \in Nat  BY <3>1, <3>2, PartsOf
    <3>4. QED  BY <2>3, <3>2, <3>3
  <2>7. Total(f, V) = 0
    <3>1. m - 1 \notin bad  BY <2>2, <2>6
    <3>2. QED  BY <2>6, <3>1
  <2>8. Total(f, U) = f[Pick(U)] + Total(f, V)  BY <2>4, <2>5, TotalStep
  <2>9. f[Pick(U)] = 0  BY <2>6
  <2>10. QED  BY <2>3, <2>7, <2>8, <2>9
<1>2. Cardinality(D) \in Nat  BY FS_CardinalityType DEF Summands
<1>3. QED  BY <1>1, <1>2
-----------------------------------------------------------------------------
(* What a session owes the ledger.  Of its base and its copy it is enough  *)
(* to know how much the session itself has added: the rows may have moved  *)
(* on in any way.                                                          *)

Numbers(r) ==
  /\ \A a \in Accounts : r.own[a] \in Int /\ r.ledger[a] \in Int /\ r.booked[a] \in Int
  /\ \A e \in Entries : r.cnt[e] \in Int

Inserted(i, a) == IF i # NoInsert /\ i[1] = a THEN i[2] ELSE 0

\* The copy r of p, made from b: it has written A and E and inserts i.
Balanced(p, b, r, A, E, i) ==
  /\ i # NoInsert => i[1] \in A /\ i[2] \in Int
  /\ \A a \in Accounts : a \in A =>
       r.own[a] = (IF p = Tool /\ E = {} THEN b.ledger[a] ELSE b.own[a]) + Inserted(i, a)
  /\ \A e \in Entries : Account(e) \in A =>
       r.cnt[e] = IF p = Tool /\ E = {} THEN Done(b, e)
                  ELSE b.cnt[e] + Done(r, e) - Done(b, e)
  /\ \A e \in Entries : e \notin E \/ Account(e) \notin A => Done(r, e) = Done(b, e)

Accounted(p, s) ==
  /\ Numbers(s.base) /\ Numbers(s.db)
  /\ IF s.done THEN Balanced(p, s.base, s.db, s.wrote, s.touched, s.ins)
               ELSE s.db = s.base

LedgerInv ==
  /\ Shape /\ Numbers(rows)
  /\ fills \in [Accounts -> Int]
  /\ \A a \in Accounts : mislaid.own[a] \in Int
  /\ \A e \in Entries : mislaid.cnt[e] \in Int
  /\ LedgerAgrees
  /\ \A p \in Processes : Accounted(p, sess[p])

LEMMA DriftInt ==
  ASSUME NEW a \in Accounts, NEW r, Numbers(r), fills[a] \in Int
  PROVE  Drift(r, a) \in Int
<1>1. {} \subseteq DepositsOf(a)  OBVIOUS
<1>2. Countable(r) /\ r.own[a] \in Int  BY DEF Numbers, Countable
<1>3. QED  BY <1>1, <1>2, DriftIs

\* A session works.
LEMMA WorkPreserves ==
  ASSUME LedgerInv, NEW p \in Processes, NEW r, NEW A, NEW E, NEW i, Work(p, r, A, E, i),
         RowShape(r), Numbers(r), E \subseteq Entries, Balanced(p, sess[p].db, r, A, E, i)
  PROVE  LedgerInv'
<1>1. /\ rows' = rows /\ mislaid' = mislaid /\ fills' = fills /\ ~sess[p].done
      /\ IsFcn(sess', Processes)
      /\ \A q \in Processes \ {p} : sess'[q] = sess[q]
  BY DEF Work, LedgerInv, Shape, IsFcn
<1>2. sess'[p] = [on |-> sess[p].on, base |-> sess[p].base, db |-> r, wrote |-> A,
                 touched |-> E, ins |-> i, done |-> TRUE]
  <2>1. sess'[p] = [sess[p] EXCEPT !.db = r, !.wrote = A, !.touched = E, !.ins = i,
                                   !.done = TRUE]
    BY DEF Work, LedgerInv, Shape, IsFcn
  <2>2. sess[p] = [on |-> sess[p].on, base |-> sess[p].base, db |-> sess[p].db,
                   wrote |-> sess[p].wrote, touched |-> sess[p].touched,
                   ins |-> sess[p].ins, done |-> sess[p].done]
    BY DEF LedgerInv, Shape, SessShape
  <2>3. QED  BY ONLY <2>1, <2>2
<1>3. Shape'
  <2>1. SessShape(sess'[p])
    <3>1. RowShape(sess[p].base)  BY DEF LedgerInv, Shape, SessShape
    <3>2. QED  BY <1>2, <3>1 DEF SessShape
  <2>2. QED  BY <1>1, <2>1 DEF LedgerInv, Shape
<1>4. Accounted(p, sess'[p])
  <2>1. Numbers(sess[p].base) /\ sess[p].db = sess[p].base
    BY <1>1 DEF LedgerInv, Accounted
  <2>2. QED  BY <1>2, <2>1 DEF Accounted
<1>5. \A q \in Processes : Accounted(q, sess'[q])
  BY <1>1, <1>4 DEF LedgerInv
<1>6. LedgerAgrees'  BY <1>1 DEF LedgerInv, LedgerAgrees
<1>7. QED  BY <1>1, <1>3, <1>5, <1>6 DEF LedgerInv

\* What LedgerInv says of a session that works now.
LEMMA CopyNumbers ==
  ASSUME LedgerInv, NEW p \in Processes
  PROVE  RowShape(sess[p].db) /\ Numbers(sess[p].db)
  BY DEF LedgerInv, Accounted, Shape, SessShape

LEMMA BookFillsPreserves ==
  ASSUME LedgerInv, NEW p \in Engines, BookFills(p), FundsAssumption
  PROVE  LedgerInv'
<1> DEFINE r == sess[p].db
           d == fills[p] - r.booked[p]
           q == Booked(r, p, d)
           w == [q EXCEPT !.booked[p] = fills[p]]
<1>1. p \in Accounts /\ p \in Processes /\ p # Tool  BY DEF FundsAssumption, Processes
<1>2. Work(p, w, {p}, {}, <<p, d>>)  BY DEF BookFills
<1>3. RowShape(r) /\ Numbers(r)  BY <1>1, CopyNumbers
<1>4. d \in Int /\ fills[p] \in Int  BY <1>1, <1>3 DEF LedgerInv, Numbers
<1>5. /\ RowShape(q)
      /\ q.cnt = r.cnt /\ q.status = r.status /\ q.booked = r.booked
      /\ \A b \in Accounts :
           /\ q.own[b] = IF b = p THEN r.own[b] + d ELSE r.own[b]
           /\ q.ledger[b] = IF b = p THEN r.ledger[b] + d ELSE r.ledger[b]
  BY <1>1, <1>3, BookedFields
<1> HIDE DEF q
<1>6. /\ RowShape(w)
      /\ w.cnt = q.cnt /\ w.status = q.status /\ w.own = q.own /\ w.ledger = q.ledger
      /\ \A b \in Accounts : w.booked[b] = IF b = p THEN fills[p] ELSE q.booked[b]
  <2>1. w = [own |-> q.own, cnt |-> q.cnt, status |-> q.status, ledger |-> q.ledger,
             booked |-> [q.booked EXCEPT ![p] = fills[p]]]
    BY <1>5 DEF RowShape
  <2> HIDE DEF w, r, d
  <2>2. /\ w.own = q.own /\ w.cnt = q.cnt /\ w.status = q.status /\ w.ledger = q.ledger
        /\ w.booked = [q.booked EXCEPT ![p] = fills[p]]
    BY <2>1
  <2>3. /\ IsFcn(w.booked, Accounts)
        /\ \A b \in Accounts : w.booked[b] = IF b = p THEN fills[p] ELSE q.booked[b]
    BY <1>5, <2>2 DEF RowShape, IsFcn
  <2>4. QED  BY <1>5, <2>1, <2>2, <2>3 DEF RowShape
<1> HIDE DEF d, w, r
<1>7. Numbers(w)  BY <1>3, <1>4, <1>5, <1>6 DEF Numbers
<1>8. Balanced(p, r, w, {p}, {}, <<p, d>>)
  <2>1. <<p, d>> # NoInsert /\ <<p, d>>[1] = p /\ <<p, d>>[2] = d  BY DEF NoInsert
  <2>2. PICK i : i = <<p, d>>  OBVIOUS
  <2>3. \A e \in Entries : Done(w, e) = Done(r, e)  BY <1>5, <1>6 DEF Done
  <2>4. \A e \in Entries : w.cnt[e] = r.cnt[e] + Done(w, e) - Done(r, e)
    BY <1>3, <1>5, <1>6, <2>3 DEF Numbers, Done
  <2>5. w.own[p] = r.own[p] + Inserted(i, p)
    BY <1>1, <1>5, <1>6, <2>1, <2>2 DEF Inserted
  <2>6. Balanced(p, r, w, {p}, {}, i)
    BY <1>1, <1>4, <2>1, <2>2, <2>3, <2>4, <2>5 DEF Balanced
  <2>7. QED  BY <2>2, <2>6
<1>9. QED  BY <1>1, <1>2, <1>6, <1>7, <1>8, WorkPreserves DEF r

-----------------------------------------------------------------------------
(* The audit.                                                              *)

\* Drift enters a copy t that is balanced without it.
LEMMA DriftBalances ==
  ASSUME NEW p, NEW b, NEW a \in Accounts, NEW t, NEW E, NEW d \in Int, NEW w, NEW A, NEW i,
         RowShape(t), Numbers(t), Numbers(b), Balanced(p, b, t, {a}, E, NoInsert),
         w = IF d = 0 THEN t ELSE Booked(t, a, d),
         i = IF d = 0 THEN NoInsert ELSE <<a, d>>,
         A = {a} \/ (A = {} /\ d = 0 /\ \A e \in Entries : Done(t, e) = Done(b, e))
  PROVE  RowShape(w) /\ Numbers(w) /\ Balanced(p, b, w, A, E, i)
<1>1. CASE d = 0
  <2>1. w = t /\ i = NoInsert  BY <1>1
  <2>2. Balanced(p, b, t, A, E, NoInsert)  BY DEF Balanced
  <2>3. QED  BY <2>1, <2>2
<1>2. CASE d # 0
  <2>1. /\ RowShape(w)
        /\ w.cnt = t.cnt /\ w.status = t.status /\ w.booked = t.booked
        /\ \A c \in Accounts :
             /\ w.own[c] = IF c = a THEN t.own[c] + d ELSE t.own[c]
             /\ w.ledger[c] = IF c = a THEN t.ledger[c] + d ELSE t.ledger[c]
    BY <1>2, BookedFields
  <2>2. A = {a} /\ i # NoInsert /\ i[1] = a /\ i[2] = d  BY <1>2 DEF NoInsert
  <2>3. Numbers(w)  BY <2>1 DEF Numbers
  <2>4. w.own[a] = t.own[a] + d /\ Inserted(i, a) = d /\ Inserted(NoInsert, a) = 0
    BY <2>1, <2>2 DEF Inserted
  <2>5. \A e \in Entries : Done(w, e) = Done(t, e) /\ w.cnt[e] = t.cnt[e]
    BY <2>1 DEF Done
  <2>6. t.own[a] = (IF p = Tool /\ E = {} THEN b.ledger[a] ELSE b.own[a]) + 0
    BY <2>4 DEF Balanced
  <2> DEFINE x == IF p = Tool /\ E = {} THEN b.ledger[a] ELSE b.own[a]
  <2>7. w.own[a] = x + d
    <3>1. x \in Int  BY DEF Numbers
    <3> HIDE DEF x
    <3>2. t.own[a] = x + 0  BY <2>6 DEF x
    <3>3. QED  BY <2>4, <3>1, <3>2
  <2>8. QED  BY <2>1, <2>2, <2>3, <2>4, <2>5, <2>7 DEF Balanced
<1>3. QED  BY <1>1, <1>2

\* Transactions in transit are completed.
LEMMA CompletedBalances ==
  ASSUME NEW p, NEW r, RowShape(r), Numbers(r), NEW a, NEW S \in SUBSET Entries,
         \A e \in S : r.status[e] = "IN_TRANSIT" /\ Account(e) = a,
         p # Tool \/ S # {}, NEW t, t = Completed(r, S)
  PROVE  RowShape(t) /\ Numbers(t) /\ Balanced(p, r, t, {a}, S, NoInsert)
<1>1. /\ RowShape(t)
      /\ t.own = r.own /\ t.ledger = r.ledger /\ t.booked = r.booked
      /\ \A e \in Entries :
           /\ t.status[e] = IF e \in S THEN "COMPLETED" ELSE r.status[e]
           /\ t.cnt[e] = IF e \in S THEN r.cnt[e] + 1 ELSE r.cnt[e]
  BY CompletedFields
<1>2. Numbers(t)  BY <1>1 DEF Numbers
<1>3. \A e \in Entries : IF e \in S THEN Done(t, e) = 1 /\ Done(r, e) = 0
                                    ELSE Done(t, e) = Done(r, e)
  BY <1>1 DEF Done
<1>4. \A e \in Entries : t.cnt[e] = r.cnt[e] + Done(t, e) - Done(r, e)
  BY <1>1, <1>3 DEF Numbers, Done
<1>5. \A b \in Accounts : t.own[b] = r.own[b] + Inserted(NoInsert, b)
  BY <1>1 DEF Inserted, Numbers
<1>6. QED  BY <1>1, <1>2, <1>3, <1>4, <1>5 DEF Balanced

LEMMA AuditPreserves ==
  ASSUME LedgerInv, NEW p \in Engines, Audit(p), FundsAssumption
  PROVE  LedgerInv'
<1> DEFINE r == sess[p].db
<1>1. p \in Accounts /\ p \in Processes /\ p # Tool  BY DEF FundsAssumption, Processes
<1>2. PICK S \in Expected(r, p, Drift(r, p)) : Audited(p, r, S)  BY DEF Audit
<1>3. \A e \in S : e \in Entries /\ Account(e) = p /\ r.status[e] = "IN_TRANSIT"
  BY <1>2, ExpectedPending DEF PendingDeposits
<1> DEFINE t == Completed(r, S)
           d == Drift(t, p)
           w == IF d = 0 THEN t ELSE Booked(t, p, d)
           A == IF d = 0 /\ S = {} THEN {} ELSE {p}
           i == IF d = 0 THEN NoInsert ELSE <<p, d>>
<1>4. Work(p, w, A, S, i)  BY <1>2 DEF Audited
<1>5. RowShape(r) /\ Numbers(r) /\ fills[p] \in Int
  BY <1>1, CopyNumbers DEF LedgerInv
<1> HIDE DEF r
<1>6. RowShape(t) /\ Numbers(t) /\ Balanced(p, r, t, {p}, S, NoInsert)
  BY <1>1, <1>3, <1>5, CompletedBalances
<1> HIDE DEF t
<1>7. d \in Int  BY <1>1, <1>5, <1>6, DriftInt
<1>8. A = {p} \/ (A = {} /\ d = 0 /\ \A e \in Entries : Done(t, e) = Done(r, e))
  BY <1>6 DEF Balanced
<1> HIDE DEF d, w, A, i
<1>9. RowShape(w) /\ Numbers(w) /\ Balanced(p, r, w, A, S, i)
  BY <1>1, <1>5, <1>6, <1>7, <1>8, DriftBalances DEF w, i
<1>10. QED  BY <1>1, <1>3, <1>4, <1>9, WorkPreserves DEF r

LEMMA AuditFailsPreserves ==
  ASSUME LedgerInv, NEW p \in Engines, AuditFails(p)
  PROVE  LedgerInv'
<1>1. p \in Processes  BY DEF Processes
<1>2. Work(p, sess[p].db, {}, {}, NoInsert)  BY DEF AuditFails
<1>3. RowShape(sess[p].db) /\ Numbers(sess[p].db)  BY <1>1, CopyNumbers
<1>4. Balanced(p, sess[p].db, sess[p].db, {}, {}, NoInsert)  BY DEF Balanced
<1>5. QED  BY <1>1, <1>2, <1>3, <1>4, WorkPreserves

-----------------------------------------------------------------------------
(* The tools.                                                              *)

LEMMA RecordWithdrawalPreserves ==
  ASSUME LedgerInv, NEW k \in Transfers, RecordWithdrawal(k), FundsAssumption
  PROVE  LedgerInv'
<1> DEFINE r == sess[Tool].db
           W == Withdrawal(k)
           D == Deposit(k)
           t == Completed(r, {W})
           w == SetStatus(t, {D}, "IN_TRANSIT")
<1>1. Tool \in Processes  BY DEF Processes
<1>2. /\ Work(Tool, w, {From[k]}, {W, D}, NoInsert)
      /\ r.status[W] = "NONE" /\ r.status[D] = "NONE"
  BY DEF RecordWithdrawal
<1>3. W \in Entries /\ D \in Entries /\ W # D /\ Account(W) = From[k]
  BY EntryFacts
<1>4. RowShape(r) /\ Numbers(r)  BY <1>1, CopyNumbers
<1>5. /\ RowShape(t)
      /\ t.own = r.own /\ t.ledger = r.ledger /\ t.booked = r.booked
      /\ \A e \in Entries :
           /\ t.status[e] = IF e \in {W} THEN "COMPLETED" ELSE r.status[e]
           /\ t.cnt[e] = IF e \in {W} THEN r.cnt[e] + 1 ELSE r.cnt[e]
  BY <1>4, CompletedFields
<1> HIDE DEF t, r, W, D
<1>6. /\ RowShape(w)
      /\ w.own = t.own /\ w.cnt = t.cnt /\ w.ledger = t.ledger /\ w.booked = t.booked
      /\ \A e \in Entries : w.status[e] = IF e \in {D} THEN "IN_TRANSIT" ELSE t.status[e]
  BY <1>5, SetStatusFields
<1> HIDE DEF w
<1>7. Numbers(w)  BY <1>4, <1>5, <1>6 DEF Numbers
<1>8. \A e \in Entries : IF e = W THEN Done(w, e) = 1 /\ Done(r, e) = 0
                                  ELSE Done(w, e) = Done(r, e)
  BY <1>2, <1>3, <1>5, <1>6 DEF Done
<1>9. \A e \in Entries : w.cnt[e] = r.cnt[e] + Done(w, e) - Done(r, e)
  BY <1>4, <1>5, <1>6, <1>8 DEF Numbers, Done
<1>10. \A b \in Accounts : w.own[b] = r.own[b] + Inserted(NoInsert, b)
  BY <1>4, <1>5, <1>6 DEF Inserted, Numbers
<1>11. Balanced(Tool, r, w, {From[k]}, {W, D}, NoInsert)
  BY <1>3, <1>8, <1>9, <1>10 DEF Balanced
<1>12. QED  BY <1>1, <1>2, <1>3, <1>6, <1>7, <1>11, WorkPreserves DEF r

LEMMA TransactionCompletePreserves ==
  ASSUME LedgerInv, NEW a \in Accounts, TransactionComplete(a)
  PROVE  LedgerInv'
<1> DEFINE r == sess[Tool].db
<1>1. Tool \in Processes  BY DEF Processes
<1>2. PICK e \in PendingDeposits(r, a) : Work(Tool, Completed(r, {e}), {a}, {e}, NoInsert)
  BY DEF TransactionComplete
<1> DEFINE w == Completed(r, {e})
<1>3. e \in Entries /\ Account(e) = a /\ r.status[e] = "IN_TRANSIT"
  BY <1>2 DEF PendingDeposits
<1>4. RowShape(r) /\ Numbers(r)  BY <1>1, CopyNumbers
<1> HIDE DEF r
<1>5. RowShape(w) /\ Numbers(w) /\ Balanced(Tool, r, w, {a}, {e}, NoInsert)
  BY <1>3, <1>4, CompletedBalances
<1> HIDE DEF w
<1>6. Work(Tool, w, {a}, {e}, NoInsert)  BY <1>2 DEF w
<1>7. QED  BY <1>1, <1>3, <1>5, <1>6, WorkPreserves DEF r

LEMMA CancelTransferPreserves ==
  ASSUME LedgerInv, NEW k \in Transfers, CancelTransfer(k)
  PROVE  LedgerInv'
<1> DEFINE r == sess[Tool].db
           W == Withdrawal(k)
           D == Deposit(k)
           C == {e \in {W, D} : r.status[e] = "COMPLETED"}
           t == SetStatus(r, {W, D}, "CANCELED")
           w == Cancelled(r, {W, D})
<1>1. Tool \in Processes  BY DEF Processes
<1>2. /\ Work(Tool, w, {From[k]}, {W, D}, NoInsert)
      /\ r.status[D] = "IN_TRANSIT"
  BY DEF CancelTransfer
<1>3. W \in Entries /\ D \in Entries /\ W # D /\ Account(W) = From[k]
  BY EntryFacts
<1>4. RowShape(r) /\ Numbers(r)  BY <1>1, CopyNumbers
<1>5. /\ RowShape(t)
      /\ t.own = r.own /\ t.cnt = r.cnt /\ t.ledger = r.ledger /\ t.booked = r.booked
      /\ \A e \in Entries : t.status[e] = IF e \in {W, D} THEN "CANCELED" ELSE r.status[e]
  BY <1>4, SetStatusFields
<1>6. w = Count(t, C, -1)  BY DEF Cancelled
<1> HIDE DEF t, w
<1>7. /\ RowShape(w)
      /\ w.own = t.own /\ w.status = t.status /\ w.ledger = t.ledger /\ w.booked = t.booked
      /\ \A e \in Entries : w.cnt[e] = IF e \in C THEN t.cnt[e] + (-1) ELSE t.cnt[e]
  BY <1>5, <1>6, CountFields
<1> HIDE DEF r, W, D
<1>8. Numbers(w)  BY <1>4, <1>5, <1>7 DEF Numbers
<1>9. \A e \in Entries :
        IF e \in C THEN Done(w, e) = 0 /\ Done(r, e) = 1 /\ w.cnt[e] = r.cnt[e] - 1
                   ELSE Done(w, e) = Done(r, e) /\ w.cnt[e] = r.cnt[e]
  BY <1>3, <1>4, <1>5, <1>7 DEF Done, Numbers
<1>10. \A e \in Entries : w.cnt[e] = r.cnt[e] + Done(w, e) - Done(r, e)
  BY <1>4, <1>9 DEF Numbers, Done
<1>11. \A b \in Accounts : w.own[b] = r.own[b] + Inserted(NoInsert, b)
  BY <1>4, <1>5, <1>7 DEF Inserted, Numbers
<1>12. D \notin C  BY <1>2
<1>13. \A e \in Entries : e \notin {W, D} \/ Account(e) # From[k] => Done(w, e) = Done(r, e)
  BY <1>3, <1>9, <1>12
<1> HIDE DEF C
<1>14. Balanced(Tool, r, w, {From[k]}, {W, D}, NoInsert)
  BY <1>3, <1>10, <1>11, <1>13 DEF Balanced
<1>15. QED  BY <1>1, <1>2, <1>3, <1>7, <1>8, <1>14, WorkPreserves DEF r

LEMMA ResetBalancePreserves ==
  ASSUME LedgerInv, NEW a \in Accounts, ResetBalance(a)
  PROVE  LedgerInv'
<1> DEFINE r == sess[Tool].db
           t == [r EXCEPT !.own[a] = r.ledger[a],
                          !.cnt = [e \in Entries |->
                            IF Account(e) = a THEN Done(r, e) ELSE @[e]]]
           d == Drift(t, a)
           w == IF d = 0 THEN t ELSE Booked(t, a, d)
           i == IF d = 0 THEN NoInsert ELSE <<a, d>>
<1>1. Tool \in Processes  BY DEF Processes
<1>2. Work(Tool, w, {a}, {}, i)  BY DEF ResetBalance
<1>3. RowShape(r) /\ Numbers(r) /\ fills[a] \in Int
  BY <1>1, CopyNumbers DEF LedgerInv
<1>4. /\ RowShape(t) /\ Numbers(t)
      /\ t.own[a] = r.ledger[a] /\ t.status = r.status
      /\ \A e \in Entries : Account(e) = a => t.cnt[e] = Done(r, e)
  <2> DEFINE O == [r.own EXCEPT ![a] = r.ledger[a]]
             C == [e \in Entries |-> IF Account(e) = a THEN Done(r, e) ELSE r.cnt[e]]
  <2>1. t = [own |-> O, cnt |-> C,
             status |-> r.status, ledger |-> r.ledger, booked |-> r.booked]
    <3>1. t = [r EXCEPT !.own = O, !.cnt = C]  OBVIOUS
    <3>2. r = [own |-> r.own, cnt |-> r.cnt, status |-> r.status,
               ledger |-> r.ledger, booked |-> r.booked]
      BY <1>3 DEF RowShape
    <3> HIDE DEF t, O, C, r
    <3>3. QED  BY <3>1, <3>2
  <2> HIDE DEF t, r
  <2>2. /\ t.own = O /\ t.cnt = C
        /\ t.status = r.status /\ t.ledger = r.ledger /\ t.booked = r.booked
    BY <2>1
  <2>3. /\ IsFcn(t.own, Accounts) /\ IsFcn(t.cnt, Entries) /\ t.own[a] = r.ledger[a]
        /\ \A b \in Accounts : b # a => t.own[b] = r.own[b]
    BY <1>3, <2>2 DEF RowShape, IsFcn
  <2>4. RowShape(t)  BY <1>3, <2>1, <2>2, <2>3 DEF RowShape
  <2>5. \A e \in Entries : Done(r, e) \in Int  BY DEF Done
  <2>6. Numbers(t)  BY <1>3, <2>2, <2>3, <2>5 DEF Numbers
  <2>7. QED  BY <2>2, <2>3, <2>4, <2>6
<1> HIDE DEF t, r
<1>5. Balanced(Tool, r, t, {a}, {}, NoInsert)
  <2>1. \A e \in Entries : Done(t, e) = Done(r, e)  BY <1>4 DEF Done
  <2>2. t.own[a] = r.ledger[a] + Inserted(NoInsert, a)
    BY <1>3, <1>4 DEF Inserted, Numbers
  <2>3. QED  BY <1>4, <2>1, <2>2 DEF Balanced
<1>6. d \in Int  BY <1>3, <1>4, DriftInt
<1> HIDE DEF d, w, i
<1>7. RowShape(w) /\ Numbers(w) /\ Balanced(Tool, r, w, {a}, {}, i)
  <2>1. PICK A : A = {a}  OBVIOUS
  <2>2. RowShape(w) /\ Numbers(w) /\ Balanced(Tool, r, w, A, {}, i)
    BY <1>3, <1>4, <1>5, <1>6, <2>1, DriftBalances DEF w, i
  <2>3. QED  BY <2>1, <2>2
<1>8. QED  BY <1>1, <1>2, <1>7, WorkPreserves DEF r

-----------------------------------------------------------------------------
(* Sessions begin and end.                                                 *)

\* Where session p is replaced by n and nothing else happens to the rows.
LEMMA OnePreserves ==
  ASSUME LedgerInv, NEW p \in Processes, NEW n, sess' = [sess EXCEPT ![p] = n],
         SessShape(n), Accounted(p, n), UNCHANGED <<rows, fills, mislaid>>
  PROVE  LedgerInv'
<1>1. /\ IsFcn(sess', Processes) /\ sess'[p] = n
      /\ \A q \in Processes \ {p} : sess'[q] = sess[q]
  BY DEF LedgerInv, Shape, IsFcn
<1>2. Shape'  BY <1>1 DEF LedgerInv, Shape
<1>3. LedgerAgrees'  BY DEF LedgerInv, LedgerAgrees
<1>4. \A q \in Processes : Accounted(q, sess'[q])  BY <1>1 DEF LedgerInv
<1>5. QED  BY <1>2, <1>3, <1>4 DEF LedgerInv

LEMMA ClosedAccounted == \A p : Accounted(p, Closed)
  BY DEF Accounted, Closed, EmptyRow, Numbers

LEMMA BeginPreserves ==
  ASSUME LedgerInv, NEW p \in Processes, Begin(p)
  PROVE  LedgerInv'
<1> DEFINE n == [Closed EXCEPT !.on = TRUE, !.base = rows, !.db = rows]
<1>1. n = [on |-> TRUE, base |-> rows, db |-> rows, wrote |-> {}, touched |-> {},
           ins |-> NoInsert, done |-> FALSE]
  <2>1. n = [Closed EXCEPT !.on = TRUE, !.base = rows, !.db = rows]  OBVIOUS
  <2>2. /\ Closed = [on |-> Closed.on, base |-> Closed.base, db |-> Closed.db,
                     wrote |-> Closed.wrote, touched |-> Closed.touched,
                     ins |-> Closed.ins, done |-> Closed.done]
        /\ Closed.wrote = {} /\ Closed.touched = {} /\ Closed.ins = NoInsert
        /\ Closed.done = FALSE
    BY DEF Closed
  <2> HIDE DEF n
  <2>3. QED  BY ONLY <2>1, <2>2
<1>2. sess' = [sess EXCEPT ![p] = n] /\ UNCHANGED <<rows, fills, mislaid>>
  BY DEF Begin
<1> HIDE DEF n
<1>3. SessShape(n)  BY <1>1 DEF SessShape, LedgerInv, Shape
<1>4. Accounted(p, n)  BY <1>1 DEF Accounted, LedgerInv
<1>5. QED  BY <1>2, <1>3, <1>4, OnePreserves

LEMMA ClosingPreserves ==
  ASSUME LedgerInv, NEW p \in Processes, sess' = [sess EXCEPT ![p] = Closed],
         UNCHANGED <<rows, fills, mislaid>>
  PROVE  LedgerInv'
  BY ClosedShape, ClosedAccounted, OnePreserves

\* What the commit of a session takes back is what it has not read.
LEMMA CommitPreserves ==
  ASSUME LedgerInv, NEW p \in Processes, Commit(p)
  PROVE  LedgerInv'
<1> DEFINE s == sess[p]
           m == mislaid'
<1>1. s.done /\ rows' = Merged(rows, p, s) /\ m = Overwrites(p, s) /\ fills' = fills
  BY DEF Commit
<1>2. /\ IsFcn(sess', Processes) /\ sess'[p] = Closed
      /\ \A q \in Processes \ {p} : sess'[q] = sess[q]
  BY DEF Commit, LedgerInv, Shape, IsFcn
<1>3. /\ Numbers(s.base) /\ Numbers(s.db) /\ Numbers(rows)
      /\ Balanced(p, s.base, s.db, s.wrote, s.touched, s.ins)
  BY <1>1 DEF LedgerInv, Accounted
<1>4. /\ RowShape(rows')
      /\ \A a \in Accounts :
           /\ rows'.own[a] = IF a \in s.wrote THEN s.db.own[a] ELSE rows.own[a]
           /\ rows'.ledger[a] = IF s.ins # NoInsert /\ s.ins[1] = a
                                THEN rows.ledger[a] + s.ins[2] ELSE rows.ledger[a]
           /\ rows'.booked[a] = IF a = p THEN s.db.booked[a] ELSE rows.booked[a]
      /\ \A e \in Entries :
           /\ rows'.cnt[e] = IF Account(e) \in s.wrote THEN s.db.cnt[e] ELSE rows.cnt[e]
           /\ rows'.status[e] = IF e \in s.touched THEN s.db.status[e] ELSE rows.status[e]
  BY <1>1, MergedFields DEF LedgerInv, Shape
<1> DEFINE reset == p = Tool /\ s.touched = {}
           gone(e) == Done(rows, e) - Done(s.base, e)
<1>5. /\ \A a \in Accounts :
           m.own[a] = IF a \in s.wrote
                      THEN IF reset THEN rows.ledger[a] - s.base.ledger[a]
                           ELSE mislaid.own[a] + rows.own[a] - s.base.own[a]
                      ELSE mislaid.own[a]
      /\ \A e \in Entries :
           m.cnt[e] = (IF Account(e) \in s.wrote
                       THEN IF reset THEN gone(e) ELSE mislaid.cnt[e] + rows.cnt[e] - s.base.cnt[e]
                       ELSE mislaid.cnt[e])
                      - (IF e \in s.touched THEN gone(e) ELSE 0)
  BY <1>1 DEF Overwrites, Resets
<1>6. \A e \in Entries : /\ Done(rows, e) \in Int /\ Done(s.base, e) \in Int
                         /\ Done(s.db, e) \in Int
                         /\ Done(rows', e) = IF e \in s.touched THEN Done(s.db, e)
                                                                ELSE Done(rows, e)
  BY <1>4 DEF Done
<1>7. /\ \A a \in Accounts : mislaid.own[a] \in Int /\ rows.own[a] + mislaid.own[a] = rows.ledger[a]
      /\ \A e \in Entries : mislaid.cnt[e] \in Int /\ rows.cnt[e] + mislaid.cnt[e] = Done(rows, e)
  BY DEF LedgerInv, LedgerAgrees
<1> HIDE DEF s, m
<1>8. ASSUME NEW a \in Accounts
      PROVE  m.own[a] \in Int /\ rows'.own[a] + m.own[a] = rows'.ledger[a]
  <2>1. /\ s.base.own[a] \in Int /\ s.base.ledger[a] \in Int /\ rows.own[a] \in Int
        /\ rows.ledger[a] \in Int
    BY <1>3 DEF Numbers
  <2>2. /\ Inserted(s.ins, a) \in Int /\ rows'.ledger[a] = rows.ledger[a] + Inserted(s.ins, a)
        /\ a \notin s.wrote => Inserted(s.ins, a) = 0
    BY <1>3, <1>4, <2>1 DEF Inserted, Balanced
  <2>3. CASE a \notin s.wrote  BY <1>4, <1>5, <1>7, <2>1, <2>2, <2>3
  <2>4. CASE a \in s.wrote
    <3>1. rows'.own[a] = (IF reset THEN s.base.ledger[a] ELSE s.base.own[a]) + Inserted(s.ins, a)
      BY <1>3, <1>4, <2>4 DEF Balanced
    <3> HIDE DEF reset
    <3>2. QED  BY <1>5, <1>7, <2>1, <2>2, <2>4, <3>1
  <2>5. QED  BY <2>3, <2>4
<1>9. ASSUME NEW e \in Entries
      PROVE  m.cnt[e] \in Int /\ rows'.cnt[e] + m.cnt[e] = Done(rows', e)
  <2>1. s.base.cnt[e] \in Int /\ rows.cnt[e] \in Int  BY <1>3 DEF Numbers
  <2>2. e \notin s.touched \/ Account(e) \notin s.wrote => Done(s.db, e) = Done(s.base, e)
    BY <1>3 DEF Balanced
  <2>3. CASE Account(e) \notin s.wrote
    BY <1>4, <1>5, <1>6, <1>7, <2>1, <2>2, <2>3
  <2>4. CASE Account(e) \in s.wrote
    <3>1. rows'.cnt[e] = IF reset THEN Done(s.base, e)
                         ELSE s.base.cnt[e] + Done(s.db, e) - Done(s.base, e)
      BY <1>3, <1>4, <2>4 DEF Balanced
    <3>2. reset => e \notin s.touched  OBVIOUS
    <3> HIDE DEF reset
    <3>3. QED  BY <1>5, <1>6, <1>7, <2>1, <2>2, <2>4, <3>1, <3>2
  <2>5. QED  BY <2>3, <2>4
<1>10. LedgerAgrees'  BY <1>8, <1>9 DEF LedgerAgrees, m
<1>11. Numbers(rows')
  <2>1. \A a \in Accounts : Inserted(s.ins, a) \in Int
                            /\ rows'.ledger[a] = rows.ledger[a] + Inserted(s.ins, a)
    BY <1>3, <1>4 DEF Inserted, Balanced, Numbers
  <2>2. QED  BY <1>3, <1>4, <2>1 DEF Numbers
<1>12. Shape'  BY <1>2, <1>4, ClosedShape DEF LedgerInv, Shape
<1>13. \A q \in Processes : Accounted(q, sess'[q])
  BY <1>2, ClosedAccounted DEF LedgerInv
<1>14. fills' \in [Accounts -> Int]  BY <1>1 DEF LedgerInv
<1>15. QED  BY <1>8, <1>9, <1>10, <1>11, <1>12, <1>13, <1>14 DEF LedgerInv, m

-----------------------------------------------------------------------------
(* All steps keep the ledger.                                              *)

LEMMA InitLedger == ASSUME Init PROVE LedgerInv
<1>1. RowShape(rows) /\ Numbers(rows)
  BY DEF Init, RowShape, EmptyRow, IsFcn, Numbers
<1>2. IsFcn(sess, Processes) /\ \A p \in Processes : sess[p] = Closed
  BY DEF Init, IsFcn
<1>3. Shape  BY <1>1, <1>2, ClosedShape DEF Shape
<1>4. /\ LedgerAgrees
      /\ \A a \in Accounts : mislaid.own[a] \in Int
      /\ \A e \in Entries : mislaid.cnt[e] \in Int
  BY DEF Init, LedgerAgrees, Nothing, EmptyRow, Done
<1>5. fills \in [Accounts -> Int]  BY DEF Init
<1>6. QED  BY <1>1, <1>2, <1>3, <1>4, <1>5, ClosedAccounted DEF LedgerInv

LEMMA QuietPreserves ==
  ASSUME LedgerInv, UNCHANGED <<rows, sess, mislaid>>, fills' \in [Accounts -> Int]
  PROVE  LedgerInv'
  BY DEF LedgerInv, Shape, LedgerAgrees

LEMMA NextPreserves ==
  ASSUME LedgerInv, FundsAssumption, [Next]_vars
  PROVE  LedgerInv'
<1>1. ASSUME NEW a \in Engines, EngineStep(a) PROVE LedgerInv'
  <2>1. a \in Processes  BY DEF Processes
  <2>2. QED
    BY <1>1, <2>1, BeginPreserves, BookFillsPreserves, AuditPreserves,
       AuditFailsPreserves, CommitPreserves
    DEF EngineStep
<1>2. ASSUME ToolStep PROVE LedgerInv'
  <2>1. Tool \in Processes  BY DEF Processes
  <2>2. CASE ToolQuits  BY <2>1, <2>2, ClosingPreserves DEF ToolQuits
  <2>3. CASE Begin(Tool) \/ Commit(Tool)
    BY <2>1, <2>3, BeginPreserves, CommitPreserves
  <2>4. ASSUME NEW k \in Transfers, RecordWithdrawal(k) \/ CancelTransfer(k)
        PROVE  LedgerInv'
    BY <2>4, RecordWithdrawalPreserves, CancelTransferPreserves
  <2>5. ASSUME NEW a \in Accounts, TransactionComplete(a) \/ ResetBalance(a)
        PROVE  LedgerInv'
    BY <2>5, TransactionCompletePreserves, ResetBalancePreserves
  <2>6. QED  BY <1>2, <2>2, <2>3, <2>4, <2>5 DEF ToolStep
<1>3. CASE World
  <2>1. fills' \in [Accounts -> Int] /\ UNCHANGED <<rows, sess, mislaid>>
    BY <1>3 DEF World, Fill, Send, Land, Bounce, Move, LedgerInv, FundsAssumption
  <2>2. QED  BY <2>1, QuietPreserves
<1>4. ASSUME NEW p \in Processes, Rollback(p) PROVE LedgerInv'
  BY <1>4, ClosingPreserves DEF Rollback
<1>5. CASE UNCHANGED vars  BY <1>5, QuietPreserves DEF vars, LedgerInv
<1>6. QED  BY <1>1, <1>2, <1>3, <1>4, <1>5 DEF Next

(***************************************************************************)
(* In every reachable state, with any accounts, transfers, fees and        *)
(* tolerance, the balance of an account is what its transactions, trades   *)
(* and drifts add up to, less exactly what commits have replaced that was  *)
(* not in the copy they were made from (exchange.pyx:57).                  *)
(***************************************************************************)
THEOREM LedgerAgreesAlways == Spec => []LedgerAgrees
<1>1. Init => LedgerInv  BY InitLedger
<1>2. LedgerInv /\ [Next]_vars => LedgerInv'  BY NextPreserves, FundsAssumption
<1>3. LedgerInv => LedgerAgrees  BY DEF LedgerInv
<1>4. QED  BY <1>1, <1>2, <1>3, PTL DEF Spec

-----------------------------------------------------------------------------
(* The copies of the rows.                                                 *)

\* A row's status only goes forward, from no row to a final one.
NoLater(s, t) ==
  s = t \/ s = "NONE" \/ (s = "IN_TRANSIT" /\ t # "NONE") \/ t = "CANCELED"

\* How often a transaction is counted goes with its status, and final
\* statuses with where the money is.
EntryFits(r, e) ==
  /\ r.cnt[e] \in {-1, 0, 1} /\ r.status[e] \in Status
  /\ r.status[e] \in {"NONE", "IN_TRANSIT"} => r.cnt[e] = 0
  /\ r.cnt[e] = -1 => ~IsDeposit(e) /\ r.status[e] = "CANCELED"
  /\ IsDeposit(e) /\ (r.cnt[e] = 1 \/ r.status[e] = "COMPLETED") => where[e[2]] = "landed"
  /\ r.status[e] = "CANCELED" => where[e[2]] = "returned"

CopyFits(r) ==
  /\ \A e \in Entries : EntryFits(r, e)
  /\ \A a \in Accounts :
       /\ r.own[a] \in Nat /\ r.booked[a] \in Nat /\ r.ledger[a] \in Int
       /\ r.own[a] <= r.booked[a] /\ r.booked[a] <= fills[a]

\* Every transfer has been counted as it should at account a.
NoMismatch(a, r, S) ==
  \A k \in Transfers : Missing(a, r, S, k) = 0 /\ Untimely(a, r, k) = 0

LEMMA MismatchSigns ==
  ASSUME NEW a, NEW r, NEW S, \A e \in Entries : EntryFits(r, e),
         \A e \in S : r.status[e] = "IN_TRANSIT"
  PROVE  \A k \in Transfers : Missing(a, r, S, k) \in Sign /\ Untimely(a, r, k) \in Sign
<1> SUFFICES ASSUME NEW k \in Transfers
             PROVE  Missing(a, r, S, k) \in Sign /\ Untimely(a, r, k) \in Sign
  OBVIOUS
<1>1. /\ EntryFits(r, Deposit(k)) /\ EntryFits(r, Withdrawal(k))
      /\ IsDeposit(Deposit(k)) /\ ~IsDeposit(Withdrawal(k))
      /\ Deposit(k)[2] = k /\ Withdrawal(k)[2] = k
  BY TransferIs
<1>2. Missing(a, r, S, k) \in Sign  BY <1>1 DEF Missing, EntryFits, Sign
<1>3. Untimely(a, r, k) \in Sign  BY <1>1 DEF Untimely, EntryFits, Sign
<1>4. QED  BY <1>2, <1>3

\* When nothing is missing, the drift is what trades have not been booked.
LEMMA DriftOfNone ==
  ASSUME NEW a, NEW r, Countable(r), fills[a] \in Int, r.own[a] \in Int,
         NoMismatch(a, r, {})
  PROVE  Drift(r, a) = fills[a] - r.own[a]
<1>1. {} \subseteq DepositsOf(a)  OBVIOUS
<1>2. ASSUME NEW k \in Transfers PROVE Odd(a, r, {})[k] = 0
  <2>1. Odd(a, r, {})[k] = 0 * Credit(k) + 0 * Debit(k)
    BY DEF Odd, NoMismatch
  <2>2. QED  BY <2>1, AmountTypes
<1>3. Summands(Odd(a, r, {}), Transfers)  BY <1>1, Summable4
<1>4. SumFunction(Odd(a, r, {})) = 0
  <2>1. DOMAIN Odd(a, r, {}) = Transfers  BY DEF Odd
  <2>2. Total(Odd(a, r, {}), Transfers) = 0  BY <1>2, <1>3, NoneOdd
  <2>3. QED  BY <2>1, <2>2, FunctionSum
<1>5. MapThenSumSet(Signed, {}) = 0
  <2>1. Summands(Changes, {})  BY FS_EmptySet DEF Summands
  <2>2. QED  BY <2>1, ChangesSum, TotalStep
<1>6. Drift(r, a) \in Int /\ Drift(r, a) - 0 = (fills[a] - r.own[a]) + 0
  <2>1. /\ Drift(r, a) \in Int
        /\ Drift(r, a) - MapThenSumSet(Signed, {})
             = (fills[a] - r.own[a]) + SumFunction(Odd(a, r, {}))
    BY <1>1, DriftIs
  <2>2. QED  BY <1>4, <1>5, <2>1
<1>7. QED  BY <1>6

\* A change of the balance that the deposits S explain is made by them and
\* by nothing else.
LEMMA Explained ==
  ASSUME Distinguishable,
         NEW a \in Accounts, NEW r, NEW S, CopyFits(r), S \subseteq PendingDeposits(r, a),
         fills[a] \in 0..MaxFills,
         Abs(Drift(r, a) - MapThenSumSet(Signed, S)) <= Tolerance
  PROVE  NoMismatch(a, r, S)
<1> DEFINE F == Odd(a, r, S)
           c == [k \in Transfers |-> Missing(a, r, S, k)]
           d == [k \in Transfers |-> Untimely(a, r, k)]
<1>1. Countable(r)  BY DEF CopyFits, EntryFits, Countable
<1>2. S \subseteq DepositsOf(a)  BY DEF PendingDeposits, DepositsOf, IsDeposit
<1>3. /\ r.own[a] \in Int /\ fills[a] \in Int /\ MaxFills \in Nat /\ Tolerance \in Nat
      /\ fills[a] - r.own[a] \in 0..MaxFills
  BY FundsAssumption DEF CopyFits
<1>4. c \in [Transfers -> Sign] /\ d \in [Transfers -> Sign]
  <2>1. \A e \in S : r.status[e] = "IN_TRANSIT"  BY DEF PendingDeposits
  <2>2. \A e \in Entries : EntryFits(r, e)  BY DEF CopyFits
  <2>3. QED  BY <2>1, <2>2, MismatchSigns
<1>5. F = [k \in Transfers |-> c[k] * Credit(k) + d[k] * Debit(k)]  BY DEF Odd
<1>6. Abs(SumFunction(F)) <= 2 * Tolerance + MaxFills
  <2>1. /\ MapThenSumSet(Signed, S) \in Int /\ Drift(r, a) \in Int /\ SumFunction(F) \in Int
        /\ Drift(r, a) - MapThenSumSet(Signed, S) = (fills[a] - r.own[a]) + SumFunction(F)
    BY <1>1, <1>2, <1>3, DriftIs
  <2> HIDE DEF F
  <2>2. QED  BY <1>3, <2>1 DEF Abs
<1> HIDE DEF c, d
<1>7. \A k \in Transfers : c[k] = 0 /\ d[k] = 0
  BY <1>4, <1>5, <1>6 DEF Distinguishable
<1>8. QED  BY <1>7 DEF c, d, NoMismatch

-----------------------------------------------------------------------------
(* What the copies have in common with the rows.                           *)

\* What session p with copy r says of an entry it has changed, and of the
\* others: of two processes that change the same row, one is an engine that
\* completes it.
Entered(p, r, A, e) ==
  /\ NoLater(rows.status[e], r.status[e])
  /\ r.status[e] # "NONE"
  /\ IsDeposit(e) /\ r.status[e] \in {"COMPLETED", "CANCELED"} => rows.status[e] # "NONE"
  /\ r.status[e] = "IN_TRANSIT" => rows.status[e] = "NONE"
  /\ p # Tool => IsDeposit(e) /\ r.status[e] = "COMPLETED"
  /\ Account(e) \notin A => IsDeposit(e) /\ r.status[e] # "COMPLETED"

Kept(p, r, e) ==
  /\ NoLater(r.status[e], rows.status[e])
  /\ p = Tool /\ (~IsDeposit(e) \/ r.status[e] = "NONE") => r.status[e] = rows.status[e]

\* Only the engine of an account books its trades.
BooksFit(p, r) ==
  \A a \in Accounts : IF a = p THEN rows.booked[a] <= r.booked[a]
                               ELSE r.booked[a] <= rows.booked[a]

CopyInv(p, s) ==
  /\ CopyFits(s.db) /\ BooksFit(p, s.db)
  /\ ~s.done => s.wrote = {} /\ s.touched = {} /\ s.ins = NoInsert
  /\ s.ins # NoInsert => s.ins[2] \in Int
  /\ \A e \in Entries : IF e \in s.touched THEN Entered(p, s.db, s.wrote, e)
                                           ELSE Kept(p, s.db, e)

CoinsInv ==
  /\ fills \in [Accounts -> 0..MaxFills]
  /\ where \in [Transfers -> {"home", "moving", "landed", "returned"}]
  /\ CopyFits(rows)
  /\ \A p \in Processes : sess[p].on => CopyInv(p, sess[p])

LEMMA EntriesWhere ==
  ASSUME NEW e \in Entries
  PROVE  e[2] \in Transfers /\ Account(e) \in Accounts
  BY AmountTypes, EntryIs

-----------------------------------------------------------------------------
(* The steps that do no work in a session.                                 *)

\* Money goes on, and what has come to an end stays there.
Onward ==
  /\ \A a \in Accounts : fills[a] <= fills'[a]
  /\ \A k \in Transfers : where[k] \in {"landed", "returned"} => where'[k] = where[k]

LEMMA FitsOnward ==
  ASSUME NEW r, CopyFits(r), Onward, fills \in [Accounts -> 0..MaxFills],
         fills' \in [Accounts -> 0..MaxFills]
  PROVE  CopyFits(r)'
<1>1. ASSUME NEW e \in Entries PROVE EntryFits(r, e)'
  BY EntriesWhere DEF CopyFits, EntryFits, Onward
<1>2. ASSUME NEW a \in Accounts PROVE r.booked[a] <= fills'[a]
  <2>1. /\ fills[a] \in Int /\ fills'[a] \in Int /\ r.booked[a] \in Nat
        /\ r.booked[a] <= fills[a] /\ fills[a] <= fills'[a]
    BY DEF CopyFits, Onward
  <2>2. QED  BY <2>1
<1>3. QED  BY <1>1, <1>2 DEF CopyFits

LEMMA OnwardCoins ==
  ASSUME CoinsInv, Onward, UNCHANGED <<rows, sess>>,
         fills' \in [Accounts -> 0..MaxFills],
         where' \in [Transfers -> {"home", "moving", "landed", "returned"}]
  PROVE  CoinsInv'
<1>1. CopyFits(rows)'
  <2>1. PICK r : r = rows  OBVIOUS
  <2>2. CopyFits(r)'  BY <2>1, FitsOnward DEF CoinsInv
  <2>3. QED  BY <2>1, <2>2 DEF CopyFits, EntryFits
<1>2. ASSUME NEW p \in Processes, sess'[p].on PROVE CopyInv(p, sess[p])'
  <2>1. PICK s : s = sess[p]  OBVIOUS
  <2>2. CopyInv(p, s) /\ sess'[p] = s  BY <1>2, <2>1 DEF CoinsInv
  <2>3. CopyFits(s.db)'
    <3>1. PICK r : r = s.db  OBVIOUS
    <3>2. CopyFits(r)'  BY <2>2, <3>1, FitsOnward DEF CoinsInv, CopyInv
    <3>3. QED  BY <3>1, <3>2
  <2>4. CopyInv(p, s)'
    BY <2>2, <2>3 DEF CopyInv, BooksFit, Entered, Kept
  <2>5. QED  BY <2>2, <2>4 DEF CopyInv, CopyFits, EntryFits, BooksFit, Entered, Kept
<1>3. QED  BY <1>1, <1>2 DEF CoinsInv

\* A session begins or ends without leaving anything in the rows.
LEMMA BeginCoins ==
  ASSUME CoinsInv, Shape, NEW p \in Processes, Begin(p)
  PROVE  CoinsInv'
<1>1. /\ rows' = rows /\ fills' = fills /\ where' = where
      /\ \A q \in Processes \ {p} : sess'[q] = sess[q]
      /\ sess'[p] = [Closed EXCEPT !.on = TRUE, !.base = rows, !.db = rows]
  BY DEF Begin, Shape, IsFcn
<1>2. /\ sess'[p].db = rows /\ sess'[p].wrote = {} /\ sess'[p].touched = {}
      /\ sess'[p].ins = NoInsert
  BY <1>1 DEF Closed
<1>3. CopyInv(p, sess[p])'
  <2>1. \A e \in Entries : Kept(p, rows, e)  BY DEF Kept, NoLater
  <2>2. BooksFit(p, rows)  BY DEF BooksFit, CoinsInv, CopyFits
  <2>3. QED
    BY <1>1, <1>2, <2>1, <2>2 DEF CoinsInv, CopyInv, CopyFits, EntryFits, BooksFit, Kept
<1>4. ASSUME NEW q \in Processes \ {p}, sess'[q].on PROVE CopyInv(q, sess[q])'
  BY <1>1, <1>4 DEF CoinsInv, CopyInv, CopyFits, EntryFits, BooksFit, Entered, Kept
<1>5. CopyFits(rows)'  BY <1>1 DEF CoinsInv, CopyFits, EntryFits
<1>6. QED  BY <1>1, <1>3, <1>4, <1>5 DEF CoinsInv

LEMMA ClosingCoins ==
  ASSUME CoinsInv, Shape, NEW p \in Processes, sess' = [sess EXCEPT ![p] = Closed],
         UNCHANGED <<rows, fills, where>>
  PROVE  CoinsInv'
<1>1. /\ \A q \in Processes \ {p} : sess'[q] = sess[q]
      /\ ~sess'[p].on
  BY ClosedShape DEF Shape, IsFcn
<1>2. ASSUME NEW q \in Processes, sess'[q].on PROVE CopyInv(q, sess[q])'
  BY <1>1, <1>2 DEF CoinsInv, CopyInv, CopyFits, EntryFits, BooksFit, Entered, Kept
<1>3. CopyFits(rows)'  BY DEF CoinsInv, CopyFits, EntryFits
<1>4. QED  BY <1>2, <1>3 DEF CoinsInv

-----------------------------------------------------------------------------
(* A session works.                                                        *)

LEMMA WorkCoins ==
  ASSUME CoinsInv, Shape, NEW p \in Processes, NEW r, NEW A, NEW E, NEW i,
         Work(p, r, A, E, i), UNCHANGED <<fills, where>>, CopyFits(r), BooksFit(p, r),
         i # NoInsert => i[2] \in Int,
         \A e \in Entries : IF e \in E THEN Entered(p, r, A, e) ELSE Kept(p, r, e)
  PROVE  CoinsInv'
<1>1. /\ rows' = rows
      /\ \A q \in Processes \ {p} : sess'[q] = sess[q]
  BY DEF Work, Shape, IsFcn
<1>2. /\ sess'[p].db = r /\ sess'[p].wrote = A /\ sess'[p].touched = E
      /\ sess'[p].ins = i /\ sess'[p].done
  <2>1. sess'[p] = [sess[p] EXCEPT !.db = r, !.wrote = A, !.touched = E, !.ins = i,
                                   !.done = TRUE]
    BY DEF Work, Shape, IsFcn
  <2>2. sess[p] = [on |-> sess[p].on, base |-> sess[p].base, db |-> sess[p].db,
                   wrote |-> sess[p].wrote, touched |-> sess[p].touched,
                   ins |-> sess[p].ins, done |-> sess[p].done]
    BY DEF Shape, SessShape
  <2>3. QED  BY ONLY <2>1, <2>2
<1>3. CopyInv(p, sess[p])'
  BY <1>1, <1>2 DEF CopyInv, CopyFits, EntryFits, BooksFit, Entered, Kept
<1>4. ASSUME NEW q \in Processes \ {p}, sess'[q].on PROVE CopyInv(q, sess[q])'
  BY <1>1, <1>4 DEF CoinsInv, CopyInv, CopyFits, EntryFits, BooksFit, Entered, Kept
<1>5. CopyFits(rows)'  BY <1>1 DEF CoinsInv, CopyFits, EntryFits
<1>6. QED  BY <1>1, <1>3, <1>4, <1>5 DEF CoinsInv

\* What CoinsInv says of a session that works now.
LEMMA CopyNow ==
  ASSUME CoinsInv, Shape, NEW p \in Processes, sess[p].on, ~sess[p].done
  PROVE  /\ RowShape(sess[p].db) /\ CopyFits(sess[p].db) /\ BooksFit(p, sess[p].db)
         /\ \A e \in Entries : Kept(p, sess[p].db, e)
  BY DEF CoinsInv, CopyInv, Shape, SessShape

LEMMA BookFillsCoins ==
  ASSUME CoinsInv, Shape, NEW p \in Engines, BookFills(p)
  PROVE  CoinsInv'
<1> DEFINE r == sess[p].db
           d == fills[p] - r.booked[p]
           q == Booked(r, p, d)
           w == [q EXCEPT !.booked[p] = fills[p]]
<1>1. p \in Accounts /\ p \in Processes /\ p # Tool  BY FundsAssumption DEF Processes
<1>2. /\ Work(p, w, {p}, {}, <<p, d>>) /\ sess[p].on /\ ~sess[p].done
      /\ UNCHANGED <<fills, where>>
  BY DEF BookFills, Work
<1>3. /\ RowShape(r) /\ CopyFits(r) /\ BooksFit(p, r)
      /\ \A e \in Entries : Kept(p, r, e)
  BY <1>1, <1>2, CopyNow
<1>4. /\ RowShape(q)
      /\ q.cnt = r.cnt /\ q.status = r.status /\ q.booked = r.booked
      /\ \A b \in Accounts :
           /\ q.own[b] = IF b = p THEN r.own[b] + d ELSE r.own[b]
           /\ q.ledger[b] = IF b = p THEN r.ledger[b] + d ELSE r.ledger[b]
  BY <1>1, <1>3, BookedFields
<1> HIDE DEF q
<1>5. /\ w.cnt = r.cnt /\ w.status = r.status /\ w.own = q.own /\ w.ledger = q.ledger
      /\ \A b \in Accounts : w.booked[b] = IF b = p THEN fills[p] ELSE r.booked[b]
  <2>1. w = [own |-> q.own, cnt |-> q.cnt, status |-> q.status, ledger |-> q.ledger,
             booked |-> [q.booked EXCEPT ![p] = fills[p]]]
    BY <1>4 DEF RowShape
  <2> HIDE DEF w, r, d
  <2>2. /\ w.own = q.own /\ w.cnt = q.cnt /\ w.status = q.status /\ w.ledger = q.ledger
        /\ w.booked = [q.booked EXCEPT ![p] = fills[p]]
    BY <2>1
  <2>3. QED  BY <1>4, <2>2 DEF RowShape, IsFcn
<1>6. /\ fills[p] \in Nat /\ d \in Int
      /\ \A b \in Accounts : /\ r.own[b] \in Nat /\ r.booked[b] \in Nat /\ r.ledger[b] \in Int
                             /\ r.own[b] <= r.booked[b] /\ r.booked[b] <= fills[b]
      /\ r.own[p] + d <= fills[p] /\ r.own[p] + d \in Nat
  <2>1. /\ \A b \in Accounts : /\ r.own[b] \in Nat /\ r.booked[b] \in Nat /\ r.ledger[b] \in Int
                               /\ r.own[b] <= r.booked[b] /\ r.booked[b] <= fills[b]
    BY <1>3 DEF CopyFits
  <2>2. fills[p] \in Nat  BY <1>1, FundsAssumption DEF CoinsInv
  <2> HIDE DEF r
  <2>3. QED  BY <1>1, <2>1, <2>2
<1> HIDE DEF w, r
<1>7. CopyFits(w)
  <2>1. \A e \in Entries : EntryFits(w, e)  BY <1>3, <1>5 DEF CopyFits, EntryFits
  <2>2. ASSUME NEW b \in Accounts
        PROVE  /\ w.own[b] \in Nat /\ w.booked[b] \in Nat /\ w.ledger[b] \in Int
               /\ w.own[b] <= w.booked[b] /\ w.booked[b] <= fills[b]
    <3> HIDE DEF d
    <3>1. CASE b = p  BY <1>4, <1>5, <1>6, <3>1
    <3>2. CASE b # p  BY <1>4, <1>5, <1>6, <3>2
    <3>3. QED  BY <3>1, <3>2
  <2>3. QED  BY <2>1, <2>2 DEF CopyFits
<1>8. BooksFit(p, w)
  BY <1>1, <1>3, <1>5 DEF BooksFit, CoinsInv, CopyFits
<1>9. \A e \in Entries : Kept(p, w, e)  BY <1>3, <1>5 DEF Kept
<1>10. <<p, d>>[2] \in Int  BY <1>6
<1> HIDE DEF d
<1>11. QED  BY <1>1, <1>2, <1>7, <1>8, <1>9, <1>10, WorkCoins

LEMMA AuditFailsCoins ==
  ASSUME CoinsInv, Shape, NEW p \in Engines, AuditFails(p)
  PROVE  CoinsInv'
<1>1. p \in Processes  BY DEF Processes
<1>2. /\ Work(p, sess[p].db, {}, {}, NoInsert) /\ sess[p].on /\ ~sess[p].done
      /\ UNCHANGED <<fills, where>>
  BY DEF AuditFails, Work
<1>3. QED  BY <1>1, <1>2, CopyNow, WorkCoins

\* An audit completes deposits that have landed, all of them, and the drift
\* it records is what it has not booked.
LEMMA AuditSees ==
  ASSUME Distinguishable, CoinsInv, Shape, NEW p \in Engines, Audit(p)
  PROVE  \E S : /\ S \subseteq PendingDeposits(sess[p].db, p)
                /\ Audited(p, sess[p].db, S)
                /\ NoMismatch(p, sess[p].db, S)
                /\ NoMismatch(p, Completed(sess[p].db, S), {})
                /\ \A e \in S : where[e[2]] = "landed"
<1> DEFINE r == sess[p].db
<1>1. p \in Accounts /\ p \in Processes  BY FundsAssumption DEF Processes
<1>2. PICK S \in Expected(r, p, Drift(r, p)) : Audited(p, r, S)  BY DEF Audit
<1>3. S \subseteq PendingDeposits(r, p)  BY <1>2, ExpectedPending
<1>4. sess[p].on /\ ~sess[p].done  BY <1>2 DEF Audited, Work
<1>5. RowShape(r) /\ CopyFits(r)  BY <1>1, <1>4, CopyNow
<1>6. fills[p] \in 0..MaxFills /\ fills[p] \in Int /\ r.own[p] \in Int
  BY <1>1, <1>5 DEF CoinsInv, CopyFits
<1>7. S \subseteq DepositsOf(p) /\ Countable(r)
  BY <1>3, <1>5 DEF PendingDeposits, DepositsOf, IsDeposit, CopyFits, EntryFits, Countable
<1> HIDE DEF r
<1>8. MapThenSumSet(Signed, S) \in Int /\ Drift(r, p) \in Int
  BY <1>6, <1>7, DriftIs
<1>9. Abs(Drift(r, p) - MapThenSumSet(Signed, S)) <= Tolerance
  <2>0. Tolerance \in Nat  BY FundsAssumption
  <2>1. CASE CloseEnough(0, Drift(r, p))
    <3>1. S = {}  BY <1>2, <2>1 DEF Expected
    <3>2. MapThenSumSet(Signed, {}) = 0
      <4>1. Summands(Changes, {})  BY FS_EmptySet DEF Summands
      <4>2. QED  BY <4>1, ChangesSum, TotalStep
    <3>3. QED  BY <1>8, <2>0, <2>1, <3>1, <3>2 DEF CloseEnough, Abs
  <2>2. CASE ~CloseEnough(0, Drift(r, p))
    <3>1. CloseEnough(MapThenSumSet(Signed, S), Drift(r, p))
      BY <1>2, <2>2 DEF Expected, Landed, Matches
    <3>2. QED  BY <1>8, <2>0, <3>1 DEF CloseEnough, Abs
  <2>3. QED  BY <2>1, <2>2
<1>10. NoMismatch(p, r, S)  BY <1>1, <1>3, <1>5, <1>6, <1>9, Explained
<1>11. ASSUME NEW e \in S PROVE where[e[2]] = "landed"
  <2>1. e \in Entries /\ IsDeposit(e) /\ Account(e) = p /\ r.status[e] = "IN_TRANSIT"
    BY <1>3 DEF PendingDeposits, IsDeposit
  <2>2. e[2] \in Transfers /\ e = Deposit(e[2]) /\ To[e[2]] = p  BY <2>1, EntryIs
  <2>3. r.cnt[e] = 0  BY <1>5, <2>1 DEF CopyFits, EntryFits
  <2>4. Missing(p, r, S, e[2]) = 0  BY <1>10, <2>2 DEF NoMismatch
  <2>5. QED  BY <2>2, <2>3, <2>4 DEF Missing
<1>12. NoMismatch(p, Completed(r, S), {})
  <2> DEFINE t == Completed(r, S)
  <2>1. \A e \in Entries : t.cnt[e] = IF e \in S THEN r.cnt[e] + 1 ELSE r.cnt[e]
    BY <1>5, CompletedFields
  <2> HIDE DEF t
  <2>2. ASSUME NEW k \in Transfers
        PROVE  Missing(p, t, {}, k) = 0 /\ Untimely(p, t, k) = 0
    <3>1. Missing(p, r, S, k) = 0 /\ Untimely(p, r, k) = 0  BY <1>10 DEF NoMismatch
    <3>2. /\ Deposit(k) \in Entries /\ Withdrawal(k) \in Entries
          /\ r.cnt[Deposit(k)] \in Int /\ r.cnt[Withdrawal(k)] \in Int
          /\ Withdrawal(k) \notin S
      BY <1>7, TransferIs DEF Countable, DepositsOf
    <3>3. Untimely(p, t, k) = Untimely(p, r, k)  BY <2>1, <3>2 DEF Untimely
    <3>4. Missing(p, t, {}, k) = Missing(p, r, S, k)
      <4>1. CASE Deposit(k) \in S
        <5>1. t.cnt[Deposit(k)] = r.cnt[Deposit(k)] + 1  BY <2>1, <3>2, <4>1
        <5>2. QED  BY <3>2, <4>1, <5>1 DEF Missing
      <4>2. CASE Deposit(k) \notin S
        <5>1. t.cnt[Deposit(k)] = r.cnt[Deposit(k)]  BY <2>1, <3>2, <4>2
        <5>2. QED  BY <3>2, <4>2, <5>1 DEF Missing
      <4>3. QED  BY <4>1, <4>2
    <3>5. QED  BY <3>1, <3>3, <3>4
  <2>3. QED  BY <2>2 DEF NoMismatch, t
<1>13. QED  BY <1>2, <1>3, <1>10, <1>11, <1>12 DEF r

LEMMA AuditCoins ==
  ASSUME Distinguishable, CoinsInv, Shape, NEW p \in Engines, Audit(p)
  PROVE  CoinsInv'
<1> DEFINE r == sess[p].db
<1>1. p \in Accounts /\ p \in Processes /\ p # Tool  BY FundsAssumption DEF Processes
<1>2. PICK S : /\ S \subseteq PendingDeposits(r, p) /\ Audited(p, r, S)
               /\ NoMismatch(p, Completed(r, S), {})
               /\ \A e \in S : where[e[2]] = "landed"
  BY AuditSees
<1>3. \A e \in S : /\ e \in Entries /\ IsDeposit(e) /\ Account(e) = p
                   /\ r.status[e] = "IN_TRANSIT" /\ where[e[2]] = "landed"
  BY <1>2 DEF PendingDeposits, IsDeposit
<1> DEFINE t == Completed(r, S)
           d == Drift(t, p)
           w == IF d = 0 THEN t ELSE Booked(t, p, d)
           A == IF d = 0 /\ S = {} THEN {} ELSE {p}
           i == IF d = 0 THEN NoInsert ELSE <<p, d>>
<1>4. /\ Work(p, w, A, S, i) /\ sess[p].on /\ ~sess[p].done
      /\ UNCHANGED <<fills, where>>
  BY <1>2 DEF Audited, Work
<1>5. /\ RowShape(r) /\ CopyFits(r) /\ BooksFit(p, r)
      /\ \A e \in Entries : Kept(p, r, e)
  BY <1>1, <1>4, CopyNow
<1>6. fills[p] \in Nat /\ r.booked[p] = fills[p]
  <2>1. fills[p] \in Nat  BY <1>1, FundsAssumption DEF CoinsInv
  <2>2. ~(r.booked[p] < fills[p])  BY DEF Audit, Booking
  <2>3. r.booked[p] \in Nat /\ r.booked[p] <= fills[p]  BY <1>1, <1>5 DEF CopyFits
  <2> HIDE DEF r
  <2>4. QED  BY <2>1, <2>2, <2>3
<1>7. /\ RowShape(t) /\ t.own = r.own /\ t.ledger = r.ledger /\ t.booked = r.booked
      /\ \A e \in Entries :
           /\ t.status[e] = IF e \in S THEN "COMPLETED" ELSE r.status[e]
           /\ t.cnt[e] = IF e \in S THEN r.cnt[e] + 1 ELSE r.cnt[e]
  BY <1>5, CompletedFields
<1>8. /\ \A b \in Accounts : /\ r.own[b] \in Nat /\ r.booked[b] \in Nat /\ r.ledger[b] \in Int
                             /\ r.own[b] <= r.booked[b] /\ r.booked[b] <= fills[b]
      /\ \A e \in Entries : EntryFits(r, e) /\ r.cnt[e] \in Int
  BY <1>5 DEF CopyFits, EntryFits
<1>9. d = fills[p] - r.own[p]
  <2>1. Countable(t)  BY <1>7, <1>8 DEF Countable
  <2>2. NoMismatch(p, t, {})  BY <1>2
  <2> HIDE DEF t
  <2>3. t.own[p] \in Int /\ fills[p] \in Int  BY <1>1, <1>6, <1>7, <1>8
  <2>4. QED  BY <1>7, <2>1, <2>2, <2>3, DriftOfNone
<1> HIDE DEF t, d
<1>10. /\ w.cnt = t.cnt /\ w.status = t.status /\ w.booked = r.booked
       /\ \A b \in Accounts :
            /\ w.own[b] = IF d # 0 /\ b = p THEN r.own[b] + d ELSE r.own[b]
            /\ w.ledger[b] = IF d # 0 /\ b = p THEN r.ledger[b] + d ELSE r.ledger[b]
  BY <1>1, <1>7, BookedFields
<1>11. i # NoInsert => i[2] \in Int
  BY <1>1, <1>6, <1>8, <1>9 DEF NoInsert
<1> HIDE DEF w, i, r
<1>12. CopyFits(w)
  <2>1. ASSUME NEW e \in Entries PROVE EntryFits(w, e)
    <3>1. CASE e \in S
      <4>1. r.cnt[e] = 0 /\ IsDeposit(e) /\ where[e[2]] = "landed"
        BY <1>3, <1>8, <3>1 DEF EntryFits
      <4>2. w.cnt[e] = 1 /\ w.status[e] = "COMPLETED"  BY <1>7, <1>10, <3>1, <4>1
      <4>3. QED  BY <4>1, <4>2 DEF EntryFits, Status
    <3>2. CASE e \notin S
      BY <1>7, <1>8, <1>10, <3>2 DEF EntryFits
    <3>3. QED  BY <3>1, <3>2
  <2>2. ASSUME NEW b \in Accounts
        PROVE  /\ w.own[b] \in Nat /\ w.booked[b] \in Nat /\ w.ledger[b] \in Int
               /\ w.own[b] <= w.booked[b] /\ w.booked[b] <= fills[b]
    <3>1. CASE b = p  BY <1>1, <1>6, <1>8, <1>9, <1>10, <3>1
    <3>2. CASE b # p  BY <1>8, <1>10, <3>2
    <3>3. QED  BY <3>1, <3>2
  <2>3. QED  BY <2>1, <2>2 DEF CopyFits
<1>13. BooksFit(p, w)  BY <1>5, <1>10 DEF BooksFit
<1>14. ASSUME NEW e \in Entries
       PROVE  IF e \in S THEN Entered(p, w, A, e) ELSE Kept(p, w, e)
  <2>1. CASE e \in S
    <3>1. w.status[e] = "COMPLETED" /\ IsDeposit(e) /\ Account(e) \in A
      BY <1>3, <1>7, <1>10, <2>1
    <3>2. rows.status[e] \in Status /\ rows.status[e] # "CANCELED"
      BY <1>3, <2>1 DEF CoinsInv, CopyFits, EntryFits
    <3>3. rows.status[e] # "NONE"  BY <1>3, <1>5, <2>1 DEF Kept, NoLater
    <3>4. QED  BY <2>1, <3>1, <3>2, <3>3 DEF Entered, NoLater, Status
  <2>2. CASE e \notin S  BY <1>5, <1>7, <1>10, <2>2 DEF Kept
  <2>3. QED  BY <2>1, <2>2
<1> HIDE DEF A
<1>15. QED  BY <1>1, <1>4, <1>11, <1>12, <1>13, <1>14, WorkCoins

\* A tool that changes the statuses and the balance of some entries.
LEMMA ToolCoins ==
  ASSUME CoinsInv, Shape, NEW w, NEW a \in Accounts, NEW E, E \subseteq Entries,
         Work(Tool, w, {a}, E, NoInsert), UNCHANGED <<fills, where>>,
         w.own = sess[Tool].db.own, w.ledger = sess[Tool].db.ledger,
         w.booked = sess[Tool].db.booked,
         \A e \in Entries \ E : w.status[e] = sess[Tool].db.status[e]
                                /\ w.cnt[e] = sess[Tool].db.cnt[e],
         \A e \in E : EntryFits(w, e) /\ Entered(Tool, w, {a}, e)
  PROVE  CoinsInv'
<1> DEFINE r == sess[Tool].db
<1>1. Tool \in Processes /\ sess[Tool].on /\ ~sess[Tool].done  BY DEF Processes, Work
<1>2. /\ RowShape(r) /\ CopyFits(r) /\ BooksFit(Tool, r)
      /\ \A e \in Entries : Kept(Tool, r, e)
  BY <1>1, CopyNow
<1>3. CopyFits(w)  BY <1>2 DEF CopyFits, EntryFits
<1>4. BooksFit(Tool, w)  BY <1>2 DEF BooksFit
<1>5. \A e \in Entries : IF e \in E THEN Entered(Tool, w, {a}, e) ELSE Kept(Tool, w, e)
  BY <1>2 DEF Kept
<1>6. QED  BY <1>1, <1>3, <1>4, <1>5, WorkCoins

LEMMA ToolNow ==
  ASSUME CoinsInv, Shape, sess[Tool].on, ~sess[Tool].done
  PROVE  /\ RowShape(sess[Tool].db)
         /\ \A e \in Entries : EntryFits(sess[Tool].db, e) /\ Kept(Tool, sess[Tool].db, e)
         /\ \A e \in Entries : EntryFits(rows, e)
<1>1. Tool \in Processes  BY DEF Processes
<1>2. QED  BY <1>1, CopyNow DEF CopyFits, CoinsInv

LEMMA RecordWithdrawalCoins ==
  ASSUME CoinsInv, Shape, NEW k \in Transfers, RecordWithdrawal(k)
  PROVE  CoinsInv'
<1> DEFINE r == sess[Tool].db
           W == Withdrawal(k)
           D == Deposit(k)
           t == Completed(r, {W})
           w == SetStatus(t, {D}, "IN_TRANSIT")
<1>1. From[k] \in Accounts  BY FundsAssumption
<1>2. /\ Work(Tool, w, {From[k]}, {W, D}, NoInsert) /\ UNCHANGED <<fills, where>>
      /\ sess[Tool].on /\ ~sess[Tool].done
      /\ r.status[W] = "NONE" /\ r.status[D] = "NONE"
  BY DEF RecordWithdrawal, Work
<1>3. /\ W \in Entries /\ D \in Entries /\ W # D /\ Account(W) = From[k]
      /\ IsDeposit(D) /\ ~IsDeposit(W)
  BY TransferIs
<1>4. /\ RowShape(r) /\ EntryFits(r, W) /\ EntryFits(r, D)
      /\ Kept(Tool, r, W) /\ Kept(Tool, r, D)
  BY <1>2, <1>3, ToolNow
<1>5. /\ RowShape(t) /\ t.own = r.own /\ t.ledger = r.ledger /\ t.booked = r.booked
      /\ \A e \in Entries :
           /\ t.status[e] = IF e \in {W} THEN "COMPLETED" ELSE r.status[e]
           /\ t.cnt[e] = IF e \in {W} THEN r.cnt[e] + 1 ELSE r.cnt[e]
  BY <1>4, CompletedFields
<1> HIDE DEF t
<1>6. /\ w.own = r.own /\ w.ledger = r.ledger /\ w.booked = r.booked /\ w.cnt = t.cnt
      /\ \A e \in Entries : w.status[e] = IF e \in {D} THEN "IN_TRANSIT" ELSE t.status[e]
  BY <1>5, SetStatusFields
<1> HIDE DEF w, r, W, D
<1>7. /\ r.cnt[W] = 0 /\ r.cnt[D] = 0
      /\ rows.status[W] = "NONE" /\ rows.status[D] = "NONE"
  BY <1>2, <1>3, <1>4 DEF EntryFits, Kept
<1>8. /\ w.status[W] = "COMPLETED" /\ w.cnt[W] = 1
      /\ w.status[D] = "IN_TRANSIT" /\ w.cnt[D] = 0
  BY <1>3, <1>5, <1>6, <1>7
<1>9. EntryFits(w, W) /\ Entered(Tool, w, {From[k]}, W)
  BY <1>3, <1>7, <1>8 DEF EntryFits, Entered, NoLater, Status
<1>10. EntryFits(w, D) /\ Entered(Tool, w, {From[k]}, D)
  BY <1>3, <1>7, <1>8 DEF EntryFits, Entered, NoLater, Status
<1>11. \A e \in Entries \ {W, D} : w.status[e] = r.status[e] /\ w.cnt[e] = r.cnt[e]
  BY <1>5, <1>6
<1> DEFINE E == {W, D}
<1>12. /\ Work(Tool, w, {From[k]}, E, NoInsert) /\ E \subseteq Entries
       /\ \A e \in E : EntryFits(w, e) /\ Entered(Tool, w, {From[k]}, e)
       /\ \A e \in Entries \ E : w.status[e] = r.status[e] /\ w.cnt[e] = r.cnt[e]
  BY <1>2, <1>3, <1>9, <1>10, <1>11
<1> HIDE DEF E
<1>13. QED  BY <1>1, <1>2, <1>6, <1>12, ToolCoins DEF r

LEMMA TransactionCompleteCoins ==
  ASSUME CoinsInv, Shape, NEW a \in Accounts, TransactionComplete(a)
  PROVE  CoinsInv'
<1> DEFINE r == sess[Tool].db
<1>1. PICK e \in PendingDeposits(r, a) : Work(Tool, Completed(r, {e}), {a}, {e}, NoInsert)
  BY DEF TransactionComplete
<1> DEFINE w == Completed(r, {e})
<1>2. /\ e \in Entries /\ Account(e) = a /\ IsDeposit(e)
      /\ r.status[e] = "IN_TRANSIT" /\ where[e[2]] = "landed"
  BY <1>1 DEF PendingDeposits, IsDeposit, TransactionComplete
<1>3. /\ Work(Tool, w, {a}, {e}, NoInsert) /\ UNCHANGED <<fills, where>>
      /\ sess[Tool].on /\ ~sess[Tool].done
  BY <1>1 DEF Work
<1>4. /\ RowShape(r) /\ EntryFits(r, e) /\ Kept(Tool, r, e) /\ EntryFits(rows, e)
  BY <1>2, <1>3, ToolNow
<1>5. /\ w.own = r.own /\ w.ledger = r.ledger /\ w.booked = r.booked
      /\ \A f \in Entries :
           /\ w.status[f] = IF f \in {e} THEN "COMPLETED" ELSE r.status[f]
           /\ w.cnt[f] = IF f \in {e} THEN r.cnt[f] + 1 ELSE r.cnt[f]
  BY <1>4, CompletedFields
<1> HIDE DEF w, r
<1>6. r.cnt[e] = 0 /\ w.cnt[e] = 1 /\ w.status[e] = "COMPLETED"
  BY <1>2, <1>4, <1>5 DEF EntryFits
<1>7. rows.status[e] \in Status /\ rows.status[e] \notin {"NONE", "CANCELED"}
  BY <1>2, <1>4 DEF EntryFits, Kept, NoLater
<1>8. EntryFits(w, e)  BY <1>2, <1>6 DEF EntryFits, Status
<1>9. Entered(Tool, w, {a}, e)  BY <1>2, <1>6, <1>7 DEF Entered, NoLater, Status
<1>10. \A f \in Entries \ {e} : w.status[f] = r.status[f] /\ w.cnt[f] = r.cnt[f]
  BY <1>5
<1>11. QED  BY <1>2, <1>3, <1>5, <1>8, <1>9, <1>10, ToolCoins DEF r

LEMMA CancelTransferCoins ==
  ASSUME CoinsInv, Shape, NEW k \in Transfers, CancelTransfer(k)
  PROVE  CoinsInv'
<1> DEFINE r == sess[Tool].db
           W == Withdrawal(k)
           D == Deposit(k)
           C == {e \in {W, D} : r.status[e] = "COMPLETED"}
           t == SetStatus(r, {W, D}, "CANCELED")
           w == Cancelled(r, {W, D})
<1>1. From[k] \in Accounts  BY FundsAssumption
<1>2. /\ Work(Tool, w, {From[k]}, {W, D}, NoInsert) /\ UNCHANGED <<fills, where>>
      /\ sess[Tool].on /\ ~sess[Tool].done
      /\ r.status[D] = "IN_TRANSIT" /\ where[k] = "returned"
  BY DEF CancelTransfer, Work
<1>3. /\ W \in Entries /\ D \in Entries /\ W # D /\ Account(W) = From[k]
      /\ IsDeposit(D) /\ ~IsDeposit(W) /\ W[2] = k /\ D[2] = k
  BY TransferIs
<1>4. /\ RowShape(r) /\ EntryFits(r, W) /\ EntryFits(r, D)
      /\ Kept(Tool, r, W) /\ Kept(Tool, r, D)
  BY <1>2, <1>3, ToolNow
<1>5. /\ RowShape(t) /\ t.own = r.own /\ t.cnt = r.cnt /\ t.ledger = r.ledger
      /\ t.booked = r.booked
      /\ \A e \in Entries : t.status[e] = IF e \in {W, D} THEN "CANCELED" ELSE r.status[e]
  BY <1>4, SetStatusFields
<1>6. w = Count(t, C, -1)  BY DEF Cancelled
<1> HIDE DEF t, w
<1>7. /\ w.own = r.own /\ w.ledger = r.ledger /\ w.booked = r.booked /\ w.status = t.status
      /\ \A e \in Entries : w.cnt[e] = IF e \in C THEN r.cnt[e] + (-1) ELSE r.cnt[e]
  BY <1>5, <1>6, CountFields
<1> HIDE DEF r, W, D
<1>8. w.status[W] = "CANCELED" /\ w.status[D] = "CANCELED"
  BY <1>3, <1>5, <1>7
<1>9. w.cnt[D] = 0  BY <1>2, <1>3, <1>4, <1>7 DEF EntryFits
<1>10. w.cnt[W] \in {-1, 0, 1}
  BY <1>3, <1>4, <1>7 DEF EntryFits
<1>11. rows.status[D] # "NONE"  BY <1>2, <1>4 DEF Kept, NoLater
<1>12. EntryFits(w, W) /\ Entered(Tool, w, {From[k]}, W)
  BY <1>2, <1>3, <1>8, <1>10 DEF EntryFits, Entered, NoLater, Status
<1>13. EntryFits(w, D) /\ Entered(Tool, w, {From[k]}, D)
  BY <1>2, <1>3, <1>8, <1>9, <1>11 DEF EntryFits, Entered, NoLater, Status
<1>14. \A e \in Entries \ {W, D} : w.status[e] = r.status[e] /\ w.cnt[e] = r.cnt[e]
  BY <1>5, <1>7
<1> DEFINE E == {W, D}
<1>15. /\ Work(Tool, w, {From[k]}, E, NoInsert) /\ E \subseteq Entries
       /\ \A e \in E : EntryFits(w, e) /\ Entered(Tool, w, {From[k]}, e)
       /\ \A e \in Entries \ E : w.status[e] = r.status[e] /\ w.cnt[e] = r.cnt[e]
  BY <1>2, <1>3, <1>12, <1>13, <1>14
<1> HIDE DEF E
<1>16. QED  BY <1>1, <1>2, <1>7, <1>15, ToolCoins DEF r

LEMMA ResetBalanceCoins ==
  ASSUME CoinsInv, Shape, NEW a \in Accounts, ResetBalance(a)
  PROVE  CoinsInv'
<1> DEFINE r == sess[Tool].db
           t == [r EXCEPT !.own[a] = r.ledger[a],
                          !.cnt = [e \in Entries |->
                            IF Account(e) = a THEN Done(r, e) ELSE @[e]]]
           d == Drift(t, a)
           w == IF d = 0 THEN t ELSE Booked(t, a, d)
           i == IF d = 0 THEN NoInsert ELSE <<a, d>>
<1>1. Tool \in Processes /\ Tool # a  BY FundsAssumption DEF Processes
<1>2. /\ Work(Tool, w, {a}, {}, i) /\ sess[Tool].on /\ ~sess[Tool].done
      /\ UNCHANGED <<fills, where>>
      /\ Quiet(r, a) /\ fills[a] = r.booked[a]
  BY DEF ResetBalance, Work
<1>3. /\ RowShape(r) /\ CopyFits(r) /\ BooksFit(Tool, r)
      /\ \A e \in Entries : Kept(Tool, r, e)
  BY <1>1, <1>2, CopyNow
<1>4. /\ RowShape(t) /\ t.status = r.status /\ t.ledger = r.ledger /\ t.booked = r.booked
      /\ \A b \in Accounts : t.own[b] = IF b = a THEN r.ledger[a] ELSE r.own[b]
      /\ \A e \in Entries : t.cnt[e] = IF Account(e) # a THEN r.cnt[e]
                                       ELSE IF r.status[e] = "COMPLETED" THEN 1 ELSE 0
  <2> DEFINE O == [r.own EXCEPT ![a] = r.ledger[a]]
             C == [e \in Entries |-> IF Account(e) = a THEN Done(r, e) ELSE r.cnt[e]]
  <2>1. t = [own |-> O, cnt |-> C,
             status |-> r.status, ledger |-> r.ledger, booked |-> r.booked]
    <3>1. t = [r EXCEPT !.own = O, !.cnt = C]  OBVIOUS
    <3>2. r = [own |-> r.own, cnt |-> r.cnt, status |-> r.status,
               ledger |-> r.ledger, booked |-> r.booked]
      BY <1>3 DEF RowShape
    <3> HIDE DEF t, O, C, r
    <3>3. QED  BY <3>1, <3>2
  <2> HIDE DEF t, r
  <2>2. /\ t.own = O /\ t.cnt = C
        /\ t.status = r.status /\ t.ledger = r.ledger /\ t.booked = r.booked
    BY <2>1
  <2>3. IsFcn(t.own, Accounts) /\ IsFcn(t.cnt, Entries)
        /\ \A b \in Accounts : t.own[b] = IF b = a THEN r.ledger[a] ELSE r.own[b]
    BY <1>3, <2>2 DEF RowShape, IsFcn
  <2>4. RowShape(t)  BY <1>3, <2>1, <2>2, <2>3 DEF RowShape
  <2>5. QED  BY <2>2, <2>3, <2>4 DEF Done
<1> HIDE DEF t, r
<1>5. /\ \A b \in Accounts : /\ r.own[b] \in Nat /\ r.booked[b] \in Nat /\ r.ledger[b] \in Int
                             /\ r.own[b] <= r.booked[b] /\ r.booked[b] <= fills[b]
      /\ \A e \in Entries : EntryFits(r, e)
      /\ fills[a] \in Nat
  BY <1>2, <1>3, FundsAssumption DEF CopyFits
<1>6. NoMismatch(a, t, {})
  <2> SUFFICES ASSUME NEW k \in Transfers
               PROVE  Missing(a, t, {}, k) = 0 /\ Untimely(a, t, k) = 0
    BY DEF NoMismatch
  <2>1. /\ Deposit(k) \in Entries /\ Account(Deposit(k)) = To[k] /\ Deposit(k)[2] = k
        /\ Withdrawal(k) \in Entries /\ Account(Withdrawal(k)) = From[k]
        /\ Withdrawal(k)[2] = k
    BY TransferIs
  <2>2. Missing(a, t, {}, k) = 0
    <3>1. CASE To[k] = a
      <4>1. t.cnt[Deposit(k)] = IF r.status[Deposit(k)] = "COMPLETED" THEN 1 ELSE 0
        BY <1>4, <2>1, <3>1
      <4>2. \/ where[k] = "home" /\ r.status[Deposit(k)] = "NONE"
            \/ where[k] = "landed" /\ r.status[Deposit(k)] = "COMPLETED"
            \/ where[k] = "returned" /\ r.status[Deposit(k)] = "CANCELED"
        BY <1>2, <2>1, <3>1 DEF Quiet
      <4>3. QED  BY <4>1, <4>2 DEF Missing
    <3>2. CASE To[k] # a  BY <3>2 DEF Missing
    <3>3. QED  BY <3>1, <3>2
  <2>3. Untimely(a, t, k) = 0
    <3>1. CASE From[k] = a
      <4>1. t.cnt[Withdrawal(k)] = IF r.status[Withdrawal(k)] = "COMPLETED" THEN 1 ELSE 0
        BY <1>4, <2>1, <3>1
      <4>2. \/ where[k] = "home" /\ r.status[Withdrawal(k)] = "NONE"
            \/ where[k] = "landed" /\ r.status[Withdrawal(k)] = "COMPLETED"
            \/ where[k] = "returned" /\ r.status[Withdrawal(k)] = "CANCELED"
        BY <1>2, <2>1, <3>1 DEF Quiet
      <4>3. QED  BY <4>1, <4>2 DEF Untimely
    <3>2. CASE From[k] # a  BY <3>2 DEF Untimely
    <3>3. QED  BY <3>1, <3>2
  <2>4. QED  BY <2>2, <2>3
<1>7. d = fills[a] - r.ledger[a]
  <2>1. Countable(t)  BY <1>4, <1>5 DEF Countable, EntryFits
  <2>2. t.own[a] \in Int /\ fills[a] \in Int /\ t.own[a] = r.ledger[a]  BY <1>4, <1>5
  <2>3. QED  BY <1>6, <2>1, <2>2, DriftOfNone
<1> HIDE DEF d
<1>8. /\ w.cnt = t.cnt /\ w.status = r.status /\ w.booked = r.booked
      /\ \A b \in Accounts :
           /\ w.own[b] = IF d # 0 /\ b = a THEN t.own[b] + d ELSE t.own[b]
           /\ w.ledger[b] = IF d # 0 /\ b = a THEN r.ledger[b] + d ELSE r.ledger[b]
  BY <1>4, BookedFields
<1>9. i # NoInsert => i[2] \in Int  BY <1>5, <1>7 DEF NoInsert
<1> HIDE DEF w, i
<1>10. CopyFits(w)
  <2>1. ASSUME NEW e \in Entries PROVE EntryFits(w, e)
    <3>1. EntryFits(r, e)  BY <1>5
    <3>2. CASE Account(e) # a  BY <1>4, <1>8, <3>1, <3>2 DEF EntryFits
    <3>3. CASE Account(e) = a
      <4>1. w.cnt[e] = IF r.status[e] = "COMPLETED" THEN 1 ELSE 0  BY <1>4, <1>8, <3>3
      <4>2. QED  BY <1>8, <3>1, <4>1 DEF EntryFits
    <3>4. QED  BY <3>2, <3>3
  <2>2. ASSUME NEW b \in Accounts
        PROVE  /\ w.own[b] \in Nat /\ w.booked[b] \in Nat /\ w.ledger[b] \in Int
               /\ w.own[b] <= w.booked[b] /\ w.booked[b] <= fills[b]
    <3>1. CASE b = a  BY <1>2, <1>4, <1>5, <1>7, <1>8, <3>1
    <3>2. CASE b # a  BY <1>4, <1>5, <1>8, <3>2
    <3>3. QED  BY <3>1, <3>2
  <2>3. QED  BY <2>1, <2>2 DEF CopyFits
<1>11. BooksFit(Tool, w)  BY <1>3, <1>8 DEF BooksFit
<1>12. \A e \in Entries : Kept(Tool, w, e)  BY <1>3, <1>8 DEF Kept
<1>13. QED  BY <1>1, <1>2, <1>9, <1>10, <1>11, <1>12, WorkCoins

-----------------------------------------------------------------------------
(* A commit.                                                               *)

LEMMA CommitCoins ==
  ASSUME CoinsInv, Shape, NEW p \in Processes, Commit(p)
  PROVE  CoinsInv'
<1> DEFINE s == sess[p]
<1>1. /\ s.on /\ s.done /\ rows' = Merged(rows, p, s) /\ UNCHANGED <<fills, where>>
  BY DEF Commit
<1>2. sess'[p] = Closed /\ \A q \in Processes \ {p} : sess'[q] = sess[q]
  BY DEF Commit, Shape, IsFcn
<1>3. CopyInv(p, s) /\ CopyFits(rows) /\ s.touched \subseteq Entries
  BY <1>1 DEF CoinsInv, Shape, SessShape
<1>4. /\ \A a \in Accounts :
           /\ rows'.own[a] = IF a \in s.wrote THEN s.db.own[a] ELSE rows.own[a]
           /\ rows'.ledger[a] = IF s.ins # NoInsert /\ s.ins[1] = a
                                THEN rows.ledger[a] + s.ins[2] ELSE rows.ledger[a]
           /\ rows'.booked[a] = IF a = p THEN s.db.booked[a] ELSE rows.booked[a]
      /\ \A e \in Entries :
           /\ rows'.cnt[e] = IF Account(e) \in s.wrote THEN s.db.cnt[e] ELSE rows.cnt[e]
           /\ rows'.status[e] = IF e \in s.touched THEN s.db.status[e] ELSE rows.status[e]
  BY <1>1, MergedFields DEF Shape
<1> HIDE DEF s
<1>5. \A a \in Accounts :
        /\ s.db.own[a] \in Nat /\ s.db.booked[a] \in Nat /\ s.db.own[a] <= s.db.booked[a]
        /\ s.db.booked[a] <= fills[a]
        /\ rows.own[a] \in Nat /\ rows.booked[a] \in Nat /\ rows.ledger[a] \in Int
        /\ rows.own[a] <= rows.booked[a] /\ rows.booked[a] <= fills[a]
        /\ fills[a] \in Int
        /\ a = p => rows.booked[a] <= s.db.booked[a]
        /\ a # p => s.db.booked[a] <= rows.booked[a]
  BY <1>3 DEF CopyInv, CopyFits, BooksFit, CoinsInv
<1>6. \A e \in Entries :
        /\ EntryFits(s.db, e) /\ EntryFits(rows, e)
        /\ e \in s.touched => Entered(p, s.db, s.wrote, e)
        /\ e \notin s.touched => Kept(p, s.db, e)
  BY <1>3 DEF CopyInv, CopyFits
<1>7. ASSUME NEW a \in Accounts
      PROVE  /\ rows'.own[a] \in Nat /\ rows'.booked[a] \in Nat /\ rows'.ledger[a] \in Int
             /\ rows'.own[a] <= rows'.booked[a] /\ rows'.booked[a] <= fills[a]
             /\ rows.booked[a] <= rows'.booked[a]
  <2>1. rows'.ledger[a] \in Int
    <3>1. s.ins # NoInsert => s.ins[2] \in Int  BY <1>3 DEF CopyInv
    <3>2. QED  BY <1>4, <1>5, <3>1
  <2>2. CASE a = p  BY <1>4, <1>5, <2>1, <2>2
  <2>3. CASE a # p  BY <1>4, <1>5, <2>1, <2>3
  <2>4. QED  BY <2>2, <2>3
<1>8. ASSUME NEW e \in Entries PROVE EntryFits(rows', e)
  <2>1. /\ EntryFits(s.db, e) /\ EntryFits(rows, e)
        /\ e \in s.touched => Entered(p, s.db, s.wrote, e)
        /\ e \notin s.touched => Kept(p, s.db, e)
    BY <1>6
  <2>2. CASE e \in s.touched /\ Account(e) \in s.wrote
    BY <1>4, <2>1, <2>2 DEF EntryFits
  <2>3. CASE e \notin s.touched /\ Account(e) \notin s.wrote
    BY <1>4, <2>1, <2>3 DEF EntryFits
  <2>4. CASE e \notin s.touched /\ Account(e) \in s.wrote
    BY <1>4, <2>1, <2>4 DEF EntryFits, Kept, NoLater, Status
  <2>5. CASE e \in s.touched /\ Account(e) \notin s.wrote
    BY <1>4, <2>1, <2>5 DEF EntryFits, Entered, Status
  <2>6. QED  BY <2>2, <2>3, <2>4, <2>5
<1>9. CopyFits(rows)'
  <2>1. PICK r : r = rows'  OBVIOUS
  <2>2. CopyFits(r)  BY <1>7, <1>8, <2>1 DEF CopyFits
  <2>3. QED  BY <1>1, <2>1, <2>2 DEF CopyFits, EntryFits
<1>10. ASSUME NEW q \in Processes, sess'[q].on PROVE CopyInv(q, sess[q])'
  <2>1. q # p /\ sess[q].on  BY <1>2, <1>10, ClosedShape
  <2>2. sess'[q] = sess[q]  BY <1>2, <2>1
  <2>3. PICK t : t = sess[q]  OBVIOUS
  <2>4. CopyInv(q, t)  BY <2>1, <2>3 DEF CoinsInv
  <2>5. ASSUME NEW a \in Accounts
        PROVE  IF a = q THEN rows'.booked[a] <= t.db.booked[a]
                        ELSE t.db.booked[a] <= rows'.booked[a]
    <3>1. /\ a = q => rows.booked[a] <= t.db.booked[a]
          /\ a # q => t.db.booked[a] <= rows.booked[a]
          /\ t.db.booked[a] \in Nat
      BY <2>4 DEF CopyInv, BooksFit, CopyFits
    <3>2. rows.booked[a] \in Nat /\ rows'.booked[a] \in Nat
          /\ rows.booked[a] <= rows'.booked[a]
      BY <1>5, <1>7
    <3>3. a = q => rows'.booked[a] = rows.booked[a]  BY <1>4, <2>1
    <3>4. QED  BY <3>1, <3>2, <3>3
  <2>6. ASSUME NEW e \in Entries, e \in t.touched PROVE Entered(q, t.db, t.wrote, e)'
    <3>1. /\ Entered(q, t.db, t.wrote, e) /\ EntryFits(t.db, e)
          /\ EntryFits(s.db, e) /\ EntryFits(rows, e)
      BY <1>6, <2>4, <2>6 DEF CopyInv, CopyFits
    <3>2. CASE e \notin s.touched
      <4>1. rows'.status[e] = rows.status[e]  BY <1>4, <3>2
      <4>2. QED  BY <3>1, <4>1 DEF Entered
    <3>3. CASE e \in s.touched
      <4>1. rows'.status[e] = s.db.status[e] /\ Entered(p, s.db, s.wrote, e)
        BY <1>4, <1>6, <3>3
      <4>2. CASE q # Tool
        BY <3>1, <4>1, <4>2 DEF Entered, EntryFits, NoLater, Status
      <4>3. CASE p # Tool
        BY <3>1, <4>1, <4>3 DEF Entered, EntryFits, NoLater, Status
      <4>4. QED  BY <2>1, <4>2, <4>3
    <3>4. QED  BY <3>2, <3>3
  <2>7. ASSUME NEW e \in Entries, e \notin t.touched PROVE Kept(q, t.db, e)'
    <3>1. /\ Kept(q, t.db, e) /\ EntryFits(t.db, e)
          /\ EntryFits(s.db, e) /\ EntryFits(rows, e)
      BY <1>6, <2>4, <2>7 DEF CopyInv, CopyFits
    <3>2. CASE e \notin s.touched
      <4>1. rows'.status[e] = rows.status[e]  BY <1>4, <3>2
      <4>2. QED  BY <3>1, <4>1 DEF Kept
    <3>3. CASE e \in s.touched
      <4>1. rows'.status[e] = s.db.status[e] /\ Entered(p, s.db, s.wrote, e)
        BY <1>4, <1>6, <3>3
      <4>2. NoLater(t.db.status[e], rows'.status[e])
        BY <3>1, <4>1 DEF Kept, Entered, EntryFits, NoLater, Status
      <4>3. q = Tool => IsDeposit(e) /\ rows.status[e] # "NONE"
        BY <2>1, <4>1 DEF Entered
      <4>4. QED  BY <3>1, <4>2, <4>3 DEF Kept
    <3>4. QED  BY <3>2, <3>3
  <2>8. CopyFits(sess[q].db)'
    BY <1>1, <2>2, <2>3, <2>4 DEF CopyInv, CopyFits, EntryFits
  <2>9. QED
    BY <1>1, <2>2, <2>3, <2>4, <2>5, <2>6, <2>7, <2>8
    DEF CopyInv, BooksFit, Entered, Kept
<1>11. QED  BY <1>1, <1>9, <1>10 DEF CoinsInv

-----------------------------------------------------------------------------
(* All steps.                                                              *)

FundsInv == LedgerInv /\ CoinsInv /\ IsFcn(mode, Engines)

LEMMA InitFunds == ASSUME Init PROVE FundsInv
<1>1. LedgerInv  BY InitLedger
<1>2. CopyFits(rows)
  BY EntriesWhere DEF Init, CopyFits, EntryFits, EmptyRow, Status
<1>3. \A p \in Processes : ~sess[p].on  BY ClosedShape DEF Init
<1>4. fills \in [Accounts -> 0..MaxFills]  BY FundsAssumption DEF Init
<1>5. where \in [Transfers -> {"home", "moving", "landed", "returned"}]  BY DEF Init
<1>6. IsFcn(mode, Engines)  BY DEF Init, IsFcn
<1>7. QED  BY <1>1, <1>2, <1>3, <1>4, <1>5, <1>6 DEF FundsInv, CoinsInv

LEMMA WorldCoins ==
  ASSUME CoinsInv, World
  PROVE  CoinsInv'
<1>1. ASSUME NEW a \in Engines, Fill(a) PROVE CoinsInv'
  <2>1. a \in Accounts  BY FundsAssumption
  <2>2. /\ fills \in [Accounts -> 0..MaxFills] /\ MaxFills \in Nat
        /\ fills' = [fills EXCEPT ![a] = @ + 1] /\ fills[a] < MaxFills
    BY <1>1, FundsAssumption DEF CoinsInv, Fill
  <2>3. fills' \in [Accounts -> 0..MaxFills]  BY <2>1, <2>2
  <2>4. \A b \in Accounts : fills[b] <= fills'[b]  BY <2>1, <2>2
  <2>5. QED  BY <1>1, <2>3, <2>4, OnwardCoins DEF CoinsInv, Fill, Onward
<1>2. ASSUME NEW k \in Transfers, Send(k) \/ Land(k) \/ Bounce(k) PROVE CoinsInv'
  <2>1. /\ UNCHANGED <<rows, sess, fills>>
        /\ where[k] \in {"home", "moving"}
        /\ \E after \in {"moving", "landed", "returned"} : where' = [where EXCEPT ![k] = after]
    BY <1>2 DEF Send, Land, Bounce, Move
  <2>2. where \in [Transfers -> {"home", "moving", "landed", "returned"}]  BY DEF CoinsInv
  <2>3. /\ where' \in [Transfers -> {"home", "moving", "landed", "returned"}]
        /\ \A j \in Transfers : where[j] \in {"landed", "returned"} => where'[j] = where[j]
    BY <2>1, <2>2
  <2>4. \A a \in Accounts : fills[a] <= fills'[a]
    BY <2>1, FundsAssumption DEF CoinsInv
  <2>5. QED  BY <2>1, <2>3, <2>4, OnwardCoins DEF CoinsInv, Onward
<1>3. QED  BY <1>1, <1>2 DEF World

LEMMA NextCoins ==
  ASSUME Distinguishable, FundsInv, [Next]_vars
  PROVE  FundsInv'
<1> USE DEF FundsInv
<1>0. Shape /\ CoinsInv  BY DEF LedgerInv
<1>1. LedgerInv'  BY NextPreserves, FundsAssumption
<1>2. CoinsInv'
  <2>1. ASSUME NEW a \in Engines, EngineStep(a) PROVE CoinsInv'
    <3>1. a \in Processes  BY DEF Processes
    <3>2. QED
      BY <1>0, <2>1, <3>1, BeginCoins, BookFillsCoins, AuditCoins, AuditFailsCoins,
         CommitCoins
      DEF EngineStep
  <2>2. ASSUME ToolStep PROVE CoinsInv'
    <3>1. Tool \in Processes  BY DEF Processes
    <3>2. CASE ToolQuits  BY <1>0, <3>1, <3>2, ClosingCoins DEF ToolQuits
    <3>3. CASE Begin(Tool) \/ Commit(Tool)  BY <1>0, <3>1, <3>3, BeginCoins, CommitCoins
    <3>4. ASSUME NEW k \in Transfers, RecordWithdrawal(k) \/ CancelTransfer(k)
          PROVE  CoinsInv'
      BY <1>0, <3>4, RecordWithdrawalCoins, CancelTransferCoins
    <3>5. ASSUME NEW a \in Accounts, TransactionComplete(a) \/ ResetBalance(a)
          PROVE  CoinsInv'
      BY <1>0, <3>5, TransactionCompleteCoins, ResetBalanceCoins
    <3>6. QED  BY <2>2, <3>2, <3>3, <3>4, <3>5 DEF ToolStep
  <2>3. CASE World  BY <1>0, <2>3, WorldCoins
  <2>4. ASSUME NEW p \in Processes, Rollback(p) PROVE CoinsInv'
    BY <1>0, <2>4, ClosingCoins DEF Rollback
  <2>5. CASE UNCHANGED vars
    <3>1. UNCHANGED <<rows, sess, fills, where>>  BY <2>5 DEF vars
    <3>2. QED  BY <1>0, <3>1, OnwardCoins, FundsAssumption DEF CoinsInv, Onward
  <2>6. QED  BY <2>1, <2>2, <2>3, <2>4, <2>5 DEF Next
<1>3. IsFcn(mode, Engines)'
  BY DEF Next, EngineStep, ToolStep, World, Begin, BookFills, Audit, AuditFails, Commit,
         ToolQuits, RecordWithdrawal, CancelTransfer, TransactionComplete, ResetBalance,
         Fill, Send, Land, Bounce, Move, Rollback, vars, IsFcn
<1>4. QED  BY <1>1, <1>2, <1>3

\* Only an audit passes.
LEMMA PassingStep ==
  ASSUME FundsInv, [Next]_vars, NEW a, AuditPasses(a)
  PROVE  Audit(a)
<1>1. /\ a \in Engines /\ ~Booking(a) /\ sess[a].on /\ ~sess[a].done
      /\ sess'[a].done /\ mode'[a] = "trading"
      /\ a \in Processes /\ a # Tool
  BY FundsAssumption DEF AuditPasses, Processes
<1>2. IsFcn(sess, Processes) /\ IsFcn(mode, Engines)  BY DEF FundsInv, LedgerInv, Shape
<1>3. Closed.done = FALSE  BY DEF Closed
<1>4. sess' # sess  BY <1>1
<1>5. ASSUME NEW p \in Processes, sess' = [sess EXCEPT ![p] = sess'[p]] PROVE p = a
  BY <1>1, <1>2, <1>5 DEF IsFcn
<1>6. ASSUME NEW p \in Processes PROVE ~(Rollback(p) \/ Begin(p) \/ Commit(p))
  <2>1. ~Rollback(p)  BY <1>1, <1>2, <1>3 DEF Rollback, IsFcn
  <2>2. ~Begin(p)  BY <1>1, <1>2 DEF Begin, IsFcn
  <2>3. ~Commit(p)
    BY <1>1, <1>2, <1>3 DEF Commit, IsFcn
  <2>4. QED  BY <2>1, <2>2, <2>3
<1>7. ~World  BY <1>4 DEF World, Fill, Send, Land, Bounce, Move
<1>8. ~(UNCHANGED vars)  BY <1>4 DEF vars
<1>9. ~ToolStep
  <2>1. ASSUME NEW r, NEW A, NEW E, NEW i PROVE ~Work(Tool, r, A, E, i)
    BY <1>1, <1>2 DEF Work, IsFcn
  <2>2. ~ToolQuits  BY <1>1, <1>2 DEF ToolQuits, IsFcn
  <2>3. Tool \in Processes  BY DEF Processes
  <2>4. ASSUME NEW k \in Transfers PROVE ~(RecordWithdrawal(k) \/ CancelTransfer(k))
    BY <2>1 DEF RecordWithdrawal, CancelTransfer
  <2>5. ASSUME NEW b \in Accounts PROVE ~(TransactionComplete(b) \/ ResetBalance(b))
    BY <2>1 DEF TransactionComplete, ResetBalance
  <2>6. QED  BY <1>6, <2>2, <2>3, <2>4, <2>5 DEF ToolStep
<1>10. PICK b \in Engines : EngineStep(b)  BY <1>6, <1>7, <1>8, <1>9 DEF Next
<1>11. b \in Processes  BY DEF Processes
<1>12. BookFills(b) \/ Audit(b) \/ AuditFails(b)
  BY <1>6, <1>10, <1>11 DEF EngineStep
<1>13. b = a
  <2>1. \A q \in Processes \ {b} : sess'[q] = sess[q]
    BY <1>2, <1>12 DEF BookFills, Audit, Audited, AuditFails, Work, IsFcn
  <2>2. QED  BY <1>1, <2>1
<1>14. ~BookFills(a)  BY <1>1 DEF BookFills
<1>15. ~AuditFails(a)
  <2>1. SUFFICES ASSUME AuditFails(a) PROVE FALSE  OBVIOUS
  <2>2. mode' = [mode EXCEPT ![a] = "recovery"]  BY <2>1 DEF AuditFails
  <2>3. mode'[a] = "recovery"  BY <1>1, <1>2, <2>2 DEF IsFcn
  <2>4. QED  BY <1>1, <2>3
<1>16. QED  BY <1>12, <1>13, <1>14, <1>15

\* After an audit, no deposit that landed on its account is left in transit.
LEMMA AuditLeavesNone ==
  ASSUME Distinguishable, FundsInv, NEW a \in Engines, Audit(a), NEW k \in Transfers, To[k] = a,
         where[k] = "landed"
  PROVE  sess'[a].db.status[Deposit(k)] # "IN_TRANSIT"
<1> DEFINE r == sess[a].db
           D == Deposit(k)
<1>1. CoinsInv /\ Shape /\ a \in Accounts /\ a \in Processes
  BY FundsAssumption DEF FundsInv, LedgerInv, Processes
<1>2. PICK S : /\ S \subseteq PendingDeposits(r, a) /\ Audited(a, r, S)
               /\ NoMismatch(a, r, S)
  BY <1>1, AuditSees
<1> DEFINE t == Completed(r, S)
           d == Drift(t, a)
           w == IF d = 0 THEN t ELSE Booked(t, a, d)
           A == IF d = 0 /\ S = {} THEN {} ELSE {a}
           i == IF d = 0 THEN NoInsert ELSE <<a, d>>
<1>3. Work(a, w, A, S, i) /\ sess[a].on /\ ~sess[a].done
  BY <1>2 DEF Audited, Work
<1>4. RowShape(r) /\ CopyFits(r)  BY <1>1, <1>3, CopyNow
<1>5. /\ RowShape(t)
      /\ \A e \in Entries : t.status[e] = IF e \in S THEN "COMPLETED" ELSE r.status[e]
  BY <1>4, CompletedFields
<1> HIDE DEF t, d
<1>6. w.status = t.status  BY <1>1, <1>5, BookedFields
<1> HIDE DEF w, A, i
<1>7. sess'[a].db = w
  <2>1. sess'[a] = [sess[a] EXCEPT !.db = w, !.wrote = A, !.touched = S, !.ins = i,
                                   !.done = TRUE]
    BY <1>1, <1>3 DEF Work, Shape, IsFcn
  <2>2. SessShape(sess[a])  BY <1>1 DEF Shape
  <2>3. QED  BY <2>1, <2>2 DEF SessShape
<1>8. D \in Entries  BY TransferIs
<1>9. r.status[D] = "IN_TRANSIT" => D \in S
  <2>1. SUFFICES ASSUME r.status[D] = "IN_TRANSIT", D \notin S PROVE FALSE  OBVIOUS
  <2>2. Missing(a, r, S, k) = 0  BY <1>2 DEF NoMismatch
  <2>3. r.cnt[D] = 0  BY <1>4, <1>8, <2>1 DEF CopyFits, EntryFits
  <2>4. QED  BY <2>1, <2>2, <2>3 DEF Missing
<1>10. QED  BY <1>5, <1>6, <1>7, <1>8, <1>9

(***************************************************************************)
(* With any accounts and any transfers: when no two sets of amounts come   *)
(* to sums that the audit cannot tell from each other (nothing in          *)
(* withdraw.py sees to that), a deposit is COMPLETED only when it has      *)
(* landed, and an audit that lets its engine trade has credited every      *)
(* deposit that landed on its account and that its session knows of        *)
(* (deposit_landed, live_runner.py).                                       *)
(***************************************************************************)
THEOREM DepositsAlwaysFollowCoins == Distinguishable => (Spec => DepositsFollowCoins)
<1> SUFFICES ASSUME Distinguishable PROVE Spec => DepositsFollowCoins  OBVIOUS
<1> DEFINE Follows ==
             \A k \in Transfers :
               /\ rows'.status[Deposit(k)] = "COMPLETED" => where'[k] = "landed"
               /\ AuditPasses(To[k]) /\ where[k] = "landed"
                    => sess'[To[k]].db.status[Deposit(k)] # "IN_TRANSIT"
<1>1. Init => FundsInv  BY InitFunds
<1>2. FundsInv /\ [Next]_vars => FundsInv'  BY NextCoins
<1>3. FundsInv /\ FundsInv' /\ [Next]_vars => Follows
  <2> SUFFICES ASSUME FundsInv, FundsInv', [Next]_vars, NEW k \in Transfers
               PROVE  /\ rows'.status[Deposit(k)] = "COMPLETED" => where'[k] = "landed"
                      /\ AuditPasses(To[k]) /\ where[k] = "landed"
                           => sess'[To[k]].db.status[Deposit(k)] # "IN_TRANSIT"
    OBVIOUS
  <2>1. rows'.status[Deposit(k)] = "COMPLETED" => where'[k] = "landed"
    <3>1. Deposit(k) \in Entries /\ IsDeposit(Deposit(k)) /\ Deposit(k)[2] = k
      BY TransferIs
    <3>2. EntryFits(rows, Deposit(k))'  BY <3>1 DEF FundsInv, CoinsInv, CopyFits
    <3>3. QED  BY <3>1, <3>2 DEF EntryFits
  <2>2. ASSUME AuditPasses(To[k]), where[k] = "landed"
        PROVE  sess'[To[k]].db.status[Deposit(k)] # "IN_TRANSIT"
    <3>1. Audit(To[k]) /\ To[k] \in Engines  BY <2>2, PassingStep DEF AuditPasses
    <3>2. QED  BY <2>2, <3>1, AuditLeavesNone
  <2>3. QED  BY <2>1, <2>2
<1>4. QED
  <2>1. FundsInv /\ FundsInv' /\ [Next]_vars => [Follows]_vars  BY <1>3
  <2> HIDE DEF Follows
  <2>2. QED  BY <1>1, <1>2, <2>1, PTL DEF Spec, DepositsFollowCoins, Follows
=============================================================================

