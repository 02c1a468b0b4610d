--------------------------- MODULE FundsTransfer ---------------------------
(***************************************************************************)
(* Exchange accounts, the transactions between them, and the processes     *)
(* that share their rows: the engine of each account, which books its      *)
(* trades and audits its balance, and an operator's tools, which record    *)
(* transfers of funds.                                                     *)
(*                                                                         *)
(* The balance of an account is one JSON column: a session reads it as a   *)
(* whole, changes it in memory and writes it as a whole when it commits.   *)
(* It is kept here as what it is the sum of: cnt[e] is how often the       *)
(* transaction e has been added to its account's balance, own[a] is the    *)
(* part that comes from trades and drift.  The ledger is the transaction   *)
(* and trade rows themselves.                                              *)
(***************************************************************************)
EXTENDS Integers, FiniteSets, FiniteSetsExt

CONSTANTS
  Accounts,
  Engines,        \* the accounts on which an engine trades
  Tool,           \* the process of withdraw.py and reset_balance.py
  Transfers, From, To, Amount,
  Fiat,           \* the transfers recorded by record_fiat_withdrawal
  WithdrawalFee, DepositFee,
  Tolerance,      \* of the balance audit
  MaxFills,       \* bound on the trades of an account
  MaxTools,       \* bound on the tool's sessions
  MaxFailures     \* bound on failed commits and crashes

ASSUME FundsAssumption ==
  /\ Tool \notin Accounts /\ Engines \subseteq Accounts
  /\ From \in [Transfers -> Accounts] /\ To \in [Transfers -> Accounts]
  /\ Fiat \subseteq Transfers
  /\ {Tolerance, MaxFills, MaxTools, MaxFailures} \subseteq Nat

ASSUME AmountsAssumption ==
  /\ IsFiniteSet(Transfers) /\ Amount \in [Transfers -> Int]
  /\ WithdrawalFee \in [Accounts -> Int] /\ DepositFee \in [Accounts -> Int]

VARIABLES
  rows,        \* the committed rows
  sess,        \* each process's session
  mode,        \* "trading", or "recovery" in exception_retry_loop
  fills,       \* trades of an account, on the exchange
  where,       \* where a transfer's money is
  mislaid,     \* what commits have overwritten of balances and of statuses
  tools,       \* sessions the tool has had
  failures     \* commits that failed

vars == <<rows, sess, mode, fills, where, mislaid, tools, failures>>

Processes == Engines \cup {Tool}

\* The two Transaction rows of a transfer.
Entries == {"WITHDRAWL", "DEPOSIT"} \X Transfers
Account(e) == IF e[1] = "DEPOSIT" THEN To[e[2]] ELSE From[e[2]]
Withdrawal(k) == <<"WITHDRAWL", k>>
Deposit(k) == <<"DEPOSIT", k>>

\* "NONE" is the absence of a row.
Status == {"NONE", "IN_TRANSIT", "COMPLETED", "CANCELED"}

\* What a withdrawal and a deposit change the balance by, fees included: the
\* fee of a fiat withdrawal is taken out of the amount.
Debit(k) == IF k \in Fiat THEN Amount[k] ELSE Amount[k] + WithdrawalFee[From[k]]
Credit(k) ==
  IF k \in Fiat THEN Amount[k] - WithdrawalFee[From[k]] - DepositFee[To[k]]
                ELSE Amount[k]

Signed(e) == IF e[1] = "DEPOSIT" THEN Credit(e[2]) ELSE -Debit(e[2])

Row ==
  [own : [Accounts -> Int], cnt : [Entries -> Int], status : [Entries -> Status],
   ledger : [Accounts -> Int], booked : [Accounts -> Nat]]

NoInsert == <<>>

EmptyRow ==
  [own |-> [a \in Accounts |-> 0], cnt |-> [e \in Entries |-> 0],
   status |-> [e \in Entries |-> "NONE"],
   ledger |-> [a \in Accounts |-> 0], booked |-> [a \in Accounts |-> 0]]

\* A session: the rows as it has read them, its copy of them, the accounts
\* and transactions it has changed, the trade or drift it inserts as
\* <<account, amount>>, and whether it has done what it was opened for.
Closed == [on |-> FALSE, base |-> EmptyRow, db |-> EmptyRow, wrote |-> {}, touched |-> {},
           ins |-> NoInsert, done |-> FALSE]

\* How often the transaction is in the ledger.
Done(r, e) == IF r.status[e] = "COMPLETED" THEN 1 ELSE 0

Nothing == [own |-> [a \in Accounts |-> 0], cnt |-> [e \in Entries |-> 0]]

Init ==
  /\ rows = EmptyRow
  /\ sess = [p \in Processes |-> Closed]
  /\ mode = [a \in Engines |-> "trading"]
  /\ fills = [a \in Accounts |-> 0]
  /\ where = [k \in Transfers |-> "home"]
  /\ mislaid = Nothing /\ tools = 0 /\ failures = 0

-----------------------------------------------------------------------------
(* The exchanges.                                                          *)

Fill(a) ==
  /\ fills[a] < MaxFills
  /\ fills' = [fills EXCEPT ![a] = @ + 1]
  /\ UNCHANGED <<rows, sess, mode, where, mislaid, tools, failures>>

\* A withdrawal is requested, arrives, or comes back.
Move(k, before, after) ==
  /\ where[k] = before
  /\ where' = [where EXCEPT ![k] = after]
  /\ UNCHANGED <<rows, sess, mode, fills, mislaid, tools, failures>>

Send(k) == Move(k, "home", "moving")
Land(k) == Move(k, "moving", "landed")
Bounce(k) == Move(k, "moving", "returned")

\* get_balance, relative to the initial balance.
ExchangeAmount(a) ==
  fills[a]
  + MapThenSumSet(Credit, {k \in Transfers : To[k] = a /\ where[k] = "landed"})
  - MapThenSumSet(Debit, {k \in Transfers : From[k] = a
                                            /\ where[k] \in {"moving", "landed"}})

-----------------------------------------------------------------------------
(* Sessions.                                                               *)

\* The first query of a transaction fixes what the session will read.
Begin(p) ==
  /\ ~sess[p].on
  /\ p = Tool => tools < MaxTools
  /\ tools' = IF p = Tool THEN tools + 1 ELSE tools
  /\ sess' = [sess EXCEPT ![p] = [Closed EXCEPT !.on = TRUE, !.base = rows, !.db = rows]]
  /\ UNCHANGED <<rows, mode, fills, where, mislaid, failures>>

\* What a session's commit makes of the rows.
Merged(r, p, s) ==
  [own    |-> [a \in Accounts |-> IF a \in s.wrote THEN s.db.own[a] ELSE r.own[a]],
   cnt    |-> [e \in Entries |-> IF Account(e) \in s.wrote THEN s.db.cnt[e] ELSE r.cnt[e]],
   status |-> [e \in Entries |-> IF e \in s.touched THEN s.db.status[e] ELSE r.status[e]],
   ledger |-> [a \in Accounts |-> IF s.ins # NoInsert /\ s.ins[1] = a
                                  THEN r.ledger[a] + s.ins[2] ELSE r.ledger[a]],
   booked |-> [a \in Accounts |-> IF a = p THEN s.db.booked[a] ELSE r.booked[a]]]

\* reset_balance writes a balance anew, from the ledger.
Resets(p, s) == p = Tool /\ s.touched = {}

\* What a commit overwrites: what the balance has been given, and which
\* transactions have been completed, since the session read them.  A reset
\* makes good what was overwritten before, as far as it has read the ledger.
Overwrites(p, s) ==
  LET Completions(e) == Done(rows, e) - Done(s.base, e)
      Balance(a) == IF Resets(p, s) THEN rows.ledger[a] - s.base.ledger[a]
                    ELSE mislaid.own[a] + rows.own[a] - s.base.own[a]
      Counts(e) == IF Resets(p, s) THEN Completions(e)
                   ELSE mislaid.cnt[e] + rows.cnt[e] - s.base.cnt[e]
  IN  [own |-> [a \in Accounts |-> IF a \in s.wrote THEN Balance(a) ELSE mislaid.own[a]],
       cnt |-> [e \in Entries |->
                 (IF Account(e) \in s.wrote THEN Counts(e) ELSE mislaid.cnt[e])
                 - (IF e \in s.touched THEN Completions(e) ELSE 0)]]

\* A bug: a session goes on with its copy after the commit.
Commit_KeepsCopy(p) ==
  /\ sess[p].on /\ sess[p].done
  /\ rows' = Merged(rows, p, sess[p])
  /\ mislaid' = Overwrites(p, sess[p])
  /\ sess' = [sess EXCEPT ![p] = [Closed EXCEPT !.on = TRUE, !.base = sess[p].db,
                                                !.db = sess[p].db]]
  /\ UNCHANGED <<mode, fills, where, tools, failures>>

\* commit_mysql_session succeeds.
Commit(p) ==
  /\ sess[p].on /\ sess[p].done
  /\ rows' = Merged(rows, p, sess[p])
  /\ mislaid' = Overwrites(p, sess[p])
  /\ sess' = [sess EXCEPT ![p] = Closed]
  /\ UNCHANGED <<mode, fills, where, tools, failures>>

\* It fails and rolls back, or the process is gone; an engine starts again
\* with an audit.
Rollback(p) ==
  /\ failures < MaxFailures /\ failures' = failures + 1
  /\ sess[p].on
  /\ sess' = [sess EXCEPT ![p] = Closed]
  /\ mode' = IF p = Tool THEN mode ELSE [mode EXCEPT ![p] = "recovery"]
  /\ UNCHANGED <<rows, fills, where, mislaid, tools>>

\* The session of p has done what makes its copy r, having written the
\* balances of accounts and the rows of entries.
Work(p, r, accounts, entries, ins) ==
  /\ sess[p].on /\ ~sess[p].done
  /\ sess' = [sess EXCEPT ![p].db = r, ![p].wrote = accounts,
                          ![p].touched = entries, ![p].ins = ins, ![p].done = TRUE]
  /\ UNCHANGED <<rows, fills, where, mislaid, tools, failures>>

-----------------------------------------------------------------------------
(* Transactions, in a copy r of the rows.                                  *)

SetStatus(r, S, s) == [r EXCEPT !.status = [e \in Entries |-> IF e \in S THEN s ELSE @[e]]]
Count(r, S, n) == [r EXCEPT !.cnt = [e \in Entries |-> IF e \in S THEN @[e] + n ELSE @[e]]]

\* A bug: the row is completed but the balance is not changed.
Completed_NoBalance(r, S) == SetStatus(r, S, "COMPLETED")

\* Transaction.complete of transactions that are IN_TRANSIT.
Completed(r, S) == Count(SetStatus(r, S, "COMPLETED"), S, 1)

\* Transaction.cancel: a completed one is taken back out of the balance.
Cancelled(r, S) ==
  Count(SetStatus(r, S, "CANCELED"), {e \in S : r.status[e] = "COMPLETED"}, -1)

\* Trades or drift enter balance and ledger together.
Booked(r, a, amount) == [r EXCEPT !.own[a] = @ + amount, !.ledger[a] = @ + amount]

\* exchange_data.balance[currency]
DbAmount(r, a) ==
  r.own[a] + MapThenSumSet(LAMBDA e : r.cnt[e] * Signed(e),
                           {e \in Entries : Account(e) = a})

\* Balance and ledger of an account say the same (ledger_audit).
Agrees(r, a) ==
  /\ r.own[a] = r.ledger[a]
  /\ \A e \in Entries : Account(e) = a => r.cnt[e] = Done(r, e)

PendingDeposits(r, a) ==
  {e \in Entries : e[1] = "DEPOSIT" /\ Account(e) = a /\ r.status[e] = "IN_TRANSIT"}

Abs(n) == IF n < 0 THEN -n ELSE n

\* A bug: a difference in one direction only.
CloseEnough_OneSided(a, b) == a - b <= Tolerance

CloseEnough(a, b) == Abs(a - b) <= Tolerance

\* combinations_of_all_lengths: the combinations that match the change.
Matches(r, a, change) ==
  {S \in SUBSET PendingDeposits(r, a) :
     S # {} /\ CloseEnough(MapThenSumSet(Signed, S), change)}

\* The ones deposit_landed may complete: it tries the shorter ones first.
Landed(r, a, change) ==
  {S \in Matches(r, a, change) :
     \A T \in Matches(r, a, change) : Cardinality(S) <= Cardinality(T)}

-----------------------------------------------------------------------------
(* The engine of account a.                                                *)

Booking(a) == sess[a].db.booked[a] < fills[a]

\* Orders that traded are settled and the account's balance is updated.
BookFills(a) ==
  /\ Booking(a)
  /\ LET r == Booked(sess[a].db, a, fills[a] - sess[a].db.booked[a])
     IN  Work(a, [r EXCEPT !.booked[a] = fills[a]], {a}, {},
              <<a, fills[a] - sess[a].db.booked[a]>>)
  /\ UNCHANGED mode

\* The deposits an audit that finds a change in the balance may complete.
Expected(r, a, change) ==
  IF CloseEnough(0, change) THEN {{}} ELSE Landed(r, a, change)

\* record_drift, as a change of the balance.
Drift(r, a) == ExchangeAmount(a) - DbAmount(r, a)

\* balance_audit completes the deposits S and records the drift.
Audited(a, r, S) ==
  LET r1 == Completed(r, S)
      d  == Drift(r1, a)
  IN  Work(a, IF d = 0 THEN r1 ELSE Booked(r1, a, d),
           IF d = 0 /\ S = {} THEN {} ELSE {a}, S,
           IF d = 0 THEN NoInsert ELSE <<a, d>>)

\* The balance audit and then the ledger audit; when the second one fails,
\* what the first one did stays in the session and is committed.
Audit(a) ==
  LET r == sess[a].db
  IN  /\ ~Booking(a)
      /\ \E S \in Expected(r, a, Drift(r, a)) :
           /\ Audited(a, r, S)
           /\ mode' = [mode EXCEPT ![a] =
                        IF Agrees(sess'[a].db, a) THEN "trading" ELSE "recovery"]

\* "Our balance != Exchange balance"
AuditFails(a) ==
  LET r == sess[a].db
  IN  /\ ~Booking(a)
      /\ Expected(r, a, Drift(r, a)) = {}
      /\ Work(a, r, {}, {}, NoInsert)
      /\ mode' = [mode EXCEPT ![a] = "recovery"]

-----------------------------------------------------------------------------
(* The operator's tools.                                                   *)

\* withdraw and withdraw_fiat: a completed withdrawal and a deposit in
\* transit.  The operator records each transfer once, before or after it is
\* sent.
RecordWithdrawal(k) ==
  LET r == sess[Tool].db
  IN  /\ where[k] # "returned"
      /\ r.status[Withdrawal(k)] = "NONE" /\ r.status[Deposit(k)] = "NONE"
      /\ Work(Tool, SetStatus(Completed(r, {Withdrawal(k)}), {Deposit(k)}, "IN_TRANSIT"),
              {From[k]}, {Withdrawal(k), Deposit(k)}, NoInsert)
      /\ UNCHANGED mode

\* transaction_complete takes the oldest transaction in transit, whichever
\* has landed: the operator waits until all of them have.
TransactionComplete(a) ==
  LET r == sess[Tool].db
  IN  /\ \A e \in PendingDeposits(r, a) : where[e[2]] = "landed"
      /\ \E e \in PendingDeposits(r, a) :
           Work(Tool, Completed(r, {e}), {a}, {e}, NoInsert)
      /\ UNCHANGED mode

\* A transfer that came back is cancelled on both sides.
CancelTransfer(k) ==
  LET r == sess[Tool].db
      S == {Withdrawal(k), Deposit(k)}
  IN  /\ where[k] = "returned" /\ r.status[Deposit(k)] = "IN_TRANSIT"
      /\ Work(Tool, Cancelled(r, S), {From[k]}, S, NoInsert)
      /\ UNCHANGED mode

\* Nothing is under way to or from a, in the world or in the copy r.
Quiet(r, a) ==
  \A e \in Entries : Account(e) = a =>
    \/ where[e[2]] = "home" /\ r.status[e] = "NONE"
    \/ where[e[2]] = "landed" /\ r.status[e] = "COMPLETED"
    \/ where[e[2]] = "returned" /\ r.status[e] = "CANCELED"

\* reset_balance, "in extraordinary circumstances": the balance becomes what
\* the ledger says, and a transaction makes both what the exchange says.
ResetBalance(a) ==
  LET r  == sess[Tool].db
      r1 == [r EXCEPT !.own[a] = r.ledger[a],
                      !.cnt = [e \in Entries |->
                        IF Account(e) = a THEN Done(r, e) ELSE @[e]]]
      d  == Drift(r1, a)
  IN  /\ ~Agrees(r, a) /\ Quiet(r, a)
      /\ fills[a] = r.booked[a]
      /\ Work(Tool, IF d = 0 THEN r1 ELSE Booked(r1, a, d), {a}, {},
              IF d = 0 THEN NoInsert ELSE <<a, d>>)
      /\ UNCHANGED mode

\* The tool finds nothing to do, or raises.
ToolQuits ==
  /\ sess[Tool].on /\ ~sess[Tool].done
  /\ sess' = [sess EXCEPT ![Tool] = Closed]
  /\ UNCHANGED <<rows, mode, fills, where, mislaid, tools, failures>>

-----------------------------------------------------------------------------
ToolStep ==
  \/ Begin(Tool) \/ Commit(Tool) \/ ToolQuits
  \/ \E k \in Transfers : RecordWithdrawal(k) \/ CancelTransfer(k)
  \/ \E a \in Accounts : TransactionComplete(a) \/ ResetBalance(a)

EngineStep(a) ==
  Begin(a) \/ BookFills(a) \/ Audit(a) \/ AuditFails(a) \/ Commit(a)

World ==
  \/ \E a \in Engines : Fill(a)
  \/ \E k \in Transfers : Send(k) \/ Land(k) \/ Bounce(k)

Next ==
  \/ \E a \in Engines : EngineStep(a)
  \/ ToolStep
  \/ World
  \/ \E p \in Processes : Rollback(p)

Spec == Init /\ [][Next]_vars

\* The engine's loop goes on and its requests end; a session of the tool
\* ends.
FairSpec ==
  /\ Spec
  /\ \A a \in Engines : WF_vars(EngineStep(a))
  /\ WF_vars(Commit(Tool) \/ ToolQuits)
=============================================================================
