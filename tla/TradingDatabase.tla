--------------------------- MODULE TradingDatabase ---------------------------
(***************************************************************************)
(* The trading database of one exchange account: its Order rows with their *)
(* Trade rows, and the position and balance of its Exchange row.           *)
(*                                                                         *)
(* The engine works on the objects of an SQLAlchemy session; the rows      *)
(* change when the session commits and the session goes back to the rows   *)
(* when it is rolled back or the process dies.  So every piece of state    *)
(* exists twice: in the session (status, trades, posted, drift) and in the *)
(* rows (dbStatus, ...).                                                   *)
(*                                                                         *)
(* The position of the account is a sum of the position changes of its     *)
(* orders.  It is kept here as its summands: posted[o] is what the account *)
(* has been changed by for order o.  The balance is the same sum plus the  *)
(* drift transactions.                                                     *)
(***************************************************************************)
EXTENDS ExchangeAccount

VARIABLES
  status, trades, posted, drift,          \* in the session
  dbStatus, dbTrades, dbPosted, dbDrift   \* in the rows

sesVars == <<status, trades, posted, drift>>
rowVars == <<dbStatus, dbTrades, dbPosted, dbDrift>>
dbVars  == <<sesVars, rowVars>>

\* "NONE" is the absence of a row.  REVERSED is not used by the engine.
Status == {"NONE", "OPEN", "FILLED", "CANCELLED"}

SessionType ==
  /\ status \in [OrderIds -> Status]
  /\ trades \in [OrderIds -> 0..Volume]
  /\ posted \in [OrderIds -> Int]

RowType ==
  /\ dbStatus \in [OrderIds -> Status]
  /\ dbTrades \in [OrderIds -> 0..Volume]
  /\ dbPosted \in [OrderIds -> Int]

\* The drift is an integer too: a sum over the orders, see Net.
DatabaseType == SessionType /\ RowType

DatabaseInit ==
  /\ status = [o \in OrderIds |-> "NONE"] /\ dbStatus = status
  /\ trades = [o \in OrderIds |-> 0] /\ dbTrades = trades
  /\ posted = [o \in OrderIds |-> 0] /\ dbPosted = posted
  /\ drift = 0 /\ dbDrift = 0

-----------------------------------------------------------------------------
(* The session.                                                            *)

\* commit_mysql_session succeeds: the rows become what the session is at
\* the end of this step.
Commit ==
  /\ dbStatus' = status' /\ dbTrades' = trades'
  /\ dbPosted' = posted' /\ dbDrift' = drift'

\* Its commit fails and rolls back, or the process is gone.
Rollback ==
  /\ status' = dbStatus /\ trades' = dbTrades
  /\ posted' = dbPosted /\ drift' = dbDrift
  /\ UNCHANGED rowVars

-----------------------------------------------------------------------------
(* Operations on an order and on the account, in the session.              *)

DbOpenOrders == {o \in OrderIds : status[o] = "OPEN"}

\* A bug: a cancelled order's trades are only entered when it filled.
WasEaten_OnlyFull(o, filled) ==
  /\ status' = [status EXCEPT ![o] = IF filled < Volume THEN "CANCELLED" ELSE "FILLED"]
  /\ trades' = [trades EXCEPT ![o] = IF filled < Volume THEN @ ELSE filled]
  /\ UNCHANGED <<posted, drift>>

\* A bug: the trades are added to the ones that are there.
WasEaten_Appends(o, filled) ==
  /\ status' = [status EXCEPT ![o] = IF filled <= 0 THEN "CANCELLED" ELSE "FILLED"]
  /\ trades' = [trades EXCEPT ![o] = @ + filled]
  /\ UNCHANGED <<posted, drift>>

\* Order.was_eaten: trades are only replaced when something was filled.
WasEaten(o, filled) ==
  /\ status' = [status EXCEPT ![o] = IF filled <= 0 THEN "CANCELLED" ELSE "FILLED"]
  /\ trades' = [trades EXCEPT ![o] = IF filled <= 0 THEN @ ELSE filled]
  /\ UNCHANGED <<posted, drift>>

\* Order.was_partially_eaten: the trades are replaced, the status is kept.
WasPartiallyEaten(o, filled) ==
  /\ trades' = [trades EXCEPT ![o] = filled]
  /\ UNCHANGED <<status, posted, drift>>

\* A new Order row, status OPEN, no trades.
NewOrder(o) ==
  /\ status' = [status EXCEPT ![o] = "OPEN"]
  /\ UNCHANGED <<trades, posted, drift>>

\* status = OPEN on orders that had been settled.
Reopen(S) ==
  /\ status' = [o \in OrderIds |-> IF o \in S THEN "OPEN" ELSE status[o]]
  /\ UNCHANGED <<trades, posted, drift>>

\* exchange_account.position and .balance change by a position change.
AddToPosition(o, amount) ==
  /\ posted' = [posted EXCEPT ![o] = @ + amount]
  /\ UNCHANGED <<status, trades, drift>>

DbBalance == Net(posted) + drift

\* What the trades and the drift transactions add up to.
LedgerBalance(driftTransactions) == Net(trades) + driftTransactions
=============================================================================
