-------------------------- MODULE FundsProperties --------------------------
(***************************************************************************)
(* What is checked and proved of FundsTransfer.                            *)
(***************************************************************************)
EXTENDS FundsTransfer

TypeOK ==
  /\ rows \in Row
  /\ \A p \in Processes :
       /\ sess[p].base \in Row /\ sess[p].db \in Row
       /\ sess[p].wrote \subseteq Accounts /\ sess[p].touched \subseteq Entries
  /\ mode \in [Engines -> {"trading", "recovery"}]
  /\ mislaid.own \in [Accounts -> Int] /\ mislaid.cnt \in [Entries -> Int]

(***************************************************************************)
(* Amounts that can be told apart: no two different sets of credits and    *)
(* debits, a few trades included, come to sums within the tolerance.       *)
(* create_uniquifier (crypto_balancing.py:23) makes such amounts; with     *)
(* withdraw.py it is up to the operator.  Where sums coincide, one set is  *)
(* taken for the other.                                                    *)
(***************************************************************************)
Sign == {-1, 0, 1}
Distinguishable ==
  \A c \in [Transfers -> Sign], d \in [Transfers -> Sign] :
    Abs(SumFunction([k \in Transfers |-> c[k] * Credit(k) + d[k] * Debit(k)]))
      <= 2 * Tolerance + MaxFills
    => \A k \in Transfers : c[k] = 0 /\ d[k] = 0

(***************************************************************************)
(* Balance and ledger of an account agree in the committed rows but for    *)
(* what commits have overwritten: the JSON column (exchange.pyx:57) is     *)
(* written as a whole and takes back, to the coin, what other sessions     *)
(* gave the balance since it was read (live_runner.py:195); a transaction  *)
(* that is written twice counts as often as its last status says.  Nothing *)
(* else ever parts the two, no failed commit and no audit, and             *)
(* reset_balance brings them together.                                     *)
(***************************************************************************)
LedgerAgrees ==
  /\ \A a \in Accounts : rows.own[a] + mislaid.own[a] = rows.ledger[a]
  /\ \A e \in Entries : rows.cnt[e] + mislaid.cnt[e] = Done(rows, e)

(***************************************************************************)
(* A deposit is COMPLETED only when it has landed, and an audit that       *)
(* passes has credited every deposit that landed on its account and that   *)
(* its session knows of; none is taken for drift.  deposit_landed matches  *)
(* the change of a balance with the deposits that caused it, although the  *)
(* withdrawals of the same account are sent and recorded in two steps, in  *)
(* either order, and trades go on.  That takes amounts that can be told    *)
(* apart (Distinguishable).                                                *)
(***************************************************************************)
AuditPasses(a) ==
  /\ a \in Engines /\ ~Booking(a)
  /\ sess[a].on /\ ~sess[a].done /\ sess'[a].done /\ mode'[a] = "trading"

DepositsFollowCoins ==
  [][\A k \in Transfers :
       /\ rows'.status[Deposit(k)] = "COMPLETED" => where'[k] = "landed"
       /\ AuditPasses(To[k]) /\ where[k] = "landed"
            => sess'[To[k]].db.status[Deposit(k)] # "IN_TRANSIT"]_vars

(***************************************************************************)
(* A balance mismatch that the withdrawal tool has set right ends the      *)
(* recovery loop: the commit in it (live_runner.py:195-198) lets the       *)
(* engine see what other processes have changed.                           *)
(***************************************************************************)
InOrder ==
  /\ \A a \in Accounts : Agrees(rows, a)
  /\ \A k \in Transfers :
       \/ where[k] = "home" /\ rows.status[Withdrawal(k)] = "NONE"
       \/ where[k] \in {"moving", "landed"} /\ rows.status[Withdrawal(k)] = "COMPLETED"
       \/ where[k] = "returned" /\ rows.status[Withdrawal(k)] = "CANCELED"

RecoveryHearsTheTool ==
  \A a \in Engines : <>[]InOrder => []<>(mode[a] = "trading")
=============================================================================
