------------------------------ MODULE BankAudit ------------------------------
(***************************************************************************)
(* A pass of the bank bot over the accounts of a bank.  An account is      *)
(* [balance, ledger, pending], the last one the deposits in transit to it; *)
(* what the bank shows is [balance, statement], the statement's lines      *)
(* [type, amount] from the oldest on.  One currency.                       *)
(***************************************************************************)
EXTENDS Integers, SequencesExt

CONSTANT BurnThreshold

LineChange(line) == IF line.type = "DEPOSIT" THEN line.amount ELSE -line.amount

Changed(lines) == FoldLeft(LAMBDA sum, line : sum + LineChange(line), 0, lines)

Newest(statement, n) == SubSeq(statement, Len(statement) - n + 1, Len(statement))

\* find_new_transactions: the shortest end of the statement that explains the
\* difference, from the newest line on.
FindNewTransactions(statement, diff) ==
  LET fitting == {n \in 1..Len(statement) : Changed(Newest(statement, n)) = diff}
  IN  IF diff = 0 \/ fitting = {} THEN <<>>
      ELSE Reverse(Newest(statement, CHOOSE n \in fitting : \A k \in fitting : n <= k))

\* deposit_landed, without a tolerance: the shorter combinations come first.
Credited(deposits) == MapThenSumSet(LAMBDA d : d.amount - d.fee, deposits)

Combinations(account, amount) ==
  LET matching == {S \in SUBSET account.pending \ {{}} : Credited(S) = amount}
  IN  {S \in matching : \A T \in matching : Cardinality(S) <= Cardinality(T)}

DepositsLanded(account, deposits) ==
  [account EXCEPT !.balance = @ + Credited(deposits), !.ledger = @ + Credited(deposits),
                  !.pending = @ \ deposits]

(***************************************************************************)
(* record_transactions.  record_burn and record_reverse_burn ask for the   *)
(* wrapper of a bank account or of "BURN", which no exchange has: the      *)
(* error ends the process.                                                 *)
(***************************************************************************)
Died == [balance |-> 0, ledger |-> 0, pending |-> {}, died |-> TRUE]

RecordTransaction(account, line) ==
  LET landed == IF line.type = "DEPOSIT" THEN Combinations(account, line.amount) ELSE {}
  IN  IF account.died THEN {account}
      ELSE IF landed # {} THEN {DepositsLanded(account, S) : S \in landed}
      ELSE IF line.amount < BurnThreshold THEN {Died}
      ELSE {account}

RecordTransactions(account, lines) ==
  FoldLeft(LAMBDA outcomes, line : UNION {RecordTransaction(a, line) : a \in outcomes},
           {account}, lines)

AuditBankAccount(account, bank) ==
  RecordTransactions(account,
    FindNewTransactions(bank.statement, bank.balance - account.balance))

(***************************************************************************)
(* audit_bank_accounts, and the commit at the end of the pass: an account  *)
(* whose balance is not what its ledger says ends it, and an error loses   *)
(* what was recorded, of the accounts before too; the heartbeats are out.  *)
(***************************************************************************)
Visit(pass, i, banks) ==
  IF pass.over THEN {pass}
  ELSE IF pass.accounts[i].ledger # pass.accounts[i].balance THEN {[pass EXCEPT !.over = TRUE]}
  ELSE {[pass EXCEPT !.accounts[i] = a, !.over = a.died, !.died = a.died,
                     !.beats = IF ~a.died /\ a.balance = banks[i].balance
                                 THEN @ \cup {i} ELSE @] :
          a \in AuditBankAccount(pass.accounts[i], banks[i])}

AuditBankAccounts(accounts, banks) ==
  LET begun == [accounts |-> accounts, beats |-> {}, over |-> FALSE, died |-> FALSE]
      passes == FoldLeft(LAMBDA outcomes, i : UNION {Visit(p, i, banks) : p \in outcomes},
                         {begun}, [i \in DOMAIN banks |-> i])
  IN  {IF p.died THEN [p EXCEPT !.accounts = accounts] ELSE p : p \in passes}
=============================================================================
