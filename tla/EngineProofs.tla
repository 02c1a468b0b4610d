----------------------------- MODULE EngineProofs -----------------------------
(***************************************************************************)
(* Theorems about LiveRunner, for every number and size of orders, every   *)
(* audit_tick and, unless they say otherwise, every kind of trouble: its   *)
(* types, that the trading database follows the exchange - the trades, the *)
(* status of orders and the position - and that nothing is left behind:    *)
(* what wind_down, the audits and the process's own failures leave open on *)
(* the exchange, out of the ledger, or out of the position.                *)
(***************************************************************************)
EXTENDS EngineProperties, SumTheorems

-----------------------------------------------------------------------------
(* Type correctness                                                        *)

LEMMA TypeInit == Init => TypeOK
<1> SUFFICES ASSUME Init PROVE TypeOK
  OBVIOUS
<1>1. ExchangeType
  BY AccountAssumption DEF Init, ExchangeInit, ExchangeType
<1>2. DatabaseType
  BY AccountAssumption DEF Init, DatabaseInit, DatabaseType, SessionType, RowType, Status
<1>3. CoordinatorType
  <2>1. change \in [order : OrderIds \cup {NoOrder}, amount : Int]
    BY DEF Init, CoordinatorInit, NoChange
  <2>2. details \in [OrderIds -> 0..Volume]
    BY AccountAssumption DEF Init, CoordinatorInit, NoDetails
  <2>3. QED
    BY <2>1, <2>2
    DEF Init, CoordinatorInit, CoordinatorType, LocalsType, Exceptions, NoOrder
<1>4. tick \in 0..AuditTick
  BY RunnerAssumption DEF Init
<1>5. pc \in RunnerLabels /\ mode \in Modes
  BY DEF Init, RunnerLabels, Modes
<1>6. QED
  BY <1>1, <1>2, <1>3, <1>4, <1>5 DEF Init, TypeOK

\* The steps that many actions share.
LEMMA ForgetType == ForgetLocals => LocalsType'
<1> SUFFICES ASSUME ForgetLocals PROVE LocalsType'
  OBVIOUS
<1>1. change' \in [order : OrderIds \cup {NoOrder}, amount : Int]
  BY DEF ForgetLocals, NoChange
<1>2. details' \in [OrderIds -> 0..Volume]
  BY AccountAssumption DEF ForgetLocals, NoDetails
<1>3. QED
  BY <1>1, <1>2 DEF ForgetLocals, LocalsType, NoOrder

LEMMA RaiseType ==
  ASSUME CoordinatorType, NEW kind \in Exceptions, Raise(kind)
  PROVE  CoordinatorType' /\ pc' \in CoordinatorLabels
  BY ForgetType DEF Raise, CoordinatorType, CoordinatorLabels

LEMMA CommitType == SessionType' /\ Commit => DatabaseType'
  BY DEF SessionType, RowType, Commit, DatabaseType

LEMMA RollbackType == DatabaseType /\ Rollback => DatabaseType'
  BY DEF SessionType, RowType, Rollback, rowVars, DatabaseType

LEMMA ExchangeStepType ==
  ASSUME ExchangeType, NEW o \in OrderIds,
         Fill(o) \/ CancelTakesEffect(o) \/ Accept(o)
  PROVE  ExchangeType'
<1>1. CASE Fill(o)
  <2>1. /\ xFilled' \in [OrderIds -> 0..Volume]
        /\ xFilled' = [xFilled EXCEPT ![o] = xFilled[o] + 1]
    BY <1>1, AccountAssumption DEF ExchangeType, Fill
  <2>2. CASE xFilled[o] + 1 = Volume
    BY <1>1, <2>1, <2>2 DEF ExchangeType, Fill, OpenOnExchange
  <2>3. CASE xFilled[o] + 1 # Volume
    BY <1>1, <2>1, <2>3, AccountAssumption
    DEF ExchangeType, Fill, OpenOnExchange
  <2>4. QED
    BY <2>2, <2>3
<1>2. CASE CancelTakesEffect(o)
  BY <1>2 DEF ExchangeType, CancelTakesEffect, OpenOnExchange
<1>3. CASE Accept(o)
  BY <1>3, AccountAssumption DEF ExchangeType, Accept, OpenOnExchange
<1>4. QED
  BY <1>1, <1>2, <1>3

LEMMA RequestCancelType ==
  ASSUME ExchangeType, NEW S, RequestCancel(S)
  PROVE  ExchangeType'
  BY DEF ExchangeType, RequestCancel, OpenOnExchange

LEMMA WasEatenType ==
  ASSUME SessionType, NEW o \in OrderIds, NEW filled \in 0..Volume,
         WasEaten(o, filled) \/ WasPartiallyEaten(o, filled)
  PROVE  SessionType' /\ trades'[o] - trades[o] \in Int
<1>1. trades' \in [OrderIds -> 0..Volume]
  BY DEF SessionType, WasEaten, WasPartiallyEaten
<1>2. trades[o] \in Int /\ trades'[o] \in Int
  BY <1>1, AccountAssumption DEF SessionType
<1>3. QED
  BY <1>1, <1>2 DEF SessionType, WasEaten, WasPartiallyEaten, Status

LEMMA AddToPositionType ==
  ASSUME SessionType, NEW o, NEW amount \in Int, AddToPosition(o, amount)
  PROVE  SessionType'
<1>1. CASE o \in OrderIds
  <2>1. posted[o] + amount \in Int
    BY <1>1 DEF SessionType
  <2>2. QED
    BY <1>1, <2>1 DEF SessionType, AddToPosition
<1>2. CASE o \notin OrderIds
  <2>1. posted' = posted
    BY <1>2 DEF SessionType, AddToPosition
  <2>2. QED
    BY <2>1 DEF SessionType, AddToPosition
<1>3. QED
  BY <1>1, <1>2

LEMMA ReopenType ==
  ASSUME SessionType, NEW S, Reopen(S)
  PROVE  SessionType'
  BY DEF SessionType, Reopen, Status

LEMMA ReportsType ==
  ASSUME ExchangeType, NEW o \in OrderIds
  PROVE  Reports(o) \subseteq 0..xFilled[o] /\ Reports(o) \subseteq 0..Volume
<1>1. xFilled[o] \in 0..Volume
  BY DEF ExchangeType
<1>2. QED
  BY <1>1, AccountAssumption DEF Reports

LEMMA ListsType ==
  ASSUME NEW listed \in OpenOrderLists
  PROVE  listed \subseteq OpenOnExchange /\ listed \subseteq OrderIds
  BY DEF OpenOrderLists, OpenOnExchange

\* Most steps leave one of the stores alone.
LEMMA ExchangeSame ==
  ASSUME ExchangeType, UNCHANGED xVars
  PROVE  ExchangeType'
  BY DEF xVars, ExchangeType, OpenOnExchange

LEMMA DatabaseSame ==
  ASSUME DatabaseType, UNCHANGED dbVars
  PROVE  DatabaseType'
  BY DEF dbVars, sesVars, rowVars, DatabaseType, SessionType, RowType

LEMMA RowsSame ==
  ASSUME RowType, UNCHANGED rowVars
  PROVE  RowType'
  BY DEF rowVars, RowType

EngineTypes == ExchangeType /\ DatabaseType /\ CoordinatorType

LEMMA ConsolidateType ==
  ASSUME EngineTypes, Consolidate
  PROVE  EngineTypes' /\ pc' \in CoordinatorLabels
<1> USE DEF EngineTypes, CoordinatorLabels
<1>1. CASE GetCurrentOrders
  <2>1. PICK listed \in OpenOrderLists :
          IF Alarming(listed)
          THEN Raise("audit") /\ UNCHANGED <<xVars, dbVars>>
          ELSE /\ Reopen(Unexpected(listed)) /\ UNCHANGED rowVars
               /\ RequestCancel(Unexpected(listed))
               /\ current' = listed \cap DbOpenOrders
               /\ eaten' = DbOpenOrders \ listed
               /\ partials' \in (IF "lag" \in Env THEN SUBSET ShrunkIn(listed)
                                                 ELSE {ShrunkIn(listed)})
               /\ Goto(IF DbOpenOrders \subseteq listed THEN "accounting" ELSE "details")
               /\ UNCHANGED <<active, details, change, placing, secondChance>>
    BY <1>1 DEF GetCurrentOrders
  <2>2. CASE Alarming(listed)
    BY <2>1, <2>2, RaiseType
    DEF Exceptions, xVars, dbVars, sesVars, rowVars, ExchangeType, OpenOnExchange,
        DatabaseType, SessionType, RowType
  <2>3. CASE ~Alarming(listed)
    <3>1. ExchangeType'
      BY <2>1, <2>3, RequestCancelType
    <3>2. DatabaseType'
      BY <2>1, <2>3, ReopenType DEF DatabaseType, RowType, rowVars
    <3>3. CoordinatorType'
      BY <2>1, <2>3, ListsType
      DEF CoordinatorType, LocalsType, DbOpenOrders, ShrunkIn, Goto
    <3>4. QED
      BY <2>1, <2>3, <3>1, <3>2, <3>3 DEF Goto
  <2>4. QED
    BY <2>2, <2>3
<1>2. CASE GetEatenDetails
  <2>1. CoordinatorType' /\ pc' \in CoordinatorLabels
    BY <1>2 DEF GetEatenDetails, CoordinatorType, LocalsType, Goto
  <2>2. QED
    BY <1>2, <2>1
    DEF GetEatenDetails, xVars, dbVars, sesVars, rowVars, ExchangeType,
        OpenOnExchange, DatabaseType, SessionType, RowType
<1>3. ASSUME NEW o \in OrderIds, SettleEaten(o)
      PROVE  EngineTypes' /\ pc' \in CoordinatorLabels
  <2>1. details[o] \in 0..Volume
    BY DEF CoordinatorType, LocalsType
  <2>2. SessionType' /\ trades'[o] - trades[o] \in Int
    BY <1>3, <2>1, WasEatenType DEF SettleEaten, DatabaseType
  <2>3. DatabaseType'
    BY <1>3, <2>2, CommitType DEF SettleEaten
  <2>4. CoordinatorType' /\ pc' \in CoordinatorLabels
    BY <1>3, <2>2 DEF SettleEaten, CoordinatorType, LocalsType, Goto
  <2>5. QED
    BY <1>3, <2>3, <2>4 DEF SettleEaten, xVars, ExchangeType, OpenOnExchange
<1>4. ASSUME NEW o \in OrderIds, SettlePartial(o)
      PROVE  EngineTypes' /\ pc' \in CoordinatorLabels
  <2>1. details[o] \in 0..Volume
    BY DEF CoordinatorType, LocalsType
  <2>2. SessionType' /\ trades'[o] - trades[o] \in Int
    BY <1>4, <2>1, WasEatenType DEF SettlePartial, DatabaseType
  <2>3. DatabaseType'
    BY <1>4, <2>2, CommitType DEF SettlePartial
  <2>4. CoordinatorType' /\ pc' \in CoordinatorLabels
    BY <1>4, <2>2 DEF SettlePartial, CoordinatorType, LocalsType, Goto
  <2>5. QED
    BY <1>4, <2>3, <2>4 DEF SettlePartial, xVars, ExchangeType, OpenOnExchange
<1>5. CASE UpdatePosition
  <2>1. SessionType'
    <3>1. change.order \in OrderIds \cup {NoOrder} /\ change.amount \in Int
      BY DEF CoordinatorType, LocalsType
    <3>2. QED
      BY <1>5, <3>1, AddToPositionType DEF UpdatePosition, DatabaseType
  <2>2. DatabaseType'
    BY <1>5, <2>1, CommitType DEF UpdatePosition
  <2>3. change' \in [order : OrderIds \cup {NoOrder}, amount : Int]
    BY <1>5 DEF UpdatePosition, NoChange
  <2>4. CoordinatorType' /\ pc' \in CoordinatorLabels
    BY <1>5, <2>3 DEF UpdatePosition, CoordinatorType, LocalsType, Goto
  <2>5. QED
    BY <1>5, <2>2, <2>4 DEF UpdatePosition, xVars, ExchangeType, OpenOnExchange
<1>6. CASE AccountingDone
  <2>1. details' \in [OrderIds -> 0..Volume]
    BY <1>6, AccountAssumption DEF AccountingDone, NoDetails
  <2>2. CoordinatorType' /\ pc' \in CoordinatorLabels
    BY <1>6, <2>1 DEF AccountingDone, CoordinatorType, LocalsType, Goto
  <2>3. QED
    BY <1>6, <2>2
    DEF AccountingDone, xVars, dbVars, sesVars, rowVars, ExchangeType,
        OpenOnExchange, DatabaseType, SessionType, RowType
<1>7. ASSUME NEW o \in OrderIds, GetPartialDetails(o)
      PROVE  EngineTypes' /\ pc' \in CoordinatorLabels
  <2>1. PICK filled \in Reports(o) : details' = [NoDetails EXCEPT ![o] = filled]
    BY <1>7 DEF GetPartialDetails
  <2>2. details' \in [OrderIds -> 0..Volume]
    BY <2>1, ReportsType, AccountAssumption DEF NoDetails
  <2>3. change' \in [order : OrderIds \cup {NoOrder}, amount : Int]
    BY <1>7 DEF GetPartialDetails
  <2>4. CoordinatorType' /\ pc' \in CoordinatorLabels
    BY <1>7, <2>2, <2>3 DEF GetPartialDetails, CoordinatorType, LocalsType, Goto
  <2>5. QED
    BY <1>7, <2>4, ExchangeSame, DatabaseSame DEF GetPartialDetails
<1>8. QED
  BY <1>1, <1>2, <1>3, <1>4, <1>5, <1>6, <1>7 DEF Consolidate

LEMMA AuditType ==
  ASSUME EngineTypes, Audit
  PROVE  EngineTypes' /\ pc' \in CoordinatorLabels
<1> USE DEF EngineTypes, CoordinatorLabels
<1>1. CASE OrderAuditPasses
  BY <1>1, ExchangeSame, DatabaseSame
  DEF OrderAuditPasses, CoordinatorType, LocalsType, Goto
<1>2. CASE OrderAuditFails
  BY <1>2, ExchangeSame, DatabaseSame, RaiseType DEF OrderAuditFails, Exceptions
<1>3. CASE OrderAuditAgain
  <2>1. CASE WrapperHasLog
    <3>1. DatabaseType'
      BY <1>3, <2>1, ReopenType, RowsSame DEF OrderAuditAgain, DatabaseType
    <3>2. CoordinatorType' /\ pc' \in CoordinatorLabels
      BY <1>3, <2>1
      DEF OrderAuditAgain, CoordinatorType, LocalsType, Goto, DbOpenOrders,
          Mismatched, AuditedOrders
    <3>3. QED
      BY <1>3, <2>1, <3>1, <3>2, ExchangeSame DEF OrderAuditAgain
  <2>2. CASE ~WrapperHasLog
    BY <1>3, <2>2, ExchangeSame, DatabaseSame, RaiseType
    DEF OrderAuditAgain, Exceptions
  <2>3. QED
    BY <2>1, <2>2
<1>4. CASE ReopenRefused
  BY <1>4, ExchangeSame, RowsSame, ReopenType, RaiseType
  DEF ReopenRefused, Exceptions, DatabaseType
<1>5. CASE BalanceAuditFails
  BY <1>5, ExchangeSame, DatabaseSame, RaiseType DEF BalanceAuditFails, Exceptions
<1>6. CASE LedgerAuditFails
  BY <1>6, ExchangeSame, RowsSame, RaiseType
  DEF LedgerAuditFails, Exceptions, DatabaseType, SessionType
<1>7. CASE AuditPasses
  <2>1. SessionType'
    BY <1>7 DEF AuditPasses, DatabaseType, SessionType
  <2>2. CoordinatorType' /\ pc' \in CoordinatorLabels
    BY <1>7 DEF AuditPasses, CoordinatorType, LocalsType, locals, Goto
  <2>3. QED
    BY <1>7, <2>1, <2>2, ExchangeSame, CommitType DEF AuditPasses
<1>8. QED
  BY <1>1, <1>2, <1>3, <1>4, <1>5, <1>6, <1>7 DEF Audit

LEMMA TradeType ==
  ASSUME EngineTypes, Trade
  PROVE  EngineTypes' /\ pc' \in CoordinatorLabels
<1> USE DEF EngineTypes, CoordinatorLabels
<1>1. ASSUME NEW o \in OrderIds, PlaceOrder(o)
      PROVE  EngineTypes' /\ pc' \in CoordinatorLabels
  BY <1>1, ExchangeStepType, DatabaseSame
  DEF PlaceOrder, CoordinatorType, LocalsType, Goto
<1>2. ASSUME NEW o \in OrderIds, LoseAnswer(o)
      PROVE  EngineTypes' /\ pc' \in CoordinatorLabels
  BY <1>2, ExchangeStepType, DatabaseSame
  DEF LoseAnswer, CoordinatorType, LocalsType, locals, Goto
<1>3. ASSUME NEW o \in OrderIds, CancelOrder(o)
      PROVE  EngineTypes' /\ pc' \in CoordinatorLabels
  BY <1>3, RequestCancelType, DatabaseSame
  DEF CancelOrder, CoordinatorType, LocalsType, coordVars, locals
<1>4. CASE SaveOrder
  <2>1. SessionType'
    BY <1>4 DEF SaveOrder, NewOrder, DatabaseType, SessionType, Status
  <2>2. CoordinatorType' /\ pc' \in CoordinatorLabels
    BY <1>4 DEF SaveOrder, CoordinatorType, LocalsType, Goto
  <2>3. QED
    BY <1>4, <2>1, <2>2, ExchangeSame, CommitType DEF SaveOrder
<1>5. QED
  BY <1>1, <1>2, <1>3, <1>4 DEF Trade

LEMMA FailsType ==
  ASSUME EngineTypes, CoordinatorFails
  PROVE  EngineTypes' /\ pc' \in CoordinatorLabels
<1> USE DEF EngineTypes, CoordinatorLabels
<1>1. CASE RequestFails
  BY <1>1, ExchangeSame, DatabaseSame, RaiseType DEF RequestFails, Exceptions
<1>2. CASE RecancelFails
  BY <1>2, RequestCancelType, RowsSame, ReopenType, RaiseType
  DEF RecancelFails, Exceptions, DatabaseType
<1>3. CASE AuditRequestFails
  BY <1>3, ExchangeSame, DatabaseSame, RaiseType DEF AuditRequestFails, Exceptions
<1>4. CASE AuditRequestRetried
  BY <1>4, ExchangeSame, DatabaseSame, ForgetType
  DEF AuditRequestRetried, CoordinatorType, Goto
<1>5. CASE StrategyFails
  BY <1>5, ExchangeSame, DatabaseSame, ForgetType
  DEF StrategyFails, CoordinatorType, Exceptions
<1>6. CASE CommitFails
  BY <1>6, ExchangeSame, RollbackType, RaiseType DEF CommitFails, Exceptions
<1>7. QED
  BY <1>1, <1>2, <1>3, <1>4, <1>5, <1>6 DEF CoordinatorFails

RunnerTypes ==
  /\ pc \in CoordinatorLabels \cup RunnerLabels
  /\ mode \in Modes
  /\ tick \in 0..AuditTick
  /\ warm \in BOOLEAN
  /\ cancelling \in SUBSET OrderIds
  /\ crashes \in Nat

LEMMA TypeParts == TypeOK <=> EngineTypes /\ RunnerTypes
  BY DEF TypeOK, EngineTypes, RunnerTypes

LEMMA CoordinatorStepType == TypeOK /\ CoordinatorStep => TypeOK'
<1> SUFFICES ASSUME TypeOK, CoordinatorStep PROVE TypeOK'
  OBVIOUS
<1>1. EngineTypes' /\ pc' \in CoordinatorLabels
  BY TypeParts, ConsolidateType, AuditType, TradeType, FailsType
  DEF CoordinatorStep, CoordinatorNext
<1>2. RunnerTypes'
  BY <1>1, TypeParts DEF CoordinatorStep, runnerVars, RunnerTypes
<1>3. QED
  BY <1>1, <1>2, TypeParts DEF TypeOK, EngineTypes, RunnerTypes

LEMMA GotoType ==
  ASSUME CoordinatorType, NEW label, Goto(label), UNCHANGED <<active, locals>>
  PROVE  CoordinatorType' /\ pc' = label
  BY DEF CoordinatorType, LocalsType, locals, Goto

LEMMA EnterType ==
  ASSUME TypeOK, NEW newMode \in Modes,
         NEW label \in CoordinatorLabels \cup RunnerLabels, Enter(newMode, label)
  PROVE  TypeOK'
  BY GotoType, ExchangeSame, DatabaseSame DEF TypeOK, Enter

LEMMA LabelTypes ==
  TickLabel \in CoordinatorLabels /\ AuditLabel \in CoordinatorLabels
  BY DEF TickLabel, AuditLabel, CoordinatorLabels

LEMMA CommitSessionType ==
  ASSUME DatabaseType, UNCHANGED sesVars, Commit
  PROVE  DatabaseType'
  BY CommitType DEF DatabaseType, SessionType, sesVars

LEMMA LoopStepType == TypeOK /\ LoopStep => TypeOK'
<1> SUFFICES ASSUME TypeOK, LoopStep PROVE TypeOK'
  OBVIOUS
<1> USE DEF Modes, RunnerLabels
<1>1. CASE StopRequested
  BY <1>1, GotoType, ExchangeSame, CommitSessionType DEF StopRequested, TypeOK
<1>2. CASE FirstTick
  BY <1>2, EnterType, LabelTypes DEF FirstTick
<1>3. CASE TickOrAudit
  BY <1>3, EnterType, LabelTypes DEF TickOrAudit
<1>4. CASE Consolidated
  <2>1. CASE mode # "tick" /\ current # {}
    BY <1>4, <2>1, RaiseType, ExchangeSame, DatabaseSame
    DEF Consolidated, TypeOK, runnerVars, Exceptions
  <2>2. CASE mode = "tick" \/ current = {}
    <3>1. pc' \in CoordinatorLabels \cup RunnerLabels /\ exc' = exc
      BY <1>4, <2>2, LabelTypes DEF Consolidated, Goto, CoordinatorLabels
    <3>2. CoordinatorType'
      BY <1>4, <2>2, <3>1, ForgetType DEF Consolidated, CoordinatorType, TypeOK
    <3>3. QED
      BY <1>4, <2>2, <3>1, <3>2, ExchangeSame, DatabaseSame
      DEF Consolidated, TypeOK, runnerVars
  <2>3. QED
    BY <2>1, <2>2
<1>5. CASE Audited
  BY <1>5, EnterType, LabelTypes DEF Audited, TypeOK
<1>6. CASE StrategyDone
  BY <1>6, EnterType DEF StrategyDone, TypeOK
<1>7. CASE EndOfTick
  <2>1. tick' \in 0..AuditTick
    BY <1>7, RunnerAssumption DEF EndOfTick, TypeOK
  <2>2. CoordinatorType' /\ pc' \in RunnerLabels /\ mode' \in Modes
    BY <1>7, GotoType DEF EndOfTick, TypeOK
  <2>3. QED
    BY <1>7, <2>1, <2>2, ExchangeSame, CommitSessionType DEF EndOfTick, TypeOK
<1>8. QED
  BY <1>1, <1>2, <1>3, <1>4, <1>5, <1>6, <1>7 DEF LoopStep

LEMMA WindDownStepType == TypeOK /\ WindDownStep => TypeOK'
<1> SUFFICES ASSUME TypeOK, WindDownStep PROVE TypeOK'
  OBVIOUS
<1> USE DEF RunnerLabels
<1>1. CASE WindDown
  <2>1. cancelling' \in SUBSET OrderIds
    BY <1>1, ListsType DEF WindDown
  <2>2. QED
    BY <1>1, <2>1, GotoType, ExchangeSame, DatabaseSame DEF WindDown, TypeOK
<1>2. ASSUME NEW o \in OrderIds, CancelNext(o) PROVE TypeOK'
  <2>1. CASE RequestCancel({o}) /\ cancelling' = cancelling \ {o} /\ UNCHANGED coordVars
    BY <1>2, <2>1, RequestCancelType, DatabaseSame
    DEF CancelNext, TypeOK, coordVars, locals, CoordinatorType, LocalsType
  <2>2. CASE Raise("other") /\ cancelling' = {} /\ UNCHANGED xVars
    BY <1>2, <2>2, RaiseType, ExchangeSame, DatabaseSame
    DEF CancelNext, TypeOK, Exceptions
  <2>3. QED
    BY <1>2, <2>1, <2>2 DEF CancelNext
<1>3. CASE AllCancelled
  <2>1. CoordinatorType' /\ pc' \in CoordinatorLabels \cup RunnerLabels
    BY <1>3, LabelTypes, GotoType DEF AllCancelled, TypeOK, CoordinatorLabels
  <2>2. QED
    BY <1>3, <2>1, ExchangeSame, DatabaseSame DEF AllCancelled, TypeOK, runnerVars
<1>4. CASE WindDownRequestFails
  BY <1>4, RaiseType, ExchangeSame, DatabaseSame
  DEF WindDownRequestFails, TypeOK, Exceptions
<1>5. QED
  BY <1>1, <1>2, <1>3, <1>4 DEF WindDownStep

LEMMA CatchType ==
  ASSUME TypeOK, NEW newMode \in Modes, NEW label \in RunnerLabels,
         Catch(newMode, label)
  PROVE  ExchangeType' /\ CoordinatorType' /\ RunnerTypes'
<1>1. CoordinatorType'
  BY DEF Catch, TypeOK, CoordinatorType, LocalsType, locals, Exceptions
<1>2. QED
  BY <1>1, ExchangeSame DEF Catch, TypeOK, RunnerTypes

LEMMA CatchStepType == TypeOK /\ CatchStep => TypeOK'
<1> SUFFICES ASSUME TypeOK, CatchStep PROVE TypeOK'
  OBVIOUS
<1> USE DEF Modes, RunnerLabels
<1>1. CASE FastAuditFailed
  BY <1>1, CatchType, DatabaseSame DEF FastAuditFailed, TypeOK, RunnerTypes
<1>2. CASE WindDownRetried
  BY <1>2, CatchType, DatabaseSame DEF WindDownRetried, TypeOK, RunnerTypes
<1>3. CASE ExceptionCaught
  BY <1>3, CatchType, DatabaseSame DEF ExceptionCaught, TypeOK, RunnerTypes
<1>4. CASE RecoveryFailed
  BY <1>4, CatchType, CommitSessionType DEF RecoveryFailed, TypeOK, RunnerTypes
<1>5. CASE TryToRecover
  BY <1>5, EnterType DEF TryToRecover, TypeOK
<1>6. CASE LoopCommitFails
  <2>1. CoordinatorType'
    BY <1>6
    DEF LoopCommitFails, TypeOK, CoordinatorType, LocalsType, locals, Exceptions
  <2>2. QED
    BY <1>6, <2>1, ExchangeSame, RollbackType DEF LoopCommitFails, TypeOK
<1>7. QED
  BY <1>1, <1>2, <1>3, <1>4, <1>5, <1>6 DEF CatchStep

LEMMA ForgetMemoryType ==
  ASSUME ForgetMemory, pc' \in Stopped, crashes' \in Nat
  PROVE  CoordinatorType' /\ RunnerTypes'
<1>1. CoordinatorType'
  BY ForgetType DEF ForgetMemory, CoordinatorType, Exceptions
<1>2. 0 \in 0..AuditTick
  BY RunnerAssumption
<1>3. QED
  BY <1>1, <1>2 DEF ForgetMemory, RunnerTypes, RunnerLabels, Modes

\* The steps that end a process or start one, and the exchange's own.
LEMMA OtherStepType ==
  ASSUME TypeOK, StopStep \/ ExchangeStep \/ Crash \/ Boot \/ Signal
  PROVE  TypeOK'
<1>1. CASE ShutDown
  BY <1>1, ForgetMemoryType, ExchangeSame, CommitSessionType
  DEF ShutDown, TypeOK, RunnerTypes, Stopped
<1>2. CASE ForcedDown
  BY <1>2, ForgetMemoryType, ExchangeSame, CommitSessionType
  DEF ForcedDown, TypeOK, RunnerTypes, Stopped
<1>3. CASE LastCommitFails
  BY <1>3, ForgetMemoryType, ExchangeSame, RollbackType
  DEF LastCommitFails, TypeOK, RunnerTypes, Stopped
<1>4. CASE Crash
  <2>1. pc' \in Stopped /\ crashes' \in Nat
    BY <1>4 DEF Crash, TypeOK, Stopped
  <2>2. QED
    BY <1>4, <2>1, ForgetMemoryType, ExchangeSame, RollbackType
    DEF Crash, TypeOK, RunnerTypes
<1>5. CASE Boot
  BY <1>5, ExchangeSame, DatabaseSame
  DEF Boot, TypeOK, runnerVars, CoordinatorType, LocalsType, locals, RunnerLabels
<1>6. CASE Signal
  BY <1>6, ExchangeSame, DatabaseSame
  DEF Signal, TypeOK, coordVars, CoordinatorType, LocalsType, locals
<1>7. CASE ExchangeStep
  <2>1. ExchangeType'
    BY <1>7, ExchangeStepType DEF ExchangeStep, TypeOK
  <2>2. QED
    BY <1>7, <2>1, DatabaseSame
    DEF ExchangeStep, TypeOK, coordVars, CoordinatorType, LocalsType, locals,
        runnerVars
<1>8. QED
  BY <1>1, <1>2, <1>3, <1>4, <1>5, <1>6, <1>7 DEF StopStep

LEMMA TypeStep == TypeOK /\ [Next]_vars => TypeOK'
<1> SUFFICES ASSUME TypeOK, [Next]_vars PROVE TypeOK'
  OBVIOUS
<1>1. CASE EngineStep
  BY <1>1, CoordinatorStepType, LoopStepType, WindDownStepType, CatchStepType,
     OtherStepType
  DEF EngineStep
<1>2. CASE ExchangeStep \/ Crash \/ Boot \/ Signal
  BY <1>2, OtherStepType
<1>3. CASE UNCHANGED vars
  BY <1>3, ExchangeSame, DatabaseSame
  DEF vars, TypeOK, coordVars, CoordinatorType, LocalsType, locals, runnerVars
<1>4. QED
  BY <1>1, <1>2, <1>3 DEF Next

(***************************************************************************)
(* Every variable of the engine keeps its type, whatever fails.            *)
(***************************************************************************)
THEOREM TypeCorrect == Spec => []TypeOK
<1>1. QED
  BY TypeInit, TypeStep, PTL DEF Spec

-----------------------------------------------------------------------------
(* Few steps touch the ledger.  The others are quiet: they leave the       *)
(* exchange's orders alone, commit or roll back what the session holds,    *)
(* and keep or forget what a call remembers.  Only the balance audit adds  *)
(* to the drift.                                                           *)

ForgetSome ==
  /\ eaten' \in {eaten, {}} /\ partials' \in {partials, {}}
  /\ details' \in {details, NoDetails} /\ change' \in {change, NoChange}
  /\ placing' \in {placing, NoOrder} /\ (secondChance' => secondChance)

QuietSession ==
  /\ UNCHANGED <<status, trades, posted>>
  /\ \/ drift' = drift
     \/ pc = "balance_audit" /\ CloseEnough /\ drift' = DriftRecorded
  /\ Commit \/ UNCHANGED rowVars

QuietControl ==
  \/ UNCHANGED <<pc, locals>>
  \/ /\ pc' \notin {"details", "accounting", "partial", "update_position"}
     /\ pc \notin {"partial", "update_position", "save_order"}
     /\ ForgetSome

Quiet ==
  /\ UNCHANGED <<xState, xFilled>>
  /\ \/ QuietSession /\ QuietControl
     \/ /\ \/ "commit" \in Env
           \/ "crash" \in Env /\ crashes' = crashes + 1 /\ change' = NoChange
        /\ Rollback
        /\ pc' \notin {"details", "accounting", "partial", "update_position"}
        /\ ForgetSome

LedgerStep ==
  \/ GetCurrentOrders \/ RecancelFails \/ GetEatenDetails
  \/ \E o \in OrderIds :
       \/ SettleEaten(o) \/ GetPartialDetails(o) \/ SettlePartial(o)
       \/ PlaceOrder(o) \/ LoseAnswer(o)
  \/ UpdatePosition \/ SaveOrder \/ OrderAuditAgain \/ ReopenRefused
  \/ ExchangeStep

LEMMA ForgetLocalsSome == ForgetLocals \/ UNCHANGED locals => ForgetSome
  BY DEF ForgetLocals, locals, ForgetSome

LEMMA RaiseQuiet ==
  ASSUME NEW kind, Raise(kind), pc \notin {"partial", "update_position", "save_order"}
  PROVE  QuietControl
  BY ForgetLocalsSome DEF Raise, QuietControl

LEMMA CoordinatorKinds == CoordinatorNext => LedgerStep \/ Quiet
<1> SUFFICES ASSUME CoordinatorNext, ~LedgerStep PROVE Quiet
  OBVIOUS
<1>1. AccountingDone \/ Audit \/ (\E o \in OrderIds : CancelOrder(o)) \/ CoordinatorFails
  BY DEF CoordinatorNext, LedgerStep, Consolidate, Trade
<1>2. CASE AccountingDone
  BY <1>2
  DEF AccountingDone, Quiet, QuietSession, QuietControl, ForgetSome, Goto, xVars,
      dbVars, sesVars
<1>3. CASE Audit
  <2>1. CASE OrderAuditPasses
    BY <2>1
    DEF OrderAuditPasses, Quiet, QuietSession, QuietControl, ForgetSome, Goto,
        xVars, dbVars, sesVars
  <2>2. CASE OrderAuditFails \/ BalanceAuditFails
    BY <2>2, RaiseQuiet
    DEF OrderAuditFails, BalanceAuditFails, Quiet, QuietSession, xVars, dbVars, sesVars
  <2>3. CASE LedgerAuditFails
    BY <2>3, RaiseQuiet DEF LedgerAuditFails, Quiet, QuietSession, xVars
  <2>4. CASE AuditPasses
    BY <2>4, ForgetLocalsSome
    DEF AuditPasses, Quiet, QuietSession, QuietControl, Goto, xVars
  <2>5. QED
    BY <1>3, <2>1, <2>2, <2>3, <2>4 DEF Audit, LedgerStep
<1>4. ASSUME NEW o \in OrderIds, CancelOrder(o) PROVE Quiet
  BY <1>4
  DEF CancelOrder, RequestCancel, Quiet, QuietSession, QuietControl, coordVars,
      locals, dbVars, sesVars
<1>5. CASE CoordinatorFails
  <2>1. CASE RequestFails \/ AuditRequestFails
    BY <2>1, RaiseQuiet
    DEF RequestFails, AuditRequestFails, Quiet, QuietSession, xVars, dbVars, sesVars
  <2>2. CASE AuditRequestRetried
    BY <2>2, ForgetLocalsSome
    DEF AuditRequestRetried, Quiet, QuietSession, QuietControl, Goto, xVars,
        dbVars, sesVars
  <2>3. CASE StrategyFails
    BY <2>3, ForgetLocalsSome
    DEF StrategyFails, Quiet, QuietSession, QuietControl, xVars, dbVars, sesVars
  <2>4. CASE CommitFails
    BY <2>4, ForgetLocalsSome DEF CommitFails, Raise, Quiet, xVars
  <2>5. QED
    BY <1>5, <2>1, <2>2, <2>3, <2>4 DEF CoordinatorFails, LedgerStep
<1>6. QED
  BY <1>1, <1>2, <1>3, <1>4, <1>5

LEMMA EnterQuiet ==
  ASSUME NEW newMode, NEW label, Enter(newMode, label),
         pc \notin {"partial", "update_position", "save_order"},
         label \notin {"details", "accounting", "partial", "update_position"}
  PROVE  Quiet
  BY ForgetLocalsSome
  DEF Enter, Goto, Quiet, QuietSession, QuietControl, xVars, dbVars, sesVars

LEMMA CatchQuiet ==
  ASSUME NEW newMode, NEW label, Catch(newMode, label), QuietSession,
         label \notin {"details", "accounting", "partial", "update_position"}
  PROVE  Quiet
  BY ForgetLocalsSome DEF Catch, Quiet, QuietControl, xVars

LEMMA RunnerKinds ==
  LoopStep \/ WindDownStep \/ CatchStep \/ StopStep \/ Crash \/ Boot \/ Signal => Quiet
<1> USE DEF TickLabel, AuditLabel
<1>1. ASSUME LoopStep PROVE Quiet
  <2>1. CASE StopRequested \/ EndOfTick
    BY <2>1, ForgetLocalsSome
    DEF StopRequested, EndOfTick, Quiet, QuietSession, QuietControl, Goto, xVars,
        sesVars
  <2>2. CASE FirstTick \/ TickOrAudit \/ Audited \/ StrategyDone
    BY <2>2, EnterQuiet DEF FirstTick, TickOrAudit, Audited, StrategyDone
  <2>3. CASE Consolidated
    BY <2>3, RaiseQuiet, ForgetLocalsSome
    DEF Consolidated, Quiet, QuietSession, QuietControl, Goto, xVars, dbVars, sesVars
  <2>4. QED
    BY <1>1, <2>1, <2>2, <2>3 DEF LoopStep
<1>2. ASSUME WindDownStep PROVE Quiet
  <2>1. CASE WindDown \/ AllCancelled
    BY <2>1, ForgetLocalsSome
    DEF WindDown, AllCancelled, Quiet, QuietSession, QuietControl, Goto, xVars,
        dbVars, sesVars
  <2>2. ASSUME NEW o \in OrderIds, CancelNext(o) PROVE Quiet
    BY <2>2, RaiseQuiet
    DEF CancelNext, RequestCancel, Quiet, QuietSession, QuietControl, coordVars,
        xVars, dbVars, sesVars
  <2>3. CASE WindDownRequestFails
    BY <2>3, RaiseQuiet
    DEF WindDownRequestFails, Quiet, QuietSession, xVars, dbVars, sesVars
  <2>4. QED
    BY <1>2, <2>1, <2>2, <2>3 DEF WindDownStep
<1>3. ASSUME CatchStep PROVE Quiet
  <2>1. CASE FastAuditFailed \/ WindDownRetried \/ ExceptionCaught \/ RecoveryFailed
    BY <2>1, CatchQuiet
    DEF FastAuditFailed, WindDownRetried, ExceptionCaught, RecoveryFailed,
        QuietSession, dbVars, sesVars
  <2>2. CASE TryToRecover
    BY <2>2, EnterQuiet DEF TryToRecover
  <2>3. CASE LoopCommitFails
    BY <2>3, ForgetLocalsSome DEF LoopCommitFails, Quiet, xVars
  <2>4. QED
    BY <1>3, <2>1, <2>2, <2>3 DEF CatchStep
<1>4. ASSUME StopStep \/ Crash PROVE Quiet
  <2>1. CASE ShutDown \/ ForcedDown
    BY <2>1, ForgetLocalsSome
    DEF ShutDown, ForcedDown, ForgetMemory, Quiet, QuietSession, QuietControl,
        xVars, sesVars
  <2>2. CASE LastCommitFails \/ Crash
    BY <2>2, ForgetLocalsSome
    DEF LastCommitFails, Crash, ForgetMemory, ForgetLocals, Quiet, xVars
  <2>3. QED
    BY <1>4, <2>1, <2>2 DEF StopStep
<1>5. ASSUME Boot \/ Signal PROVE Quiet
  BY <1>5, ForgetLocalsSome
  DEF Boot, Signal, Stopped, Quiet, QuietSession, QuietControl, xVars, dbVars,
      sesVars, coordVars
<1>6. QED
  BY <1>1, <1>2, <1>3, <1>4, <1>5

LEMMA StepKinds == [Next]_vars => LedgerStep \/ Quiet
<1>1. CASE Next
  BY <1>1, CoordinatorKinds, RunnerKinds
  DEF Next, EngineStep, CoordinatorStep, LedgerStep
<1>2. CASE UNCHANGED vars
  BY <1>2
  DEF vars, Quiet, QuietSession, QuietControl, xVars, dbVars, sesVars, coordVars
<1>3. QED
  BY <1>1, <1>2

-----------------------------------------------------------------------------
(* No phantom trades                                                       *)

\* What was reported for an order was traded before: the volume traded only
\* grows.
ReportedTrades ==
  /\ NoPhantomTrades
  /\ \A o \in OrderIds : details[o] <= xFilled[o]

LEMMA FillGrows ==
  ASSUME TypeOK, ExchangeStep
  PROVE  \A o \in OrderIds : xFilled[o] <= xFilled'[o]
  BY DEF TypeOK, ExchangeType, ExchangeStep, Fill, CancelTakesEffect

LEMMA ReportedInit == Init => ReportedTrades
  BY DEF Init, ExchangeInit, DatabaseInit, CoordinatorInit, NoDetails,
     ReportedTrades, NoPhantomTrades

LEMMA ReportedStep ==
  ASSUME TypeOK, TypeOK', ReportedTrades, [Next]_vars
  PROVE  ReportedTrades'
<1> USE DEF ReportedTrades, NoPhantomTrades
<1>1. \A o \in OrderIds :
        /\ xFilled[o] \in Nat /\ trades[o] \in Nat /\ dbTrades[o] \in Nat
        /\ details[o] \in Nat /\ NoDetails[o] = 0
  BY AccountAssumption
  DEF TypeOK, ExchangeType, DatabaseType, SessionType, RowType, CoordinatorType,
      LocalsType, NoDetails
<1>2. CASE Quiet
  <2>1. /\ xFilled' = xFilled /\ details' \in {details, NoDetails}
        /\ trades' \in {trades, dbTrades} /\ dbTrades' \in {trades, dbTrades}
    BY <1>2
    DEF Quiet, QuietSession, QuietControl, ForgetSome, locals, Commit, Rollback,
        rowVars
  <2>2. QED
    BY <1>1, <2>1
<1>3. CASE GetCurrentOrders \/ RecancelFails \/ OrderAuditAgain \/ ReopenRefused
  <2>1. /\ xFilled' = xFilled /\ trades' = trades /\ dbTrades' = dbTrades
        /\ details' \in {details, NoDetails}
    BY <1>3
    DEF GetCurrentOrders, RecancelFails, OrderAuditAgain, ReopenRefused, Reopen,
        RequestCancel, Raise, ForgetLocals, xVars, dbVars, sesVars, rowVars
  <2>2. QED
    BY <1>1, <2>1
<1>4. CASE GetEatenDetails
  <2>1. \A o \in OrderIds : details'[o] <= xFilled[o]
    BY <1>1, <1>4, ReportsType DEF GetEatenDetails, TypeOK
  <2>2. QED
    BY <1>4, <2>1 DEF GetEatenDetails, xVars, dbVars, sesVars, rowVars
<1>5. ASSUME NEW o \in OrderIds, SettleEaten(o) PROVE ReportedTrades'
  <2>1. trades' = [trades EXCEPT ![o] = IF details[o] <= 0 THEN @ ELSE details[o]]
    BY <1>5 DEF SettleEaten, WasEaten
  <2>2. \A p \in OrderIds : trades'[p] <= xFilled[p]
    BY <2>1 DEF TypeOK, DatabaseType, SessionType
  <2>3. QED
    BY <1>5, <2>2 DEF SettleEaten, Commit, xVars
<1>6. ASSUME NEW o \in OrderIds, SettlePartial(o) PROVE ReportedTrades'
  <2>1. trades' = [trades EXCEPT ![o] = details[o]]
    BY <1>6 DEF SettlePartial, WasPartiallyEaten
  <2>2. \A p \in OrderIds : trades'[p] <= xFilled[p]
    BY <2>1 DEF TypeOK, DatabaseType, SessionType
  <2>3. QED
    BY <1>6, <2>2 DEF SettlePartial, Commit, xVars
<1>7. ASSUME NEW o \in OrderIds, GetPartialDetails(o) PROVE ReportedTrades'
  <2>1. PICK filled \in Reports(o) : details' = [NoDetails EXCEPT ![o] = filled]
    BY <1>7 DEF GetPartialDetails
  <2>2. filled <= xFilled[o]
    BY <1>1, ReportsType DEF TypeOK
  <2>3. \A p \in OrderIds : details'[p] <= xFilled[p]
    BY <1>1, <2>1, <2>2 DEF NoDetails
  <2>4. QED
    BY <1>7, <2>3 DEF GetPartialDetails, xVars, dbVars, sesVars, rowVars
<1>8. ASSUME NEW o \in OrderIds, PlaceOrder(o) \/ LoseAnswer(o)
      PROVE  ReportedTrades'
  BY <1>8
  DEF PlaceOrder, LoseAnswer, Accept, dbVars, sesVars, rowVars, locals
<1>9. CASE UpdatePosition \/ SaveOrder
  BY <1>9
  DEF UpdatePosition, AddToPosition, SaveOrder, NewOrder, Commit, xVars
<1>10. CASE ExchangeStep
  BY <1>1, <1>10, FillGrows, TypeOK'
  DEF ExchangeStep, dbVars, sesVars, rowVars, coordVars, locals, TypeOK, ExchangeType
<1>11. QED
  BY <1>2, <1>3, <1>4, <1>5, <1>6, <1>8, <1>9, <1>10, <1>7, StepKinds DEF LedgerStep

(***************************************************************************)
(* The database never claims a trade that was not made, whatever fails and *)
(* however stale the exchange's answers are.                               *)
(***************************************************************************)
THEOREM NoPhantoms == Spec => []NoPhantomTrades
<1>1. ReportedTrades => NoPhantomTrades
  BY DEF ReportedTrades
<1>2. Spec => []ReportedTrades
  BY ReportedInit, ReportedStep, TypeCorrect, PTL DEF Spec
<1>3. QED
  BY <1>1, <1>2, PTL

-----------------------------------------------------------------------------
(* Settled orders                                                          *)

(***************************************************************************)
(* Why settled orders are exact.  An order that _get_current_orders takes  *)
(* for eaten is OPEN in the ledger and closed on the exchange, and stays   *)
(* so until it is settled; its details, requested after that, are final.   *)
(* The details of one that is only partially eaten are never behind its    *)
(* trades.  The session never differs from the rows in an order.           *)
(***************************************************************************)
Accounting == pc \in {"accounting", "partial", "update_position"}

LedgerInv ==
  /\ status = dbStatus /\ trades = dbTrades
  /\ ~secondChance
  /\ eaten \cap partials = {}
  /\ \A o \in OrderIds :
       /\ status[o] \in Settled => xState[o] = "closed" /\ trades[o] = xFilled[o]
       /\ xState[o] = "none" => status[o] = "NONE"
       /\ status[o] = "NONE" => trades[o] = 0
       /\ o \in eaten => status[o] = "OPEN" /\ xState[o] = "closed"
       /\ o \in eaten /\ Accounting => details[o] = xFilled[o]
       /\ o \in partials => status[o] = "OPEN"
       /\ pc = "partial" /\ o = change.order =>
            status[o] = "OPEN" /\ trades[o] <= details[o]
       /\ o = placing => status[o] = "NONE" /\ xState[o] # "none"

\* The exchange answers from fresh data and reopen_orders fails as it does.
AsItIs == "lag" \notin Env /\ WrapperHasLog = FALSE

LEMMA LedgerInit == Init => LedgerInv
  BY AccountAssumption
  DEF Init, ExchangeInit, DatabaseInit, CoordinatorInit, LedgerInv, Settled,
      NoOrder, OrderIds, Accounting

LEMMA FreshAnswers ==
  ASSUME AsItIs
  PROVE  /\ OpenOrderLists = {OpenOnExchange}
         /\ \A o \in OrderIds : Reports(o) = {xFilled[o]}
  BY DEF AsItIs, OpenOrderLists, Reports

\* handle_unexpected_orders finds nothing to cancel again.
LEMMA NothingToRecancel ==
  ASSUME TypeOK, LedgerInv, NEW o \in Unexpected(OpenOnExchange)
  PROVE  status[o] # "CANCELLED"
  BY DEF LedgerInv, Settled, Unexpected, OpenOnExchange

LEMMA ReopenNothing ==
  ASSUME TypeOK, Reopen({})
  PROVE  status' = status /\ trades' = trades
  BY DEF TypeOK, DatabaseType, SessionType, Reopen

\* A list without an order that the session does not have as OPEN.
FreshConsolidation ==
  /\ pc = "open_orders" /\ OpenOnExchange \subseteq DbOpenOrders
  /\ UNCHANGED <<xState, xFilled, status, trades, rowVars>>
  /\ current' = OpenOnExchange
  /\ eaten' = DbOpenOrders \ OpenOnExchange
  /\ partials' = ShrunkIn(OpenOnExchange)
  /\ Goto(IF DbOpenOrders \subseteq OpenOnExchange THEN "accounting" ELSE "details")
  /\ UNCHANGED <<active, details, change, placing, secondChance>>

LEMMA ConsolidatesFresh ==
  ASSUME AsItIs, TypeOK, LedgerInv, GetCurrentOrders
  PROVE  (Raise("audit") /\ UNCHANGED <<xVars, dbVars>>) \/ FreshConsolidation
<1>1. CASE Alarming(OpenOnExchange)
  BY <1>1, FreshAnswers DEF GetCurrentOrders
<1>2. CASE ~Alarming(OpenOnExchange)
  <2>1. Unexpected(OpenOnExchange) = {}
    BY <1>2, NothingToRecancel DEF Alarming
  <2>2. /\ Reopen({}) /\ UNCHANGED rowVars /\ RequestCancel({})
        /\ current' = OpenOnExchange \cap DbOpenOrders
        /\ eaten' = DbOpenOrders \ OpenOnExchange
        /\ partials' = ShrunkIn(OpenOnExchange)
        /\ Goto(IF DbOpenOrders \subseteq OpenOnExchange
                  THEN "accounting" ELSE "details")
        /\ UNCHANGED <<active, details, change, placing, secondChance>>
    BY <1>2, <2>1, FreshAnswers, AsItIs DEF GetCurrentOrders, AsItIs
  <2>3. OpenOnExchange \subseteq DbOpenOrders
    BY <2>1 DEF Unexpected
  <2>4. UNCHANGED <<xState, xFilled, status, trades>>
    BY <2>2, ReopenNothing DEF RequestCancel
  <2>5. current' = OpenOnExchange
    BY <2>2, <2>3
  <2>6. pc = "open_orders"
    BY DEF GetCurrentOrders
  <2>7. QED
    BY <2>2, <2>3, <2>4, <2>5, <2>6 DEF FreshConsolidation
<1>3. QED
  BY <1>1, <1>2

LEMMA RecancelsNone ==
  ASSUME AsItIs, TypeOK, LedgerInv
  PROVE  ~RecancelFails
<1>1. SUFFICES ASSUME RecancelFails PROVE FALSE
  OBVIOUS
<1>2. PICK o \in Unexpected(OpenOnExchange) : ~Alarming(OpenOnExchange)
  BY <1>1, FreshAnswers DEF RecancelFails
<1>3. QED
  BY <1>2, NothingToRecancel DEF Alarming

LEMMA LedgerInvStep ==
  ASSUME AsItIs, TypeOK, TypeOK', ReportedTrades, LedgerInv, [Next]_vars
  PROVE  LedgerInv'
<1>1. CASE Quiet
  <2>1. /\ xFilled' = xFilled /\ xState' = xState
        /\ status' = status /\ dbStatus' = status
        /\ trades' = trades /\ dbTrades' = trades
    BY <1>1 DEF Quiet, QuietSession, Commit, Rollback, rowVars, LedgerInv
  <2>2. ForgetSome
    BY <1>1, ForgetLocalsSome DEF Quiet, QuietControl, locals
  <2>3. Accounting' => UNCHANGED <<pc, locals>>
    BY <1>1 DEF Quiet, QuietControl, Accounting
  <2>4. \A o \in OrderIds : o # NoOrder
    BY DEF OrderIds, NoOrder
  <2>5. /\ ~secondChance'
        /\ eaten' \subseteq eaten /\ partials' \subseteq partials
        /\ placing' \in {placing, NoOrder}
    BY <2>2 DEF LedgerInv, ForgetSome
  <2>6. /\ Accounting' => Accounting /\ details' = details
        /\ pc' = "partial" => pc = "partial" /\ change' = change /\ details' = details
    BY <2>3 DEF locals, Accounting
  <2>7. QED
    BY <2>1, <2>4, <2>5, <2>6 DEF LedgerInv
<1>2. CASE GetCurrentOrders
  <2>1. CASE Raise("audit") /\ UNCHANGED <<xVars, dbVars>>
    <3>1. \A o \in OrderIds : o # NoOrder
      BY DEF OrderIds, NoOrder
    <3>2. QED
      BY <2>1, <3>1
      DEF Raise, ForgetLocals, NoChange, LedgerInv, xVars, dbVars, sesVars, rowVars,
          Accounting
  <2>2. CASE FreshConsolidation
    <3>1. \A o \in eaten' : status[o] = "OPEN" /\ xState[o] = "closed"
      BY <2>2
      DEF FreshConsolidation, DbOpenOrders, OpenOnExchange, LedgerInv, TypeOK,
          ExchangeType
    <3>2. \A o \in partials' : status[o] = "OPEN" /\ o \in OpenOnExchange
      BY <2>2 DEF FreshConsolidation, ShrunkIn, DbOpenOrders
    <3>3. pc' # "partial" /\ (Accounting' => eaten' = {})
      BY <2>2 DEF FreshConsolidation, Accounting, Goto
    <3>4. QED
      BY <2>2, <3>1, <3>2, <3>3
      DEF FreshConsolidation, LedgerInv, OpenOnExchange, rowVars
  <2>3. QED
    BY <1>2, <2>1, <2>2, ConsolidatesFresh
<1>3. CASE RecancelFails
  BY <1>3, RecancelsNone
<1>4. CASE GetEatenDetails
  <2>1. \A o \in OrderIds : o \in eaten => details'[o] = xFilled[o]
    BY <1>4, FreshAnswers DEF GetEatenDetails
  <2>2. QED
    BY <1>4, <2>1
    DEF GetEatenDetails, LedgerInv, xVars, dbVars, sesVars, rowVars, Accounting, Goto
<1>5. ASSUME NEW o \in OrderIds, SettleEaten(o) PROVE LedgerInv'
  <2>1. /\ status[o] = "OPEN" /\ xState[o] = "closed" /\ details[o] = xFilled[o]
    BY <1>5 DEF SettleEaten, LedgerInv, Accounting
  <2>2. /\ trades' = [trades EXCEPT ![o] = IF xFilled[o] <= 0 THEN @ ELSE xFilled[o]]
        /\ status' = [status EXCEPT ![o] =
                         IF details[o] <= 0 THEN "CANCELLED" ELSE "FILLED"]
    BY <1>5, <2>1 DEF SettleEaten, WasEaten
  <2>3. trades'[o] = xFilled[o]
    <3>1. xFilled[o] \in Nat /\ trades[o] \in Nat /\ trades[o] <= xFilled[o]
      BY AccountAssumption
      DEF TypeOK, ExchangeType, DatabaseType, SessionType, ReportedTrades,
          NoPhantomTrades
    <3>2. QED
      BY <2>2, <3>1 DEF TypeOK, DatabaseType, SessionType
  <2>4. \A p \in OrderIds : p # o => status'[p] = status[p] /\ trades'[p] = trades[p]
    BY <2>2 DEF TypeOK, DatabaseType, SessionType
  <2>5. /\ eaten' = eaten \ {o} /\ o \in eaten /\ Accounting /\ pc' # "partial"
        /\ dbStatus' = status' /\ dbTrades' = trades'
        /\ UNCHANGED <<xState, xFilled, partials, details, placing, secondChance>>
    BY <1>5 DEF SettleEaten, Commit, xVars, Goto, Accounting
  <2>6. o \notin partials /\ o # placing
    BY <2>1, <2>5 DEF LedgerInv
  <2>7. status'[o] \in Settled
    BY <2>2 DEF TypeOK, DatabaseType, SessionType, Settled
  <2>8. QED
    BY <2>1, <2>3, <2>4, <2>5, <2>6, <2>7 DEF LedgerInv, Settled
<1>6. ASSUME NEW o \in OrderIds, SettlePartial(o) PROVE LedgerInv'
  <2>1. /\ status[o] = "OPEN" /\ o # placing /\ Accounting /\ pc' # "partial"
    BY <1>6 DEF SettlePartial, LedgerInv, Accounting, Goto
  <2>2. /\ status' = status /\ dbStatus' = status' /\ dbTrades' = trades'
        /\ \A p \in OrderIds : p # o => trades'[p] = trades[p]
    BY <1>6
    DEF SettlePartial, WasPartiallyEaten, Commit, TypeOK, DatabaseType, SessionType
  <2>3. UNCHANGED <<xState, xFilled, eaten, partials, details, placing, secondChance>>
    BY <1>6 DEF SettlePartial, xVars
  <2>4. QED
    BY <2>1, <2>2, <2>3 DEF LedgerInv, Settled
<1>7. ASSUME NEW o \in OrderIds, GetPartialDetails(o) PROVE LedgerInv'
  <2>1. /\ eaten = {} /\ o \in partials /\ status[o] = "OPEN"
        /\ eaten' = {} /\ partials' = partials \ {o} /\ change'.order = o
        /\ UNCHANGED <<xState, xFilled, dbVars, placing, secondChance>>
    BY <1>7 DEF GetPartialDetails, LedgerInv, xVars
  <2>2. details' = [NoDetails EXCEPT ![o] = xFilled[o]]
    BY <1>7, FreshAnswers DEF GetPartialDetails
  <2>3. trades[o] <= details'[o]
    BY <2>2 DEF NoDetails, ReportedTrades, NoPhantomTrades
  <2>4. QED
    BY <2>1, <2>3 DEF LedgerInv, dbVars, sesVars, rowVars
<1>8. ASSUME NEW o \in OrderIds, PlaceOrder(o) \/ LoseAnswer(o)
      PROVE  LedgerInv'
  <2>1. /\ xState[o] = "none" /\ status[o] = "NONE"
        /\ xState' = [xState EXCEPT ![o] = "open"] /\ xFilled' = xFilled
        /\ placing' \in {placing, o} /\ ~Accounting' /\ pc' # "partial"
    BY <1>8 DEF PlaceOrder, LoseAnswer, Accept, LedgerInv, locals, Goto, Accounting
  <2>2. UNCHANGED <<dbVars, eaten, partials, details, secondChance>>
    BY <1>8 DEF PlaceOrder, LoseAnswer, locals
  <2>3. /\ xState'[o] = "open"
        /\ \A p \in OrderIds : p # o => xState'[p] = xState[p]
    BY <2>1 DEF TypeOK, ExchangeType
  <2>4. QED
    BY <2>1, <2>2, <2>3 DEF LedgerInv, dbVars, sesVars, rowVars, Settled
<1>9. CASE SaveOrder
  <2>1. /\ status' = [status EXCEPT ![placing] = "OPEN"] /\ trades' = trades
        /\ dbStatus' = status' /\ dbTrades' = trades' /\ placing' = NoOrder
        /\ UNCHANGED <<xState, xFilled, eaten, partials, details, secondChance>>
        /\ ~Accounting' /\ pc' # "partial"
    BY <1>9 DEF SaveOrder, NewOrder, Commit, xVars, Goto, Accounting
  <2>2. \A o \in OrderIds :
          /\ o # NoOrder
          /\ IF o = placing THEN status'[o] = "OPEN" /\ status[o] = "NONE"
                                /\ xState[o] # "none"
                           ELSE status'[o] = status[o]
    BY <2>1 DEF TypeOK, DatabaseType, SessionType, LedgerInv, OrderIds, NoOrder
  <2>3. QED
    BY <2>1, <2>2 DEF LedgerInv, Settled
<1>10. CASE UpdatePosition
  <2>1. /\ UNCHANGED <<status, trades, xState, xFilled, eaten, partials, details,
                       placing, secondChance>>
        /\ dbStatus' = status' /\ dbTrades' = trades'
        /\ Accounting /\ pc' # "partial"
    BY <1>10 DEF UpdatePosition, AddToPosition, Commit, xVars, Goto, Accounting
  <2>2. QED
    BY <2>1 DEF LedgerInv
<1>11. CASE OrderAuditAgain
  <2>1. Raise("other") /\ UNCHANGED <<xVars, dbVars>>
    BY <1>11 DEF OrderAuditAgain, AsItIs
  <2>2. \A o \in OrderIds : o # NoOrder
    BY DEF OrderIds, NoOrder
  <2>3. QED
    BY <2>1, <2>2
    DEF Raise, ForgetLocals, LedgerInv, xVars, dbVars, sesVars, rowVars, Accounting
<1>12. CASE ReopenRefused
  BY <1>12 DEF ReopenRefused, AsItIs
<1>13. CASE ExchangeStep
  <2>1. PICK o \in OrderIds : Fill(o) \/ CancelTakesEffect(o)
    BY <1>13 DEF ExchangeStep
  <2>2. /\ xState[o] = "open" /\ xState'[o] \in {"open", "closed"}
        /\ \A p \in OrderIds : p # o => xState'[p] = xState[p] /\ xFilled'[p] = xFilled[p]
    BY <2>1 DEF Fill, CancelTakesEffect, TypeOK, ExchangeType, OpenOnExchange
  <2>3. UNCHANGED <<dbVars, pc, locals>>
    BY <1>13 DEF ExchangeStep, coordVars
  <2>4. QED
    BY <2>2, <2>3
    DEF LedgerInv, dbVars, sesVars, rowVars, locals, Accounting, Settled
<1>14. QED
  BY <1>1, <1>2, <1>3, <1>4, <1>5, <1>6, <1>8, <1>9, <1>10, <1>11, <1>12, <1>13,
     <1>7, StepKinds
  DEF LedgerStep

LEMMA LedgerCorrect ==
  ASSUME AsItIs
  PROVE  Spec => [](TypeOK /\ ReportedTrades /\ LedgerInv)
<1>1. Init => TypeOK /\ ReportedTrades /\ LedgerInv
  BY TypeInit, ReportedInit, LedgerInit
<1>2. TypeOK /\ ReportedTrades /\ LedgerInv /\ [Next]_vars
        => (TypeOK /\ ReportedTrades /\ LedgerInv)'
  BY AsItIs, TypeStep, ReportedStep, LedgerInvStep
<1>3. QED
  BY <1>1, <1>2, PTL DEF Spec

(***************************************************************************)
(* An order the database calls FILLED or CANCELLED is closed, with all its *)
(* trades, whichever requests, commits and processes fail.                 *)
(***************************************************************************)
THEOREM SettledExact == ASSUME AsItIs PROVE Spec => []SettledOrdersExact
<1>1. LedgerInv => SettledOrdersExact
  BY DEF LedgerInv, SettledOrdersExact
<1>2. QED
  BY <1>1, AsItIs, LedgerCorrect, PTL

-----------------------------------------------------------------------------
(* The database implements the trade book                                  *)

LEMMA BookInit == Init => Book!Init
  BY DEF Init, ExchangeInit, DatabaseInit, Book!Init, Settled

LEMMA BookStep ==
  ASSUME AsItIs, TypeOK, ReportedTrades, LedgerInv, [Next]_vars
  PROVE  [Book!Next]_(Book!vars)
<1> DEFINE gone == {o \in OrderIds : xState[o] = "closed"}
           settled == {o \in OrderIds : dbStatus[o] \in Settled}
           Stutter == UNCHANGED <<xFilled, gone, dbTrades, settled>>
<1>1. ASSUME Stutter PROVE UNCHANGED Book!vars
  BY <1>1 DEF Book!vars
<1>2. CASE Quiet
  <2>1. /\ xFilled' = xFilled /\ xState' = xState
        /\ dbTrades' = dbTrades /\ dbStatus' = dbStatus
    BY <1>2 DEF Quiet, QuietSession, Commit, Rollback, rowVars, LedgerInv
  <2>2. QED
    BY <2>1, <1>1
<1>3. CASE GetCurrentOrders \/ RecancelFails \/ GetEatenDetails \/ OrderAuditAgain
             \/ ReopenRefused \/ (\E o \in OrderIds : GetPartialDetails(o))
  <2>1. /\ xFilled' = xFilled /\ xState' = xState
        /\ dbTrades' = dbTrades /\ dbStatus' = dbStatus
    BY <1>3
    DEF GetCurrentOrders, RecancelFails, GetEatenDetails, OrderAuditAgain,
        GetPartialDetails, ReopenRefused, RequestCancel, xVars, dbVars, rowVars
  <2>2. QED
    BY <2>1, <1>1
<1>4. ASSUME NEW o \in OrderIds, SettleEaten(o) PROVE Book!Next
  <2>1. /\ status[o] = "OPEN" /\ xState[o] = "closed" /\ details[o] = xFilled[o]
        /\ dbStatus = status /\ dbTrades = trades
    BY <1>4 DEF SettleEaten, LedgerInv, Accounting
  <2>2. xFilled[o] \in Nat /\ trades[o] \in Nat /\ trades[o] <= xFilled[o]
    BY AccountAssumption
    DEF TypeOK, ExchangeType, DatabaseType, SessionType, ReportedTrades,
        NoPhantomTrades
  <2>3. dbTrades' = [dbTrades EXCEPT ![o] = xFilled[o]]
    <3>1. dbTrades' = [trades EXCEPT ![o] = IF xFilled[o] <= 0 THEN trades[o]
                                                             ELSE xFilled[o]]
      BY <1>4, <2>1 DEF SettleEaten, WasEaten, Commit
    <3>2. (IF xFilled[o] <= 0 THEN trades[o] ELSE xFilled[o]) = xFilled[o]
      BY <2>2
    <3>3. QED
      BY <2>1, <3>1, <3>2
  <2>4. settled' = settled \cup {o}
    BY <1>4, <2>1
    DEF SettleEaten, WasEaten, Commit, TypeOK, DatabaseType, SessionType, Settled
  <2>5. xFilled' = xFilled /\ gone' = gone /\ o \in gone \ settled
    BY <1>4, <2>1 DEF SettleEaten, xVars, Settled
  <2>6. QED
    BY <2>3, <2>4, <2>5 DEF Book!Next, Book!Settle
<1>5. ASSUME NEW o \in OrderIds, SettlePartial(o) PROVE Book!Next
  <2>1. /\ status[o] = "OPEN" /\ dbStatus = status /\ dbTrades = trades
        /\ trades[o] <= details[o] /\ details[o] <= xFilled[o]
    BY <1>5 DEF SettlePartial, LedgerInv, ReportedTrades
  <2>2. dbTrades' = [dbTrades EXCEPT ![o] = details[o]] /\ dbStatus' = dbStatus
    BY <1>5, <2>1 DEF SettlePartial, WasPartiallyEaten, Commit
  <2>3. /\ xFilled' = xFilled /\ gone' = gone /\ settled' = settled
        /\ o \notin settled
    BY <1>5, <2>1, <2>2 DEF SettlePartial, xVars, Settled
  <2>4. details[o] \in dbTrades[o]..xFilled[o]
    BY <2>1, AccountAssumption
    DEF TypeOK, ExchangeType, DatabaseType, RowType, CoordinatorType, LocalsType
  <2>5. QED
    BY <2>2, <2>3, <2>4 DEF Book!Next, Book!Enter
<1>6. ASSUME NEW o \in OrderIds, PlaceOrder(o) \/ LoseAnswer(o)
      PROVE  UNCHANGED Book!vars
  <2>1. /\ xFilled' = xFilled /\ dbTrades' = dbTrades /\ dbStatus' = dbStatus
        /\ xState' = [xState EXCEPT ![o] = "open"] /\ xState[o] = "none"
    BY <1>6 DEF PlaceOrder, LoseAnswer, Accept, dbVars, rowVars
  <2>2. gone' = gone
    BY <2>1 DEF TypeOK, ExchangeType
  <2>3. QED
    BY <2>1, <2>2, <1>1
<1>7. CASE SaveOrder
  <2>1. /\ xFilled' = xFilled /\ xState' = xState /\ dbTrades' = dbTrades
        /\ dbStatus' = [dbStatus EXCEPT ![placing] = "OPEN"]
    BY <1>7 DEF SaveOrder, NewOrder, Commit, xVars, LedgerInv
  <2>2. \A o \in OrderIds : o = placing => dbStatus[o] = "NONE"
    BY DEF LedgerInv
  <2>3. settled' = settled
    BY <2>1, <2>2 DEF Settled, TypeOK, DatabaseType, RowType
  <2>4. QED
    BY <2>1, <2>3, <1>1
<1>8. CASE UpdatePosition
  <2>1. /\ xFilled' = xFilled /\ xState' = xState
        /\ dbTrades' = dbTrades /\ dbStatus' = dbStatus
    BY <1>8 DEF UpdatePosition, AddToPosition, Commit, xVars, LedgerInv
  <2>2. QED
    BY <2>1, <1>1
<1>9. CASE ExchangeStep
  <2>1. PICK o \in OrderIds : Fill(o) \/ CancelTakesEffect(o)
    BY <1>9 DEF ExchangeStep
  <2>2. xState[o] = "open"
    BY <2>1 DEF Fill, CancelTakesEffect, TypeOK, ExchangeType, OpenOnExchange
  <2>3. dbTrades' = dbTrades /\ settled' = settled
    BY <1>9 DEF ExchangeStep, dbVars, rowVars
  <2>4. CASE Fill(o)
    <3>1. /\ xFilled' = [xFilled EXCEPT ![o] = @ + 1]
          /\ xFilled[o] < Volume /\ o \notin gone
          /\ gone' = gone \/ gone' = gone \cup {o}
      BY <2>2, <2>4 DEF Fill, TypeOK, ExchangeType
    <3>2. QED
      BY <2>3, <3>1 DEF Book!Next, Book!Execute
  <2>5. CASE CancelTakesEffect(o)
    <3>1. xFilled' = xFilled /\ gone' = gone \cup {o}
      BY <2>5 DEF CancelTakesEffect, TypeOK, ExchangeType
    <3>2. QED
      BY <2>3, <3>1 DEF Book!Next, Book!Leave
  <2>6. QED
    BY <2>1, <2>4, <2>5
<1>10. QED
  BY <1>2, <1>3, <1>4, <1>5, <1>6, <1>7, <1>8, <1>9, StepKinds DEF LedgerStep

(***************************************************************************)
(* The trading database implements the trade book: trades are entered      *)
(* after they were made and never taken back, orders are settled once.     *)
(***************************************************************************)
THEOREM Implements == ASSUME AsItIs PROVE Spec => BookSpec
<1>1. Spec => [](TypeOK /\ ReportedTrades /\ LedgerInv)
  BY AsItIs, LedgerCorrect
<1>2. TypeOK /\ ReportedTrades /\ LedgerInv /\ [Next]_vars => [Book!Next]_(Book!vars)
  BY AsItIs, BookStep
<1>3. QED
  BY <1>1, <1>2, BookInit, PTL DEF Spec, BookSpec, Book!Spec

-----------------------------------------------------------------------------
(* The position                                                            *)

\* What update_position has still to add is known as long as the process
\* lives and its commits succeed.
PositionInv ==
  /\ PositionFollowsTrades
  /\ pc \notin {"partial", "update_position"} => change = NoChange
  /\ pc = "partial" => change.amount = 0
  /\ pc = "update_position" => change.order \in OrderIds

LEMMA PositionInit == Init => PositionInv
  BY DEF Init, DatabaseInit, CoordinatorInit, PositionInv, PositionFollowsTrades,
     Pending, NoChange, NoOrder, OrderIds

LEMMA NothingPending ==
  ASSUME change = NoChange \/ change.amount = 0, NEW o \in OrderIds
  PROVE  Pending(o) = 0
  BY DEF Pending, NoChange, NoOrder, OrderIds

LEMMA PositionStep ==
  ASSUME Env \cap {"commit", "crash"} = {}, TypeOK, TypeOK', PositionInv, [Next]_vars
  PROVE  PositionInv'
<1> USE DEF PositionInv, PositionFollowsTrades
<1>1. \A o \in OrderIds : trades[o] \in Int /\ posted[o] \in Int
  BY AccountAssumption DEF TypeOK, DatabaseType, SessionType
<1>2. CASE Quiet
  <2>1. QuietControl /\ UNCHANGED <<trades, posted>>
    BY <1>2 DEF Quiet, QuietSession
  <2>2. CASE UNCHANGED <<pc, locals>>
    BY <2>1, <2>2 DEF locals, Pending
  <2>3. CASE /\ change = NoChange /\ change' = NoChange
             /\ pc' \notin {"partial", "update_position"}
    BY <2>1, <2>3 DEF Pending
  <2>4. QED
    BY <2>1, <2>2, <2>3 DEF QuietControl, ForgetSome
<1>3. CASE GetCurrentOrders \/ RecancelFails \/ GetEatenDetails \/ OrderAuditAgain
             \/ ReopenRefused \/ SaveOrder
  <2>1. /\ pc \notin {"partial", "update_position"}
        /\ pc' \notin {"partial", "update_position"}
        /\ change' \in {change, NoChange} /\ UNCHANGED <<trades, posted>>
    BY <1>3
    DEF GetCurrentOrders, RecancelFails, GetEatenDetails, OrderAuditAgain,
        ReopenRefused, SaveOrder, Raise, ForgetLocals, Goto, Reopen, NewOrder,
        dbVars, sesVars
  <2>2. QED
    BY <2>1 DEF Pending
<1>4. ASSUME NEW o \in OrderIds, SettleEaten(o) \/ SettlePartial(o)
      PROVE  PositionInv'
  <2>1. /\ pc' = "update_position" /\ posted' = posted
        /\ change = NoChange \/ change.amount = 0
        /\ change' = [order |-> o, amount |-> trades'[o] - trades[o]]
        /\ \A p \in OrderIds : p # o => trades'[p] = trades[p]
    BY <1>4
    DEF SettleEaten, SettlePartial, WasEaten, WasPartiallyEaten, Goto, TypeOK,
        DatabaseType, SessionType
  <2>2. \A p \in OrderIds : posted[p] = trades[p]
    BY <1>1, <2>1, NothingPending
  <2>3. trades'[o] \in Int
    BY AccountAssumption DEF TypeOK, DatabaseType, SessionType
  <2>4. QED
    BY <1>1, <2>1, <2>2, <2>3 DEF Pending
<1>5. ASSUME NEW o \in OrderIds, GetPartialDetails(o) PROVE PositionInv'
  <2>1. /\ pc' = "partial" /\ UNCHANGED <<trades, posted>>
        /\ change = NoChange /\ change' = [order |-> o, amount |-> 0]
    BY <1>5 DEF GetPartialDetails, Goto, dbVars, sesVars
  <2>2. QED
    BY <1>1, <2>1, NothingPending DEF Pending
<1>6. ASSUME NEW o \in OrderIds, PlaceOrder(o) \/ LoseAnswer(o)
      PROVE  PositionInv'
  BY <1>6 DEF PlaceOrder, LoseAnswer, Goto, dbVars, sesVars, locals, Pending
<1>7. CASE UpdatePosition
  <2>1. /\ change' = NoChange /\ pc' = "accounting" /\ trades' = trades
        /\ posted' = [posted EXCEPT ![change.order] = @ + change.amount]
        /\ change.order \in OrderIds
    BY <1>7 DEF UpdatePosition, AddToPosition, Goto
  <2>2. \A o \in OrderIds : posted'[o] = posted[o] + Pending(o)
    BY <1>1, <2>1 DEF Pending, TypeOK, DatabaseType, SessionType
  <2>3. \A o \in OrderIds : Pending(o)' = 0 /\ posted'[o] \in Int
    BY <2>1 DEF Pending, NoChange, NoOrder, OrderIds, TypeOK, DatabaseType, SessionType
  <2>4. QED
    BY <2>1, <2>2, <2>3
<1>8. CASE ExchangeStep
  BY <1>8 DEF ExchangeStep, coordVars, dbVars, sesVars, locals, Pending
<1>9. QED
  BY <1>2, <1>3, <1>4, <1>6, <1>7, <1>8, <1>5, StepKinds DEF LedgerStep

(***************************************************************************)
(* While the engine runs and its commits succeed, position and balance     *)
(* contain exactly the trades of the orders, however stale the exchange's  *)
(* answers are: the ledger audit cannot fail.                              *)
(***************************************************************************)
THEOREM PositionExact ==
  ASSUME Env \cap {"commit", "crash"} = {} PROVE Spec => []PositionFollowsTrades
<1>1. PositionInv => PositionFollowsTrades
  BY DEF PositionInv
<1>2. TypeOK /\ TypeOK' /\ PositionInv /\ [Next]_vars => PositionInv'
  BY Env \cap {"commit", "crash"} = {}, PositionStep
<1>3. QED
  BY <1>1, <1>2, PositionInit, TypeCorrect, PTL DEF Spec

-----------------------------------------------------------------------------
(* What wind_down and consolidate_ledger have seen                         *)

(***************************************************************************)
(* Why an audit finds nothing open.  The exchange's list is compared with  *)
(* the ledger while nobody places orders, so from then on what is open is  *)
(* current, and what is OPEN is current or still to be settled; wind_down  *)
(* goes on only when nothing was current.  An audit that comes without it  *)
(* is the first thing of a process, when the exchange is not active yet.   *)
(***************************************************************************)
Consolidating ==
  pc \in {"details", "accounting", "partial", "update_position", "consolidated"}

NothingOpen == \A o \in OrderIds : xState[o] # "open" /\ status[o] # "OPEN"

Unstarted == pc \in Stopped \/ (pc = "top" /\ tick = 0)

WindDownInv ==
  /\ Consolidating =>
       OpenOnExchange \subseteq current /\ DbOpenOrders \subseteq current \cup eaten
  /\ pc = "consolidated" => eaten = {}
  /\ pc \in {"order_audit", "balance_audit", "exit"} /\ active => NothingOpen
  /\ Unstarted => ~active
  /\ pc = "balance_audit" /\ active => Unrecorded = {} /\ Mismatched = {}

LEMMA WindDownInit == Init => WindDownInv
  BY DEF Init, CoordinatorInit, WindDownInv, Consolidating, Unstarted, Stopped

\* The labels at which WindDownInv says something.
WatchedLabels ==
  {"details", "accounting", "partial", "update_position", "consolidated",
   "order_audit", "balance_audit", "exit"} \cup Stopped

Elsewhere == pc \notin WatchedLabels /\ (pc = "top" => tick # 0)

LEMMA ElsewhereHolds == Elsewhere' => WindDownInv'
  BY DEF Elsewhere, WatchedLabels, Stopped, WindDownInv, Consolidating, Unstarted

LEMMA IdleHolds ==
  ASSUME active' = FALSE,
         pc' \notin {"details", "accounting", "partial", "update_position",
                      "consolidated"}
  PROVE  WindDownInv'
  BY DEF WindDownInv, Consolidating

LEMMA RaiseElsewhere == ASSUME NEW kind, Raise(kind) PROVE Elsewhere'
  BY DEF Raise, Elsewhere, WatchedLabels, Stopped

LEMMA ConsolidateWinds ==
  ASSUME AsItIs, TypeOK, LedgerInv, WindDownInv, Consolidate
  PROVE  WindDownInv'
<1>1. CASE GetCurrentOrders
  <2>1. CASE Raise("audit")
    BY <2>1, RaiseElsewhere, ElsewhereHolds
  <2>2. CASE FreshConsolidation
    BY <2>2
    DEF FreshConsolidation, Goto, WindDownInv, Consolidating, OpenOnExchange,
        DbOpenOrders, Unstarted, Stopped
  <2>3. QED
    BY <1>1, <2>1, <2>2, ConsolidatesFresh
<1>2. CASE GetEatenDetails
  BY <1>2
  DEF GetEatenDetails, Goto, WindDownInv, Consolidating, OpenOnExchange,
      DbOpenOrders, Unstarted, Stopped, xVars, dbVars, sesVars
<1>3. ASSUME NEW o \in OrderIds, SettleEaten(o) PROVE WindDownInv'
  <2>1. /\ eaten' = eaten \ {o} /\ current' = current
        /\ OpenOnExchange' = OpenOnExchange
        /\ pc = "accounting" /\ pc' = "update_position"
    BY <1>3 DEF SettleEaten, Goto, xVars, OpenOnExchange
  <2>2. DbOpenOrders' \subseteq DbOpenOrders \ {o}
    <3>1. /\ status'[o] # "OPEN"
          /\ \A p \in OrderIds : p # o => status'[p] = status[p]
      BY <1>3 DEF SettleEaten, WasEaten, TypeOK, DatabaseType, SessionType
    <3>2. QED
      BY <3>1 DEF DbOpenOrders
  <2>3. QED
    BY <2>1, <2>2 DEF WindDownInv, Consolidating, Unstarted, Stopped
<1>4. ASSUME NEW o \in OrderIds, GetPartialDetails(o) PROVE WindDownInv'
  BY <1>4
  DEF GetPartialDetails, Goto, WindDownInv, Consolidating, OpenOnExchange,
      DbOpenOrders, Unstarted, Stopped, xVars, dbVars, sesVars
<1>5. ASSUME NEW o \in OrderIds, SettlePartial(o) PROVE WindDownInv'
  BY <1>5
  DEF SettlePartial, WasPartiallyEaten, Goto, WindDownInv, Consolidating,
      OpenOnExchange, DbOpenOrders, Unstarted, Stopped, xVars
<1>6. CASE UpdatePosition
  BY <1>6
  DEF UpdatePosition, AddToPosition, Goto, WindDownInv, Consolidating,
      OpenOnExchange, DbOpenOrders, Unstarted, Stopped, xVars
<1>7. CASE AccountingDone
  BY <1>7
  DEF AccountingDone, LedgerInv, Goto, WindDownInv, Consolidating, OpenOnExchange,
      DbOpenOrders, Unstarted, Stopped, xVars, dbVars, sesVars
<1>8. QED
  BY <1>1, <1>2, <1>3, <1>5, <1>6, <1>7, <1>4 DEF Consolidate

LEMMA AuditWinds ==
  ASSUME AsItIs, TypeOK, LedgerInv, WindDownInv, Audit
  PROVE  WindDownInv'
<1>1. CASE OrderAuditPasses
  BY <1>1
  DEF OrderAuditPasses, Goto, WindDownInv, Consolidating, NothingOpen, Unrecorded,
      Mismatched, AuditedOrders, Unstarted, Stopped, xVars, dbVars, sesVars
<1>2. CASE OrderAuditFails \/ OrderAuditAgain \/ BalanceAuditFails \/ LedgerAuditFails
  BY <1>2, RaiseElsewhere, ElsewhereHolds
  DEF OrderAuditFails, OrderAuditAgain, BalanceAuditFails, LedgerAuditFails, AsItIs
<1>3. CASE ReopenRefused
  BY <1>3 DEF ReopenRefused, AsItIs
<1>4. CASE AuditPasses
  BY <1>4, IdleHolds DEF AuditPasses, Goto
<1>5. QED
  BY <1>1, <1>2, <1>3, <1>4 DEF Audit

LEMMA CoordinatorWinds ==
  ASSUME AsItIs, TypeOK, LedgerInv, WindDownInv, CoordinatorStep
  PROVE  WindDownInv'
<1>1. CASE Trade
  <2>1. Elsewhere'
    BY <1>1
    DEF Trade, PlaceOrder, LoseAnswer, CancelOrder, SaveOrder, Goto, coordVars,
        Elsewhere, WatchedLabels, Stopped
  <2>2. QED
    BY <2>1, ElsewhereHolds
<1>2. CASE CoordinatorFails
  <2>1. ~RecancelFails /\ ~AuditRequestRetried
    BY RecancelsNone DEF AuditRequestRetried, LedgerInv
  <2>2. Elsewhere'
    <3>1. CASE StrategyFails
      BY <3>1 DEF StrategyFails, Elsewhere, WatchedLabels, Stopped
    <3>2. CASE RequestFails \/ AuditRequestFails \/ CommitFails
      BY <3>2, RaiseElsewhere DEF RequestFails, AuditRequestFails, CommitFails
    <3>3. QED
      BY <1>2, <2>1, <3>1, <3>2 DEF CoordinatorFails
  <2>3. QED
    BY <2>2, ElsewhereHolds
<1>3. QED
  BY <1>1, <1>2, ConsolidateWinds, AuditWinds DEF CoordinatorStep, CoordinatorNext

\* A pass of the loop that does nothing to the stores.
LEMMA AuditLabels == AuditLabel \in {"order_audit", "audited"}
  BY DEF AuditLabel

LEMMA LoopWinds ==
  ASSUME TypeOK, WindDownInv, LoopStep
  PROVE  WindDownInv'
<1>1. CASE FirstTick
  <2>1. ~active
    BY <1>1 DEF FirstTick, WindDownInv, Unstarted
  <2>2. active' = FALSE /\ pc' = AuditLabel
    BY <1>1, <2>1 DEF FirstTick, Enter, Goto, TypeOK, CoordinatorType
  <2>3. QED
    BY <2>2, AuditLabels, IdleHolds
<1>2. CASE StopRequested \/ TickOrAudit \/ Audited \/ StrategyDone
  <2>1. Elsewhere'
    BY <1>2
    DEF StopRequested, TickOrAudit, Audited, StrategyDone, Enter, TickLabel, Goto,
        Elsewhere, WatchedLabels, Stopped
  <2>2. QED
    BY <2>1, ElsewhereHolds
<1>3. CASE EndOfTick
  <2>1. tick' # 0 /\ pc' \in {"top", "wind_down"}
    BY <1>3, RunnerAssumption DEF EndOfTick, Goto, TypeOK
  <2>2. QED
    BY <2>1, ElsewhereHolds DEF Elsewhere, WatchedLabels, Stopped
<1>4. CASE Consolidated
  <2>1. CASE mode # "tick" /\ current # {}
    BY <1>4, <2>1, RaiseElsewhere, ElsewhereHolds DEF Consolidated
  <2>2. CASE mode = "tick"
    <3>1. pc' = "strategy"
      BY <1>4, <2>2 DEF Consolidated, Goto
    <3>2. QED
      BY <3>1, ElsewhereHolds DEF Elsewhere, WatchedLabels, Stopped
  <2>3. CASE mode # "tick" /\ current = {}
    <3>1. NothingOpen
      BY <1>4, <2>3
      DEF Consolidated, WindDownInv, Consolidating, NothingOpen, OpenOnExchange,
          DbOpenOrders
    <3>2. NothingOpen'
      BY <1>4, <3>1 DEF Consolidated, xVars, dbVars, sesVars, NothingOpen
    <3>3. pc' \in {"exit", "order_audit", "audited"}
      BY <1>4, <2>3, AuditLabels DEF Consolidated, Goto
    <3>4. QED
      BY <3>2, <3>3 DEF WindDownInv, Consolidating, Unstarted, Stopped
  <2>4. QED
    BY <2>1, <2>2, <2>3
<1>5. QED
  BY <1>1, <1>2, <1>3, <1>4 DEF LoopStep

LEMMA WindDownWinds ==
  ASSUME TypeOK, WindDownInv, WindDownStep
  PROVE  WindDownInv'
<1>1. CASE WindDown \/ (\E o \in OrderIds : CancelNext(o)) \/ WindDownRequestFails
  <2>1. Elsewhere'
    BY <1>1, RaiseElsewhere
    DEF WindDown, CancelNext, WindDownRequestFails, Goto, coordVars, Elsewhere,
        WatchedLabels, Stopped
  <2>2. QED
    BY <2>1, ElsewhereHolds
<1>2. CASE AllCancelled
  <2>1. CASE active
    <3>1. pc' = "open_orders"
      BY <1>2, <2>1 DEF AllCancelled, Goto
    <3>2. QED
      BY <3>1, ElsewhereHolds DEF Elsewhere, WatchedLabels, Stopped
  <2>2. CASE ~active
    <3>1. active' = FALSE /\ pc' \in {"exit", "order_audit", "audited"}
      BY <1>2, <2>2, AuditLabels DEF AllCancelled, Goto, TypeOK, CoordinatorType
    <3>2. QED
      BY <3>1, IdleHolds
  <2>3. QED
    BY <2>1, <2>2
<1>3. QED
  BY <1>1, <1>2 DEF WindDownStep

LEMMA OthersWind ==
  ASSUME TypeOK, WindDownInv, CatchStep \/ StopStep \/ Crash \/ Boot \/ Signal
  PROVE  WindDownInv'
<1>1. CASE CatchStep
  <2>1. Elsewhere'
    BY <1>1
    DEF CatchStep, FastAuditFailed, WindDownRetried, ExceptionCaught, RecoveryFailed,
        TryToRecover, LoopCommitFails, Catch, Enter, Goto, Elsewhere, WatchedLabels,
        Stopped
  <2>2. QED
    BY <2>1, ElsewhereHolds
<1>2. CASE StopStep \/ Crash
  <2>1. active' = FALSE /\ pc' \in Stopped
    BY <1>2
    DEF StopStep, ShutDown, ForcedDown, LastCommitFails, Crash, ForgetMemory, Stopped
  <2>2. QED
    BY <2>1, IdleHolds DEF Stopped
<1>3. CASE Boot
  <2>1. active' = FALSE /\ pc' = "top"
    BY <1>3 DEF Boot, WindDownInv, Unstarted, TypeOK, CoordinatorType
  <2>2. QED
    BY <2>1, IdleHolds
<1>4. CASE Signal
  BY <1>4
  DEF Signal, WindDownInv, Consolidating, OpenOnExchange, DbOpenOrders, NothingOpen,
      Unrecorded, Mismatched, AuditedOrders, Unstarted, xVars, dbVars, sesVars,
      coordVars, locals
<1>5. QED
  BY <1>1, <1>2, <1>3, <1>4

\* Nothing trades and nothing is cancelled when nothing is open.
LEMMA OnlyOpenOrdersMove ==
  ASSUME TypeOK, NothingOpen
  PROVE  ~ExchangeStep
  BY DEF TypeOK, ExchangeType, NothingOpen, ExchangeStep, Fill, CancelTakesEffect,
         OpenOnExchange

LEMMA ExchangeWinds ==
  ASSUME TypeOK, WindDownInv, ExchangeStep
  PROVE  WindDownInv'
<1>1. OpenOnExchange' \subseteq OpenOnExchange
  <2>1. PICK o \in OrderIds : Fill(o) \/ CancelTakesEffect(o)
    BY DEF ExchangeStep
  <2>2. QED
    BY <2>1 DEF Fill, CancelTakesEffect, TypeOK, ExchangeType, OpenOnExchange
<1>2. DbOpenOrders' = DbOpenOrders /\ UNCHANGED <<pc, tick, active, current, eaten>>
  BY DEF ExchangeStep, dbVars, sesVars, coordVars, locals, runnerVars, DbOpenOrders
<1>3. ~NothingOpen
  BY OnlyOpenOrdersMove
<1>4. QED
  BY <1>1, <1>2, <1>3 DEF WindDownInv, Consolidating, Unstarted

LEMMA WindDownInvStep ==
  ASSUME AsItIs, TypeOK, LedgerInv, WindDownInv, [Next]_vars
  PROVE  WindDownInv'
<1>1. CASE Next
  BY <1>1, CoordinatorWinds, LoopWinds, WindDownWinds, OthersWind, ExchangeWinds
  DEF Next, EngineStep
<1>2. CASE UNCHANGED vars
  BY <1>2
  DEF vars, WindDownInv, Consolidating, OpenOnExchange, DbOpenOrders, NothingOpen,
      Unrecorded, Mismatched, AuditedOrders, Unstarted, xVars, dbVars, sesVars,
      coordVars, locals, runnerVars
<1>3. QED
  BY <1>1, <1>2

LEMMA WindsDown ==
  ASSUME AsItIs
  PROVE  Spec => [](TypeOK /\ ReportedTrades /\ LedgerInv /\ WindDownInv)
<1>1. TypeOK /\ LedgerInv /\ WindDownInv /\ [Next]_vars => WindDownInv'
  BY AsItIs, WindDownInvStep
<1>2. Spec => [](TypeOK /\ ReportedTrades /\ LedgerInv)
  BY AsItIs, LedgerCorrect
<1>3. QED
  BY <1>1, <1>2, WindDownInit, PTL DEF Spec

(***************************************************************************)
(* A warm shutdown that completed on an active exchange left nothing open, *)
(* neither there nor in the ledger, whatever failed on the way.            *)
(***************************************************************************)
THEOREM WoundDown == ASSUME AsItIs PROVE Spec => []WarmShutdownComplete
<1>1. WindDownInv => WarmShutdownComplete
  BY DEF WindDownInv, NothingOpen, WarmShutdownComplete
<1>2. QED
  BY <1>1, AsItIs, WindsDown, PTL

-----------------------------------------------------------------------------
(* The coins that a book of volumes amounts to: a sum over the orders.     *)

Volumes == [OrderIds -> Int]

OnSides(f) == [o \in OrderIds |-> Side[o] * f[o]]

LEMMA OrdersFinite ==
  IsFiniteSet(OrderIds) /\ \A T \in SUBSET OrderIds : IsFiniteSet(T) /\ Cardinality(T) \in Nat
<1>1. IsFiniteSet(OrderIds)
  BY AccountAssumption, FS_Interval DEF OrderIds
<1>2. QED
  BY <1>1, FS_Subset, FS_CardinalityType

LEMMA Summed ==
  ASSUME NEW f \in Volumes
  PROVE  Summands(OnSides(f), OrderIds)
<1>1. ASSUME NEW o \in OrderIds PROVE OnSides(f)[o] \in Int
  <2>1. (Side[o] = 1 \/ Side[o] = -1) /\ f[o] \in Int
    BY AccountAssumption DEF Volumes
  <2>2. QED
    BY <2>1 DEF OnSides
<1>2. QED
  BY <1>1, OrdersFinite DEF Summands

LEMMA NetIsSum ==
  ASSUME NEW f \in Volumes
  PROVE  Net(f) = Total(OnSides(f), OrderIds)
<1> DEFINE Q(g) == g = [T \in SUBSET OrderIds |-> IF T = {} THEN 0
                         ELSE Side[Pick(T)] * f[Pick(T)] + g[T \ {Pick(T)}]]
           s == CHOOSE g : Q(g)
<1>1. \A T \in SUBSET OrderIds : T # {} => Side[Pick(T)] * f[Pick(T)] = OnSides(f)[Pick(T)]
  <2>1. \A T \in SUBSET OrderIds : T # {} => Pick(T) \in OrderIds
    BY DEF Pick
  <2>2. QED
    BY <2>1 DEF OnSides
<1>2. \A g : Q(g) <=> Sums(g, OnSides(f), SUBSET OrderIds)
  BY <1>1 DEF Sums
<1>3. \E g : Q(g)
  BY <1>2, Summed, SumsExist
<1>4. Q(s)
  BY <1>3
<1> HIDE DEF s, Q
<1>5. Sums(s, OnSides(f), SUBSET OrderIds)
  BY <1>2, <1>4
<1>6. s[OrderIds] = Total(OnSides(f), OrderIds)
  BY <1>5, Summed, TotalIs
<1>7. QED
  BY <1>6 DEF Net, MapThenSumSet, MapThenFoldSet, Pick, s, Q

\* A book's sum is an integer.
LEMMA NetType ==
  ASSUME NEW f \in Volumes
  PROVE  Net(f) \in Int
  BY Summed, NetIsSum, TotalStep

\* Two books that differ in one order at most have different sums if they do.
LEMMA NetTells ==
  ASSUME NEW f \in Volumes, NEW g \in Volumes, Net(f) = Net(g),
         NEW o \in OrderIds, \A p \in OrderIds : p # o => f[p] = g[p]
  PROVE  f[o] = g[o]
<1> DEFINE others == OrderIds \ {o}
<1>1. /\ Total(OnSides(f), OrderIds) = OnSides(f)[o] + Total(OnSides(f), others)
      /\ Total(OnSides(g), OrderIds) = OnSides(g)[o] + Total(OnSides(g), others)
  BY Summed, TotalWithout
<1>2. Summands(OnSides(f), others) /\ Total(OnSides(f), others) \in Int
  <2>1. Summands(OnSides(f), others)
    BY Summed, FS_Subset DEF Summands
  <2>2. QED
    BY <2>1, TotalStep
<1>3. Total(OnSides(f), others) = Total(OnSides(g), others)
  <2>1. \A p \in others : OnSides(f)[p] = OnSides(g)[p]
    BY DEF OnSides
  <2>2. QED
    BY <1>2, <2>1, SameTotal
<1>4. OnSides(f)[o] \in Int /\ OnSides(g)[o] \in Int
  BY Summed DEF Summands
<1>5. Side[o] * f[o] = Side[o] * g[o]
  <2>1. OnSides(f)[o] = OnSides(g)[o]
    BY <1>1, <1>2, <1>3, <1>4, NetIsSum
  <2>2. QED
    BY <2>1 DEF OnSides
<1>6. f[o] \in Int /\ g[o] \in Int /\ (Side[o] = 1 \/ Side[o] = -1)
  BY AccountAssumption DEF Volumes
<1>7. QED
  BY <1>5, <1>6

-----------------------------------------------------------------------------
(* An audit that passed                                                    *)

LEMMA OpenBooks ==
  ASSUME TypeOK
  PROVE  /\ posted \in Volumes /\ trades \in Volumes /\ xFilled \in Volumes
         /\ Net(posted) \in Int /\ Net(trades) \in Int /\ Net(xFilled) \in Int
<1>1. posted \in Volumes /\ trades \in Volumes /\ xFilled \in Volumes
  BY AccountAssumption DEF TypeOK, ExchangeType, DatabaseType, SessionType, Volumes
<1>2. QED
  BY <1>1, NetType

\* The steps of the ledger leave the drift alone.
LEMMA DriftKept ==
  ASSUME LedgerStep
  PROVE  drift' = drift /\ dbDrift' \in {drift, dbDrift}
<1>1. CASE GetCurrentOrders \/ RecancelFails \/ GetEatenDetails \/ OrderAuditAgain
             \/ ReopenRefused \/ (\E o \in OrderIds : GetPartialDetails(o))
  BY <1>1
  DEF GetCurrentOrders, RecancelFails, GetEatenDetails, OrderAuditAgain,
      GetPartialDetails, ReopenRefused, Reopen, dbVars, sesVars, rowVars
<1>2. ASSUME NEW o \in OrderIds, SettleEaten(o) \/ SettlePartial(o)
      PROVE  drift' = drift /\ dbDrift' = drift'
  BY <1>2 DEF SettleEaten, SettlePartial, WasEaten, WasPartiallyEaten, Commit
<1>3. ASSUME NEW o \in OrderIds, PlaceOrder(o) \/ LoseAnswer(o)
      PROVE  drift' = drift /\ dbDrift' = dbDrift
  BY <1>3 DEF PlaceOrder, LoseAnswer, dbVars, sesVars, rowVars
<1>4. CASE UpdatePosition \/ SaveOrder \/ ExchangeStep
  BY <1>4
  DEF UpdatePosition, AddToPosition, SaveOrder, NewOrder, Commit, ExchangeStep,
      dbVars, sesVars, rowVars
<1>5. QED
  BY <1>1, <1>2, <1>3, <1>4 DEF LedgerStep

\* An exchange of no tolerance has no drift.
NoDriftYet == Tolerance = 0 => drift = 0 /\ dbDrift = 0

LEMMA NoDriftYetStep ==
  ASSUME TypeOK, NoDriftYet, [Next]_vars
  PROVE  NoDriftYet'
<1>1. SUFFICES ASSUME Tolerance = 0 PROVE drift' = 0 /\ dbDrift' = 0
  BY DEF NoDriftYet
<1>2. drift = 0 /\ dbDrift = 0
  BY <1>1 DEF NoDriftYet
<1>3. CASE Quiet
  <2>1. CASE Rollback
    BY <1>2, <2>1 DEF Rollback, rowVars
  <2>2. CASE QuietSession
    <3>1. CloseEnough => DriftRecorded = 0
      <4>1. \A d : d \in -Tolerance..Tolerance => d = 0
        BY <1>1
      <4>2. QED
        BY <1>2, <4>1 DEF CloseEnough, DriftRecorded
    <3>2. drift' = 0
      BY <1>2, <2>2, <3>1 DEF QuietSession
    <3>3. QED
      BY <1>2, <2>2, <3>2 DEF QuietSession, Commit, rowVars
  <2>3. QED
    BY <1>3, <2>1, <2>2 DEF Quiet
<1>4. CASE LedgerStep
  BY <1>2, <1>4, DriftKept
<1>5. QED
  BY <1>3, <1>4, StepKinds

\* The orders missing from the audit's data: the newest of them has all the
\* others before it, fewer than AuditSkip.
LEMMA FewUnaudited ==
  ASSUME TypeOK, NEW H, H = {o \in OrderIds : xFilled[o] > 0 /\ o \notin AuditedOrders}
  PROVE  IsFiniteSet(H) /\ Cardinality(H) <= AuditSkip
<1> DEFINE older(q) == {r \in 1..(q - 1) : xFilled[r] > 0}
<1>1. IsFiniteSet(H) /\ Cardinality(H) \in Nat /\ AuditSkip \in Nat
  BY OrdersFinite, AccountAssumption
<1>2. CASE H = {}
  BY <1>1, <1>2, FS_EmptySet
<1>3. CASE H # {}
  <2>1. PICK m \in H : \A o \in H : o <= m
    <3>1. H \subseteq Int
      BY DEF OrderIds
    <3>2. QED
      BY <1>1, <1>3, <3>1, FiniteMax
  <2>2. H \ {m} \subseteq older(m)
    BY <2>1, AccountAssumption DEF OrderIds
  <2>3. IsFiniteSet(older(m)) /\ Cardinality(older(m)) \in Nat
    <3>1. IsFiniteSet(1..(m - 1))
      BY FS_Interval DEF OrderIds
    <3>2. QED
      BY <3>1, FS_Subset, FS_CardinalityType
  <2>4. ~(Cardinality(older(m)) >= AuditSkip)
    BY <2>1 DEF AuditedOrders
  <2>5. Cardinality(H \ {m}) <= Cardinality(older(m))
    BY <2>2, <2>3, FS_Subset
  <2>6. Cardinality(H \ {m}) = Cardinality(H) - 1
    BY <1>1, <2>1, FS_RemoveElement
  <2>7. QED
    BY <1>1, <2>3, <2>4, <2>5, <2>6
<1>4. QED
  BY <1>2, <1>3

\* What an order audit that passed cannot know of.
LEMMA HiddenFromAudit ==
  ASSUME TypeOK, ReportedTrades, Unrecorded = {}, Mismatched = {}
  PROVE  IsFiniteSet(Hidden) /\ Cardinality(Hidden) <= AuditSkip
<1> DEFINE H == {o \in OrderIds : xFilled[o] > 0 /\ o \notin AuditedOrders}
<1>1. IsFiniteSet(H) /\ Cardinality(H) <= AuditSkip
  BY FewUnaudited
<1>2. \A o \in OrderIds : xFilled[o] \in Nat /\ trades[o] \in Nat /\ trades[o] <= xFilled[o]
  BY AccountAssumption
  DEF TypeOK, ExchangeType, DatabaseType, SessionType, ReportedTrades, NoPhantomTrades
<1>3. Hidden \subseteq H
  BY <1>2 DEF Hidden, Unrecorded, Mismatched
<1>4. IsFiniteSet(Hidden) /\ Cardinality(Hidden) <= Cardinality(H)
  BY <1>1, <1>3, FS_Subset
<1>5. Cardinality(Hidden) \in Nat /\ Cardinality(H) \in Nat /\ AuditSkip \in Nat
  BY <1>1, <1>4, FS_CardinalityType, AccountAssumption
<1>6. QED
  BY <1>1, <1>4, <1>5

\* An order of the ledger that is not open has all its trades there.
LEMMA HiddenIsLost ==
  ASSUME TypeOK, LedgerInv, NothingOpen, NEW o \in Hidden
  PROVE  o \in OrderIds /\ status[o] = "NONE" /\ trades[o] = 0 /\ xState[o] = "closed"
<1>1. o \in OrderIds /\ trades[o] # xFilled[o] /\ status[o] # "OPEN" /\ xState[o] # "open"
  BY DEF Hidden, NothingOpen
<1>2. status[o] = "NONE" /\ trades[o] = 0
  BY <1>1 DEF TypeOK, DatabaseType, SessionType, Status, LedgerInv, Settled
<1>3. xState[o] # "none"
  BY <1>1, <1>2 DEF TypeOK, ExchangeType
<1>4. QED
  BY <1>1, <1>2, <1>3 DEF TypeOK, ExchangeType

LEMMA PassedMeansClosed ==
  ASSUME TypeOK, ReportedTrades, LedgerInv, WindDownInv, NoDriftYet, AuditPasses, active
  PROVE  BooksClosed
<1>1. NothingOpen /\ Unrecorded = {} /\ Mismatched = {}
  BY DEF AuditPasses, WindDownInv
<1>2. IsFiniteSet(Hidden) /\ Cardinality(Hidden) <= AuditSkip
  BY <1>1, HiddenFromAudit
<1>3. ASSUME AuditSkip <= 1, Tolerance = 0, NEW o \in Hidden PROVE FALSE
  <2>1. \A p \in OrderIds : p # o => trades[p] = xFilled[p]
    <3>1. Cardinality(Hidden) \in Nat /\ AuditSkip \in Nat
      BY <1>2, FS_CardinalityType, AccountAssumption
    <3>2. /\ IsFiniteSet(Hidden \ {o}) /\ Cardinality(Hidden \ {o}) \in Nat
          /\ Cardinality(Hidden \ {o}) = Cardinality(Hidden) - 1
      BY <1>2, <1>3, FS_RemoveElement, FS_CardinalityType
    <3>3. Cardinality(Hidden \ {o}) = 0
      BY <1>2, <1>3, <3>1, <3>2
    <3>4. Hidden \ {o} = {}
      BY <3>2, <3>3, FS_EmptySet
    <3>5. QED
      BY <3>4 DEF Hidden
  <2>2. Net(trades) = Net(xFilled)
    <3>1. drift = 0 /\ Difference = 0
      <4>1. drift = 0 /\ Difference \in -Tolerance..Tolerance
        BY <1>3 DEF NoDriftYet, AuditPasses, CloseEnough
      <4>2. QED
        BY <1>3, <4>1
    <3>2. Net(posted) = Net(xFilled)
      BY <3>1, OpenBooks DEF Difference, DbBalance, ExchangeBalance
    <3>3. LedgerAgrees /\ DriftRecorded = 0
      BY <3>1 DEF AuditPasses, DriftRecorded
    <3>4. QED
      BY <3>2, <3>3, OpenBooks DEF LedgerAgrees, LedgerBalance
  <2>3. QED
    BY <1>3, <2>1, <2>2, OpenBooks, NetTells DEF Hidden
<1>4. QED
  BY <1>1, <1>2, <1>3, HiddenIsLost DEF BooksClosed, NothingOpen

(***************************************************************************)
(* An audit that passed on an active exchange left nothing open, and no    *)
(* trade out of the ledger but those of orders that were never saved,      *)
(* AuditSkip of them at most: for the two orders that the wrappers leave   *)
(* out of the audit's data as for any other number, and for any tolerance. *)
(* Where one order at most is left out and the balances are compared       *)
(* exactly they make up for it: one order's trades cannot be missing       *)
(* without the sum being wrong.                                            *)
(***************************************************************************)
THEOREM AuditedClosed == ASSUME AsItIs PROVE Spec => AuditMeansBooksClosed
<1>1. Init => NoDriftYet
  BY DEF Init, DatabaseInit, NoDriftYet
<1>2. TypeOK /\ NoDriftYet /\ [Next]_vars => NoDriftYet'
  BY NoDriftYetStep
<1>3. TypeOK /\ ReportedTrades /\ LedgerInv /\ WindDownInv /\ NoDriftYet
        => (AuditPasses /\ active => BooksClosed)
  BY PassedMeansClosed
<1>4. Spec => [](TypeOK /\ ReportedTrades /\ LedgerInv /\ WindDownInv)
  BY AsItIs, WindsDown
<1>5. QED
  BY <1>1, <1>2, <1>3, <1>4, PTL DEF Spec, AuditMeansBooksClosed

-----------------------------------------------------------------------------
(* An engine that is neither stopped nor killed                            *)

\* No commit fails, and nobody stops the process.
Undisturbed == Env \cap {"commit", "crash", "signal"} = {}

RunsOn == ~warm /\ mode # "shutdown" /\ pc \notin Stopped \cup {"exit"}

LEMMA NothingEnds ==
  ASSUME Undisturbed, RunsOn
  PROVE  ~StopStep /\ ~Crash /\ ~Boot /\ ~Signal
  BY DEF Undisturbed, RunsOn, StopStep, ShutDown, ForcedDown, LastCommitFails, Crash,
         Boot, Signal

LEMMA RunsOnStep ==
  ASSUME Undisturbed, RunsOn, [Next]_vars
  PROVE  RunsOn'
<1> USE DEF RunsOn
<1>1. CASE CoordinatorStep
  <2>1. pc' \notin Stopped \cup {"exit"}
    <3>1. CASE Consolidate
      BY <3>1
      DEF Consolidate, GetCurrentOrders, GetEatenDetails, SettleEaten,
          GetPartialDetails, SettlePartial, UpdatePosition, AccountingDone, Raise,
          Goto, Stopped
    <3>2. CASE Audit
      BY <3>2
      DEF Audit, OrderAuditPasses, OrderAuditFails, OrderAuditAgain, ReopenRefused,
          BalanceAuditFails, LedgerAuditFails, AuditPasses, Raise, Goto, Stopped
    <3>3. CASE Trade
      BY <3>3
      DEF Trade, PlaceOrder, LoseAnswer, CancelOrder, SaveOrder, Goto, coordVars,
          Stopped
    <3>4. CASE CoordinatorFails
      BY <3>4
      DEF CoordinatorFails, RequestFails, RecancelFails, AuditRequestFails,
          AuditRequestRetried, StrategyFails, CommitFails, Raise, Goto, Stopped
    <3>5. QED
      BY <1>1, <3>1, <3>2, <3>3, <3>4 DEF CoordinatorStep, CoordinatorNext
  <2>2. QED
    BY <1>1, <2>1 DEF CoordinatorStep, runnerVars
<1>2. CASE LoopStep
  <2>1. CASE Consolidated
    <3>1. pc' \in {"raised", "strategy", AuditLabel}
      BY <2>1 DEF Consolidated, Raise, Goto
    <3>2. QED
      BY <2>1, <3>1, AuditLabels DEF Consolidated, runnerVars, Stopped
  <2>2. CASE LoopStep /\ ~Consolidated
    BY <2>2, AuditLabels
    DEF LoopStep, StopRequested, FirstTick, TickOrAudit, Audited, StrategyDone,
        EndOfTick, Enter, TickLabel, Goto, Stopped, Undisturbed
  <2>3. QED
    BY <1>2, <2>1, <2>2
<1>3. CASE WindDownStep
  <2>1. CASE AllCancelled
    <3>1. pc' \in {"open_orders", AuditLabel}
      BY <2>1 DEF AllCancelled, Goto
    <3>2. QED
      BY <2>1, <3>1, AuditLabels DEF AllCancelled, runnerVars, Stopped
  <2>2. CASE WindDown \/ WindDownRequestFails
    BY <2>2 DEF WindDown, WindDownRequestFails, Raise, Goto, Stopped
  <2>3. ASSUME NEW o \in OrderIds, CancelNext(o) PROVE RunsOn'
    <3>1. pc' \in {pc, "raised"} /\ UNCHANGED <<warm, mode>>
      BY <2>3 DEF CancelNext, Raise, coordVars
    <3>2. QED
      BY <3>1 DEF Stopped
  <2>4. QED
    BY <1>3, <2>1, <2>2, <2>3 DEF WindDownStep
<1>4. CASE CatchStep
  <2>1. ~LoopCommitFails
    BY DEF LoopCommitFails, Undisturbed
  <2>2. CASE TryToRecover
    BY <2>2 DEF TryToRecover, Enter, Goto, Stopped
  <2>3. CASE FastAuditFailed \/ WindDownRetried \/ ExceptionCaught \/ RecoveryFailed
    BY <2>3
    DEF FastAuditFailed, WindDownRetried, ExceptionCaught, RecoveryFailed, Catch,
        Stopped
  <2>4. QED
    BY <1>4, <2>1, <2>2, <2>3 DEF CatchStep
<1>5. CASE ExchangeStep \/ UNCHANGED vars
  BY <1>5 DEF ExchangeStep, vars, coordVars, runnerVars
<1>6. QED
  BY <1>1, <1>2, <1>3, <1>4, <1>5, NothingEnds DEF Next, EngineStep

\* Only an audit that passed, and the end of the process, clear is_active.
LEMMA StaysActive ==
  ASSUME [Next]_vars, ~AuditPasses, ~StopStep, ~Crash
  PROVE  active' \in {active, TRUE}
<1>1. CASE CoordinatorStep
  <2>1. CASE Consolidate \/ Audit
    BY <2>1
    DEF Consolidate, GetCurrentOrders, GetEatenDetails, SettleEaten,
        GetPartialDetails, SettlePartial, UpdatePosition, AccountingDone, Audit,
        OrderAuditPasses, OrderAuditFails, OrderAuditAgain, ReopenRefused,
        BalanceAuditFails, LedgerAuditFails, Raise
  <2>2. CASE Trade
    BY <2>2
    DEF Trade, PlaceOrder, LoseAnswer, CancelOrder, SaveOrder, coordVars
  <2>3. CASE CoordinatorFails
    BY <2>3
    DEF CoordinatorFails, RequestFails, RecancelFails, AuditRequestFails,
        AuditRequestRetried, StrategyFails, CommitFails, Raise
  <2>4. QED
    BY <1>1, <2>1, <2>2, <2>3 DEF CoordinatorStep, CoordinatorNext
<1>2. CASE LoopStep
  BY <1>2
  DEF LoopStep, StopRequested, FirstTick, TickOrAudit, Consolidated, Audited,
      StrategyDone, EndOfTick, Enter, Raise
<1>3. CASE WindDownStep
  BY <1>3
  DEF WindDownStep, WindDown, CancelNext, AllCancelled, WindDownRequestFails, Raise,
      coordVars
<1>4. CASE CatchStep
  BY <1>4
  DEF CatchStep, FastAuditFailed, WindDownRetried, ExceptionCaught, RecoveryFailed,
      TryToRecover, LoopCommitFails, Catch, Enter
<1>5. CASE Boot \/ Signal \/ ExchangeStep \/ UNCHANGED vars
  BY <1>5 DEF Boot, Signal, ExchangeStep, vars, coordVars
<1>6. QED
  BY <1>1, <1>2, <1>3, <1>4, <1>5 DEF Next, EngineStep

\* An order that has been placed is saved while the exchange is active; and
\* as what is open is watched, every audit finds nothing open.
WatchInv ==
  /\ RunsOn
  /\ OpenOrdersStayWatched
  /\ pc = "save_order" => active
  /\ pc = "balance_audit" => Unrecorded = {} /\ Mismatched = {}

LEMMA WatchInit == Init => WatchInv
  BY DEF Init, ExchangeInit, DatabaseInit, WatchInv, RunsOn, OpenOrdersStayWatched,
         Stopped

LEMMA AuditsFindNothing ==
  ASSUME TypeOK, WindDownInv, WatchInv, pc \in {"order_audit", "balance_audit"}
  PROVE  NothingOpen
  BY DEF WindDownInv, WatchInv, OpenOrdersStayWatched, NothingOpen

LEMMA SavingStep ==
  ASSUME TypeOK, WatchInv, [Next]_vars, pc' = "save_order"
  PROVE  active'
<1>1. CASE UNCHANGED <<pc, active>>
  BY <1>1 DEF WatchInv
<1>2. CASE \E o \in OrderIds : PlaceOrder(o)
  BY <1>2 DEF PlaceOrder
<1>3. CASE CoordinatorStep /\ ~(\E o \in OrderIds : PlaceOrder(o))
  <2>1. UNCHANGED <<pc, active>>
    BY <1>3
    DEF CoordinatorStep, CoordinatorNext, Consolidate, GetCurrentOrders,
        GetEatenDetails, SettleEaten, GetPartialDetails, SettlePartial,
        UpdatePosition, AccountingDone, Audit, OrderAuditPasses, OrderAuditFails,
        OrderAuditAgain, ReopenRefused, BalanceAuditFails, LedgerAuditFails,
        AuditPasses, Trade, LoseAnswer, CancelOrder, SaveOrder, CoordinatorFails, RequestFails, RecancelFails,
        AuditRequestFails, AuditRequestRetried, StrategyFails, CommitFails, Raise,
        Goto, coordVars
  <2>2. QED
    BY <1>1, <2>1
<1>4. CASE LoopStep
  <2>1. CASE Consolidated
    <3>1. pc' \in {"raised", "strategy", "exit", AuditLabel}
      BY <2>1 DEF Consolidated, Raise, Goto
    <3>2. QED
      BY <3>1, AuditLabels
  <2>2. CASE LoopStep /\ ~Consolidated
    BY <2>2, AuditLabels
    DEF LoopStep, StopRequested, FirstTick, TickOrAudit, Audited, StrategyDone,
        EndOfTick, Enter, TickLabel, Goto
  <2>3. QED
    BY <1>4, <2>1, <2>2
<1>5. CASE WindDownStep
  <2>1. CASE AllCancelled
    <3>1. pc' \in {"open_orders", "exit", AuditLabel}
      BY <2>1 DEF AllCancelled, Goto
    <3>2. QED
      BY <3>1, AuditLabels
  <2>2. CASE WindDown \/ (\E o \in OrderIds : CancelNext(o)) \/ WindDownRequestFails
    BY <2>2 DEF WindDown, CancelNext, WindDownRequestFails, Raise, Goto, coordVars
  <2>3. QED
    BY <1>5, <2>1, <2>2 DEF WindDownStep
<1>6. CASE CatchStep \/ StopStep \/ Crash \/ Boot
  BY <1>6
  DEF CatchStep, FastAuditFailed, WindDownRetried, ExceptionCaught, RecoveryFailed,
      TryToRecover, LoopCommitFails, Catch, Enter, Goto, StopStep, ShutDown,
      ForcedDown, LastCommitFails, Crash, Boot, Stopped
<1>7. CASE Signal \/ ExchangeStep \/ UNCHANGED vars
  BY <1>1, <1>7 DEF Signal, ExchangeStep, vars, coordVars
<1>8. QED
  BY <1>2, <1>3, <1>4, <1>5, <1>6, <1>7 DEF Next, EngineStep

\* The balance audit follows the order audit, and is left by the step it takes.
LEMMA BalanceAuditStep ==
  ASSUME [Next]_vars, ~OrderAuditPasses, pc' = "balance_audit"
  PROVE  pc = "balance_audit" /\ (ExchangeStep \/ UNCHANGED <<xFilled, status, trades>>)
<1>1. CASE CoordinatorStep
  BY <1>1
  DEF CoordinatorStep, CoordinatorNext, Consolidate, GetCurrentOrders,
      GetEatenDetails, SettleEaten, GetPartialDetails, SettlePartial,
      UpdatePosition, AccountingDone, Audit, OrderAuditFails, OrderAuditAgain,
      ReopenRefused, BalanceAuditFails, LedgerAuditFails, AuditPasses, Trade,
      PlaceOrder, LoseAnswer, CancelOrder,
      SaveOrder, CoordinatorFails, RequestFails, RecancelFails, AuditRequestFails,
      AuditRequestRetried, StrategyFails, CommitFails, Raise, Goto, coordVars
<1>2. CASE LoopStep
  <2>1. CASE Consolidated
    <3>1. pc' \in {"raised", "strategy", "exit", AuditLabel}
      BY <2>1 DEF Consolidated, Raise, Goto
    <3>2. QED
      BY <3>1, AuditLabels
  <2>2. CASE LoopStep /\ ~Consolidated
    BY <2>2, AuditLabels
    DEF LoopStep, StopRequested, FirstTick, TickOrAudit, Audited, StrategyDone,
        EndOfTick, Enter, TickLabel, Goto
  <2>3. QED
    BY <1>2, <2>1, <2>2
<1>3. CASE WindDownStep
  <2>1. CASE AllCancelled
    <3>1. pc' \in {"open_orders", "exit", AuditLabel}
      BY <2>1 DEF AllCancelled, Goto
    <3>2. QED
      BY <3>1, AuditLabels
  <2>2. CASE WindDown \/ (\E o \in OrderIds : CancelNext(o)) \/ WindDownRequestFails
    BY <2>2 DEF WindDown, CancelNext, WindDownRequestFails, Raise, Goto, coordVars
  <2>3. QED
    BY <1>3, <2>1, <2>2 DEF WindDownStep
<1>4. CASE CatchStep \/ StopStep \/ Crash \/ Boot
  BY <1>4
  DEF CatchStep, FastAuditFailed, WindDownRetried, ExceptionCaught, RecoveryFailed,
      TryToRecover, LoopCommitFails, Catch, Enter, Goto, StopStep, ShutDown,
      ForcedDown, LastCommitFails, Crash, Boot, Stopped
<1>5. CASE Signal \/ UNCHANGED vars
  BY <1>5 DEF Signal, vars, xVars, dbVars, sesVars, coordVars
<1>6. CASE ExchangeStep
  BY <1>6 DEF ExchangeStep, coordVars
<1>7. QED
  BY <1>1, <1>2, <1>3, <1>4, <1>5, <1>6 DEF Next, EngineStep

LEMMA WatchInvStep ==
  ASSUME AsItIs, Undisturbed, TypeOK, TypeOK', LedgerInv, LedgerInv', WindDownInv,
         WatchInv, [Next]_vars
  PROVE  WatchInv'
<1>1. RunsOn' /\ ~StopStep /\ ~Crash
  BY RunsOnStep, NothingEnds DEF WatchInv
<1>2. OpenOrdersStayWatched'
  <2>1. CASE AuditPasses
    <3>1. NothingOpen
      BY <2>1, AuditsFindNothing DEF AuditPasses
    <3>2. QED
      BY <2>1, <3>1 DEF AuditPasses, xVars, NothingOpen, OpenOrdersStayWatched
  <2>2. CASE active'
    BY <2>2 DEF OpenOrdersStayWatched
  <2>3. CASE ~AuditPasses /\ ~active'
    <3>1. ~active
      BY <1>1, <2>3, StaysActive
    <3>2. NothingOpen
      BY <3>1 DEF WatchInv, OpenOrdersStayWatched, NothingOpen
    <3>3. UNCHANGED <<xState, status>>
      <4>1. CASE Quiet
        BY <4>1 DEF Quiet, QuietSession, Rollback, LedgerInv
      <4>2. CASE GetCurrentOrders \/ RecancelFails
        <5>1. (UNCHANGED xVars /\ UNCHANGED dbVars) \/ FreshConsolidation
          BY <4>2, ConsolidatesFresh, RecancelsNone
        <5>2. QED
          BY <5>1 DEF FreshConsolidation, xVars, dbVars, sesVars
      <4>3. CASE GetEatenDetails \/ UpdatePosition
        BY <4>3
        DEF GetEatenDetails, UpdatePosition, AddToPosition, xVars, dbVars, sesVars
      <4>4. ASSUME NEW o \in OrderIds, GetPartialDetails(o) PROVE UNCHANGED <<xState, status>>
        BY <4>4 DEF GetPartialDetails, xVars, dbVars, sesVars
      <4>5. ASSUME NEW o \in OrderIds, SettleEaten(o) \/ SettlePartial(o) PROVE FALSE
        BY <3>2, <4>5 DEF SettleEaten, SettlePartial, LedgerInv, NothingOpen
      <4>6. ASSUME NEW o \in OrderIds, PlaceOrder(o) \/ LoseAnswer(o) PROVE FALSE
        BY <2>3, <4>6 DEF PlaceOrder, LoseAnswer
      <4>7. ~SaveOrder
        BY <3>1 DEF SaveOrder, WatchInv
      <4>8. CASE OrderAuditAgain \/ ReopenRefused
        BY <4>8
        DEF OrderAuditAgain, ReopenRefused, AsItIs, xVars, dbVars, sesVars
      <4>9. ~ExchangeStep
        BY <3>2, OnlyOpenOrdersMove
      <4>10. QED
        BY <4>1, <4>2, <4>3, <4>5, <4>6, <4>7, <4>8, <4>9, <4>4, StepKinds DEF LedgerStep
    <3>4. QED
      BY <3>2, <3>3 DEF NothingOpen, OpenOrdersStayWatched
  <2>4. QED
    BY <2>1, <2>2, <2>3
<1>3. (pc = "save_order" => active)'
  BY SavingStep
<1>4. (pc = "balance_audit" => Unrecorded = {} /\ Mismatched = {})'
  <2>1. SUFFICES ASSUME pc' = "balance_audit"
                 PROVE  Unrecorded' = {} /\ Mismatched' = {}
    OBVIOUS
  <2>2. CASE OrderAuditPasses
    BY <2>2
    DEF OrderAuditPasses, Unrecorded, Mismatched, AuditedOrders, xVars, dbVars, sesVars
  <2>3. CASE ~OrderAuditPasses
    <3>1. pc = "balance_audit" /\ UNCHANGED <<xFilled, status, trades>>
      BY <2>1, <2>3, BalanceAuditStep, AuditsFindNothing, OnlyOpenOrdersMove, <1>1
    <3>2. QED
      BY <3>1 DEF WatchInv, Unrecorded, Mismatched, AuditedOrders
  <2>4. QED
    BY <2>2, <2>3
<1>5. QED
  BY <1>1, <1>2, <1>3, <1>4 DEF WatchInv

LEMMA Watches ==
  ASSUME AsItIs, Undisturbed
  PROVE  Spec => [](TypeOK /\ ReportedTrades /\ LedgerInv /\ WindDownInv /\ WatchInv)
<1>1. TypeOK /\ LedgerInv /\ WindDownInv /\ WatchInv /\ TypeOK' /\ LedgerInv' /\ [Next]_vars
        => WatchInv'
  BY AsItIs, Undisturbed, WatchInvStep
<1>2. Spec => [](TypeOK /\ ReportedTrades /\ LedgerInv /\ WindDownInv)
  BY AsItIs, WindsDown
<1>3. QED
  BY <1>1, <1>2, WatchInit, PTL DEF Spec

(***************************************************************************)
(* While the engine runs on, an order that is open on the exchange or in   *)
(* the ledger keeps the exchange active, whichever requests fail and       *)
(* answers are lost.                                                       *)
(***************************************************************************)
THEOREM StayWatched ==
  ASSUME AsItIs, Undisturbed PROVE Spec => []OpenOrdersStayWatched
<1>1. WatchInv => OpenOrdersStayWatched
  BY DEF WatchInv
<1>2. QED
  BY <1>1, AsItIs, Undisturbed, Watches, PTL

\* An order whose answer has arrived is saved before anything else happens.
SavesFirst == pc # "save_order" => placing = NoOrder

LEMMA SavesFirstInit == Init => SavesFirst
  BY DEF Init, CoordinatorInit, SavesFirst

LEMMA SavesFirstStep ==
  ASSUME Undisturbed, SavesFirst, [Next]_vars
  PROVE  SavesFirst'
<1> USE DEF SavesFirst
<1>1. CASE Quiet
  <2>1. QuietControl
    BY <1>1 DEF Quiet, Undisturbed
  <2>2. QED
    BY <2>1 DEF QuietControl, ForgetSome, locals
<1>2. CASE GetCurrentOrders \/ RecancelFails \/ GetEatenDetails \/ OrderAuditAgain
             \/ ReopenRefused \/ UpdatePosition
  BY <1>2
  DEF GetCurrentOrders, RecancelFails, GetEatenDetails, OrderAuditAgain,
      ReopenRefused, UpdatePosition, Raise, ForgetLocals
<1>3. ASSUME NEW o \in OrderIds,
             SettleEaten(o) \/ GetPartialDetails(o) \/ SettlePartial(o) \/ LoseAnswer(o)
      PROVE  SavesFirst'
  BY <1>3 DEF SettleEaten, GetPartialDetails, SettlePartial, LoseAnswer, locals
<1>4. ASSUME NEW o \in OrderIds, PlaceOrder(o) PROVE SavesFirst'
  BY <1>4 DEF PlaceOrder, Goto
<1>5. CASE SaveOrder
  BY <1>5 DEF SaveOrder
<1>6. CASE ExchangeStep
  BY <1>6 DEF ExchangeStep, coordVars, locals
<1>7. QED
  BY <1>1, <1>2, <1>3, <1>4, <1>5, <1>6, StepKinds DEF LedgerStep

\* A lost order is over: nothing trades or records it any more.
LEMMA LostStaysLost ==
  ASSUME AsItIs, Undisturbed, TypeOK, LedgerInv, SavesFirst, [Next]_vars,
         NEW o \in Lost
  PROVE  o \in Lost' /\ xFilled'[o] = xFilled[o]
<1>1. /\ o \in OrderIds /\ status[o] = "NONE" /\ xState[o] = "closed" /\ o # placing
      /\ o # NoOrder
  BY DEF Lost, OrderIds, NoOrder
<1>2. SUFFICES /\ status'[o] = "NONE" /\ xState'[o] = "closed" /\ o # placing'
               /\ xFilled'[o] = xFilled[o]
  BY <1>1 DEF Lost
<1>3. CASE Quiet
  <2>1. QuietSession /\ QuietControl /\ UNCHANGED <<xState, xFilled>>
    BY <1>3 DEF Quiet, Undisturbed
  <2>2. QED
    BY <1>1, <2>1 DEF QuietSession, QuietControl, ForgetSome, locals
<1>4. CASE GetCurrentOrders \/ RecancelFails
  <2>1. CASE Raise("audit") /\ UNCHANGED <<xVars, dbVars>>
    BY <1>1, <2>1 DEF Raise, ForgetLocals, xVars, dbVars, sesVars
  <2>2. CASE FreshConsolidation
    BY <1>1, <2>2 DEF FreshConsolidation
  <2>3. QED
    BY <1>4, <2>1, <2>2, ConsolidatesFresh, RecancelsNone
<1>5. CASE GetEatenDetails \/ UpdatePosition \/ (\E p \in OrderIds : GetPartialDetails(p))
  BY <1>1, <1>5
  DEF GetEatenDetails, UpdatePosition, AddToPosition, GetPartialDetails, xVars, dbVars,
      sesVars
<1>6. ASSUME NEW p \in OrderIds, SettleEaten(p) \/ SettlePartial(p)
      PROVE  status'[o] = "NONE" /\ xState'[o] = "closed" /\ o # placing'
             /\ xFilled'[o] = xFilled[o]
  <2>1. status[p] = "OPEN" /\ p # o
    BY <1>1, <1>6 DEF SettleEaten, SettlePartial, LedgerInv
  <2>2. QED
    BY <1>1, <1>6, <2>1
    DEF SettleEaten, SettlePartial, WasEaten, WasPartiallyEaten, xVars, TypeOK,
        DatabaseType, SessionType
<1>7. ASSUME NEW p \in OrderIds, PlaceOrder(p) \/ LoseAnswer(p)
      PROVE  status'[o] = "NONE" /\ xState'[o] = "closed" /\ o # placing'
             /\ xFilled'[o] = xFilled[o]
  <2>1. p # o
    BY <1>1, <1>7 DEF PlaceOrder, LoseAnswer, Accept
  <2>2. QED
    BY <1>1, <1>7, <2>1
    DEF PlaceOrder, LoseAnswer, Accept, dbVars, sesVars, locals, TypeOK, ExchangeType
<1>8. CASE SaveOrder
  BY <1>1, <1>8
  DEF SaveOrder, NewOrder, xVars, TypeOK, DatabaseType, SessionType
<1>9. CASE OrderAuditAgain \/ ReopenRefused
  BY <1>1, <1>9
  DEF OrderAuditAgain, ReopenRefused, AsItIs, Raise, ForgetLocals, xVars, dbVars, sesVars
<1>10. CASE ExchangeStep
  <2>1. PICK p \in OrderIds : Fill(p) \/ CancelTakesEffect(p)
    BY <1>10 DEF ExchangeStep
  <2>2. p # o
    BY <1>1, <2>1 DEF Fill, CancelTakesEffect, TypeOK, ExchangeType, OpenOnExchange
  <2>3. QED
    BY <1>1, <1>10, <2>1, <2>2
    DEF ExchangeStep, Fill, CancelTakesEffect, dbVars, sesVars, coordVars, locals,
        TypeOK, ExchangeType
<1>11. QED
  BY <1>3, <1>4, <1>5, <1>6, <1>7, <1>8, <1>9, <1>10, StepKinds DEF LedgerStep

\* What the balance audit takes for drift: what traded of the hidden orders.
LEMMA DriftOfHidden ==
  ASSUME TypeOK, ReportedTrades, LedgerInv, WindDownInv, WatchInv, PositionInv,
         SavesFirst, drift \in Int, pc = "balance_audit"
  PROVE  /\ Hidden \in SUBSET Lost /\ Cardinality(Hidden) <= AuditSkip
         /\ DriftRecorded = Net(Traded(Hidden))
<1>1. NothingOpen
  BY AuditsFindNothing
<1>2. Cardinality(Hidden) <= AuditSkip
  BY HiddenFromAudit DEF WatchInv
<1>3. Hidden \in SUBSET Lost
  BY <1>1, HiddenIsLost DEF SavesFirst, Lost, OrderIds, NoOrder
<1>4. posted = trades
  <2>1. \A o \in OrderIds : posted[o] = trades[o]
    <3>1. change = NoChange
      BY DEF PositionInv
    <3>2. QED
      BY <3>1, NothingPending
      DEF PositionInv, PositionFollowsTrades, TypeOK, DatabaseType, SessionType
  <2>2. QED
    BY <2>1 DEF TypeOK, DatabaseType, SessionType
<1>5. Traded(Hidden) \in Volumes
  BY AccountAssumption DEF TypeOK, ExchangeType, Traded, Volumes
<1>6. \A o \in OrderIds : xFilled[o] = trades[o] + Traded(Hidden)[o]
  <2>1. \A o \in Hidden : trades[o] = 0
    BY <1>1, HiddenIsLost
  <2>2. QED
    BY <2>1, OpenBooks DEF Hidden, Traded, Volumes
<1>7. Net(xFilled) = Net(trades) + Net(Traded(Hidden))
  <2>1. \A o \in OrderIds :
          OnSides(xFilled)[o] = OnSides(trades)[o] + OnSides(Traded(Hidden))[o]
    <3>1. ASSUME NEW o \in OrderIds
          PROVE  OnSides(xFilled)[o] = OnSides(trades)[o] + OnSides(Traded(Hidden))[o]
      <4>1. /\ trades[o] \in Int /\ Traded(Hidden)[o] \in Int
            /\ Side[o] = 1 \/ Side[o] = -1
        BY <1>5, OpenBooks, AccountAssumption DEF Volumes
      <4>2. QED
        BY <1>6, <4>1 DEF OnSides
    <3>2. QED
      BY <3>1
  <2>2. Total(OnSides(xFilled), OrderIds)
          = Total(OnSides(trades), OrderIds) + Total(OnSides(Traded(Hidden)), OrderIds)
    BY <1>5, <2>1, OpenBooks, Summed, TotalPlus
  <2>3. QED
    BY <1>5, <2>2, OpenBooks, NetIsSum
<1>8. Net(Traded(Hidden)) \in Int
  BY <1>5, NetType
<1>9. DriftRecorded = Net(xFilled) - Net(posted)
  BY OpenBooks DEF DriftRecorded, Difference, DbBalance, ExchangeBalance
<1>10. QED
  BY <1>2, <1>3, <1>4, <1>7, <1>8, <1>9, OpenBooks

LEMMA DriftStep ==
  ASSUME AsItIs, Undisturbed, TypeOK, ReportedTrades, LedgerInv, WindDownInv, WatchInv,
         PositionInv, SavesFirst, DriftIsLostOrders, [Next]_vars
  PROVE  DriftIsLostOrders'
<1>1. PICK S \in SUBSET Lost : Cardinality(S) <= AuditSkip /\ drift = Net(Traded(S))
  BY DEF DriftIsLostOrders
<1>2. drift \in Int
  <2>1. Traded(S) \in Volumes
    BY AccountAssumption DEF TypeOK, ExchangeType, Traded, Volumes
  <2>2. QED
    BY <1>1, <2>1, NetType
<1>3. ASSUME NEW T \in SUBSET Lost, Cardinality(T) <= AuditSkip, drift' = Net(Traded(T))
      PROVE  DriftIsLostOrders'
  <2>1. T \in SUBSET Lost' /\ \A o \in T : xFilled'[o] = xFilled[o]
    BY LostStaysLost
  <2>2. Traded(T)' = Traded(T)
    BY <2>1 DEF Traded
  <2>3. Net(Traded(T))' = Net(Traded(T))
    BY <2>2
  <2>4. QED
    BY <1>3, <2>1, <2>3 DEF DriftIsLostOrders
<1>4. drift' = drift \/ (pc = "balance_audit" /\ drift' = DriftRecorded)
  <2>1. CASE Quiet
    BY <2>1 DEF Quiet, QuietSession, Undisturbed
  <2>2. CASE LedgerStep
    BY <2>2, DriftKept
  <2>3. QED
    BY <2>1, <2>2, StepKinds
<1>5. QED
  BY <1>1, <1>2, <1>3, <1>4, DriftOfHidden

(***************************************************************************)
(* Trading, failing requests and lost answers make an audit record drift   *)
(* only for orders that were lost with their answer and that the order     *)
(* audit's data leave out, so never more than AuditSkip of them at a time. *)
(***************************************************************************)
THEOREM TradingWithoutDrift ==
  ASSUME AsItIs, Undisturbed PROVE Spec => []DriftIsLostOrders
<1>1. Init => DriftIsLostOrders
  <2>1. SUFFICES ASSUME Init PROVE DriftIsLostOrders
    OBVIOUS
  <2>2. xFilled = [o \in OrderIds |-> 0] /\ drift = 0
    BY <2>1 DEF Init, ExchangeInit, DatabaseInit
  <2>3. xFilled \in Volumes
    BY <2>2 DEF Volumes
  <2>4. Net(xFilled) = 0
    <3>1. \A o \in OrderIds : OnSides(xFilled)[o] = OnSides(xFilled)[o] + OnSides(xFilled)[o]
      BY <2>2, AccountAssumption DEF OnSides
    <3>2. Total(OnSides(xFilled), OrderIds)
            = Total(OnSides(xFilled), OrderIds) + Total(OnSides(xFilled), OrderIds)
      BY <2>3, <3>1, Summed, TotalPlus
    <3>3. Net(xFilled) = Total(OnSides(xFilled), OrderIds) /\ Net(xFilled) \in Int
      BY <2>3, NetIsSum, NetType
    <3>4. \A n \in Int : n = n + n => n = 0
      OBVIOUS
    <3>5. Net(xFilled) = Net(xFilled) + Net(xFilled)
      BY <3>2, <3>3, Zenon
    <3>6. QED
      BY <3>3, <3>4, <3>5
  <2>5. Traded({}) = xFilled
    BY <2>2 DEF Traded
  <2>6. {} \in SUBSET Lost /\ Cardinality({}) <= AuditSkip
    BY FS_EmptySet, AccountAssumption
  <2>7. QED
    BY <2>2, <2>4, <2>5, <2>6 DEF DriftIsLostOrders
<1>2. TypeOK /\ TypeOK' /\ PositionInv /\ [Next]_vars => PositionInv'
  BY Undisturbed, PositionStep DEF Undisturbed
<1>3. TypeOK /\ ReportedTrades /\ LedgerInv /\ WindDownInv /\ WatchInv /\ PositionInv
        /\ SavesFirst /\ DriftIsLostOrders /\ [Next]_vars => DriftIsLostOrders'
  BY AsItIs, Undisturbed, DriftStep
<1>4. SavesFirst /\ [Next]_vars => SavesFirst'
  BY Undisturbed, SavesFirstStep
<1>5. Spec => [](TypeOK /\ ReportedTrades /\ LedgerInv /\ WindDownInv /\ WatchInv)
  BY AsItIs, Undisturbed, Watches
<1>6. QED
  BY <1>1, <1>2, <1>3, <1>4, <1>5, PositionInit, SavesFirstInit, PTL DEF Spec

-----------------------------------------------------------------------------
(* A process that dies                                                     *)

(***************************************************************************)
(* Where the position leaves out a trade.  update_position is under way    *)
(* for one order at a time, and session and rows are the same between      *)
(* steps; so a crash forgets the change of that one order, and nothing     *)
(* else takes the position away from the trades.                           *)
(***************************************************************************)
OutOfStep == {o \in OrderIds : posted[o] + Pending(o) # trades[o]}

CrashInv ==
  /\ trades = dbTrades /\ posted = dbPosted
  /\ pc \notin {"partial", "update_position"} => change = NoChange
  /\ pc = "partial" => change.amount = 0
  /\ Cardinality(OutOfStep) <= crashes

LEMMA OutOfStepFinite ==
  /\ OutOfStep \in SUBSET OrderIds /\ IsFiniteSet(OutOfStep)
  /\ Cardinality(OutOfStep) \in Nat
<1>1. OutOfStep \in SUBSET OrderIds
  BY DEF OutOfStep
<1>2. QED
  BY <1>1, OrdersFinite, FS_CardinalityType

LEMMA CrashInit == Init => CrashInv
<1>1. Init => OutOfStep = {}
  BY DEF Init, DatabaseInit, CoordinatorInit, OutOfStep, Pending, NoChange, NoOrder,
         OrderIds
<1>2. QED
  BY <1>1, FS_EmptySet DEF Init, DatabaseInit, CoordinatorInit, CrashInv

LEMMA CrashesCounted ==
  ASSUME TypeOK, [Next]_vars
  PROVE  crashes' \in {crashes, crashes + 1}
<1>1. CASE CoordinatorStep \/ LoopStep \/ WindDownStep
  BY <1>1
  DEF CoordinatorStep, LoopStep, StopRequested, FirstTick, TickOrAudit, Consolidated,
      Audited, StrategyDone, EndOfTick, Enter, WindDownStep, WindDown, CancelNext,
      AllCancelled, WindDownRequestFails, runnerVars
<1>2. CASE CatchStep \/ StopStep \/ Crash \/ Boot \/ Signal
  BY <1>2
  DEF CatchStep, FastAuditFailed, WindDownRetried, ExceptionCaught, RecoveryFailed,
      TryToRecover, LoopCommitFails, Catch, Enter, StopStep, ShutDown, ForcedDown,
      LastCommitFails, Crash, Boot, Signal, runnerVars
<1>3. CASE ExchangeStep \/ UNCHANGED vars
  BY <1>3 DEF ExchangeStep, vars, runnerVars
<1>4. QED
  BY <1>1, <1>2, <1>3 DEF Next, EngineStep

LEMMA CrashStep ==
  ASSUME "commit" \notin Env, TypeOK, TypeOK', CrashInv, [Next]_vars
  PROVE  CrashInv'
<1>1. /\ \A o \in OrderIds : /\ trades[o] \in Int /\ posted[o] \in Int
                             /\ trades'[o] \in Int /\ posted'[o] \in Int
      /\ change.order \in OrderIds \cup {NoOrder} /\ change.amount \in Int
      /\ crashes \in Nat /\ crashes' \in {crashes, crashes + 1}
  BY AccountAssumption, CrashesCounted
  DEF TypeOK, DatabaseType, SessionType, CoordinatorType, LocalsType
<1>2. CASE /\ Rollback /\ crashes' = crashes + 1 /\ change' = NoChange
  <2> DEFINE more == OutOfStep \cup {change.order}
  <2>1. OutOfStep' \subseteq more
    BY <1>1, <1>2 DEF Rollback, CrashInv, OutOfStep, Pending, NoChange, NoOrder, OrderIds
  <2>2. IsFiniteSet(more) /\ Cardinality(more) <= Cardinality(OutOfStep) + 1
    <3>1. /\ IsFiniteSet(more)
          /\ Cardinality(more) = IF change.order \in OutOfStep
                                THEN Cardinality(OutOfStep)
                                ELSE Cardinality(OutOfStep) + 1
      BY OutOfStepFinite, FS_AddElement
    <3>2. QED
      BY <3>1, OutOfStepFinite
  <2>3. Cardinality(OutOfStep') <= Cardinality(more)
    BY <2>1, <2>2, FS_Subset
  <2>4. Cardinality(OutOfStep') \in Nat /\ Cardinality(more) \in Nat
    BY <2>1, <2>2, FS_Subset, FS_CardinalityType
  <2>5. Cardinality(OutOfStep') <= crashes'
    BY <1>1, <1>2, <2>2, <2>3, <2>4, OutOfStepFinite DEF CrashInv
  <2>6. QED
    BY <1>2, <2>5 DEF CrashInv, Rollback, rowVars, NoChange
<1>3. ASSUME trades' = dbTrades', posted' = dbPosted', OutOfStep' = OutOfStep,
             (pc \notin {"partial", "update_position"} => change = NoChange)',
             (pc = "partial" => change.amount = 0)'
      PROVE  CrashInv'
  BY <1>1, <1>3, OutOfStepFinite DEF CrashInv
<1>4. CASE Quiet
  <2>1. CASE QuietSession /\ QuietControl
    <3>1. UNCHANGED <<trades, posted>> /\ trades' = dbTrades' /\ posted' = dbPosted'
      BY <2>1 DEF QuietSession, Commit, rowVars, CrashInv
    <3>2. /\ change' = change
          /\ (pc \notin {"partial", "update_position"} => change = NoChange)'
          /\ (pc = "partial" => change.amount = 0)'
      BY <2>1 DEF QuietControl, ForgetSome, CrashInv, locals
    <3>3. OutOfStep' = OutOfStep
      BY <3>1, <3>2 DEF OutOfStep, Pending
    <3>4. QED
      BY <1>3, <3>1, <3>2, <3>3
  <2>2. CASE Rollback /\ crashes' = crashes + 1 /\ change' = NoChange
    BY <1>2, <2>2
  <2>3. QED
    BY <1>4, <2>1, <2>2, "commit" \notin Env DEF Quiet
<1>5. CASE GetCurrentOrders \/ RecancelFails \/ GetEatenDetails \/ OrderAuditAgain
             \/ ReopenRefused
  <2>1. /\ UNCHANGED <<trades, posted, dbTrades, dbPosted>>
        /\ change' = NoChange /\ pc' # "partial"
    BY <1>5
    DEF GetCurrentOrders, RecancelFails, GetEatenDetails, OrderAuditAgain,
        ReopenRefused, Reopen, Raise, ForgetLocals, Goto, CrashInv, dbVars, sesVars,
        rowVars
  <2>2. change = NoChange
    BY <1>5
    DEF GetCurrentOrders, RecancelFails, GetEatenDetails, OrderAuditAgain,
        ReopenRefused, CrashInv
  <2>3. OutOfStep' = OutOfStep
    BY <2>1, <2>2 DEF OutOfStep, Pending
  <2>4. QED
    BY <1>3, <2>1, <2>3 DEF CrashInv
<1>6. ASSUME NEW o \in OrderIds, SettleEaten(o) \/ SettlePartial(o) PROVE CrashInv'
  <2>1. /\ change = NoChange \/ change.amount = 0
        /\ pc' = "update_position" /\ posted' = posted
        /\ trades' = dbTrades' /\ posted' = dbPosted'
        /\ change' = [order |-> o, amount |-> trades'[o] - trades[o]]
        /\ \A p \in OrderIds : p # o => trades'[p] = trades[p]
    BY <1>6
    DEF SettleEaten, SettlePartial, WasEaten, WasPartiallyEaten, Goto, Commit, TypeOK,
        DatabaseType, SessionType, CrashInv
  <2>2. OutOfStep' = {p \in OrderIds : posted[p] # trades[p]}
    BY <1>1, <2>1 DEF OutOfStep, Pending
  <2>3. OutOfStep = {p \in OrderIds : posted[p] # trades[p]}
    BY <1>1, <2>1, NothingPending DEF OutOfStep
  <2>4. QED
    BY <1>3, <2>1, <2>2, <2>3
<1>7. ASSUME NEW o \in OrderIds, GetPartialDetails(o) PROVE CrashInv'
  <2>1. /\ UNCHANGED <<trades, posted, dbTrades, dbPosted>> /\ pc' = "partial"
        /\ change = NoChange /\ change' = [order |-> o, amount |-> 0]
    BY <1>7 DEF GetPartialDetails, Goto, CrashInv, dbVars, sesVars, rowVars
  <2>2. OutOfStep' = OutOfStep
    BY <1>1, <2>1, NothingPending DEF OutOfStep, Pending
  <2>3. QED
    BY <1>3, <2>1, <2>2 DEF CrashInv
<1>8. ASSUME NEW o \in OrderIds, PlaceOrder(o) \/ LoseAnswer(o) PROVE CrashInv'
  <2>1. UNCHANGED <<trades, posted, dbTrades, dbPosted, change>> /\ pc' # "partial"
    BY <1>8 DEF PlaceOrder, LoseAnswer, Goto, dbVars, sesVars, rowVars, locals
  <2>2. OutOfStep' = OutOfStep /\ change = NoChange
    BY <1>8, <2>1 DEF OutOfStep, Pending, PlaceOrder, LoseAnswer, CrashInv
  <2>3. QED
    BY <1>3, <2>1, <2>2 DEF CrashInv
<1>9. CASE UpdatePosition
  <2>1. /\ change' = NoChange /\ trades' = trades /\ pc' = "accounting"
        /\ trades' = dbTrades' /\ posted' = dbPosted'
        /\ posted' = [posted EXCEPT ![change.order] = @ + change.amount]
    BY <1>9 DEF UpdatePosition, AddToPosition, Commit, Goto
  <2>2. \A o \in OrderIds : posted'[o] = posted[o] + Pending(o)
    BY <1>1, <2>1 DEF Pending, TypeOK, DatabaseType, SessionType
  <2>3. \A o \in OrderIds : posted'[o] + Pending(o)' = posted'[o]
    BY <1>1, <2>1 DEF Pending, NoChange, NoOrder, OrderIds
  <2>4. OutOfStep' = OutOfStep
    BY <2>1, <2>2, <2>3 DEF OutOfStep
  <2>5. QED
    BY <1>3, <2>1, <2>4
<1>10. CASE SaveOrder
  <2>1. /\ UNCHANGED <<trades, posted, change>> /\ pc' = "strategy"
        /\ trades' = dbTrades' /\ posted' = dbPosted' /\ change = NoChange
    BY <1>10 DEF SaveOrder, NewOrder, Commit, Goto, CrashInv
  <2>2. OutOfStep' = OutOfStep
    BY <2>1 DEF OutOfStep, Pending
  <2>3. QED
    BY <1>3, <2>1, <2>2
<1>11. CASE ExchangeStep
  <2>1. UNCHANGED <<trades, posted, dbTrades, dbPosted, change, pc>>
    BY <1>11 DEF ExchangeStep, dbVars, sesVars, rowVars, coordVars, locals
  <2>2. OutOfStep' = OutOfStep
    BY <2>1 DEF OutOfStep, Pending
  <2>3. QED
    BY <1>3, <2>1, <2>2 DEF CrashInv
<1>12. QED
  BY <1>4, <1>5, <1>6, <1>8, <1>9, <1>10, <1>11, <1>7, StepKinds DEF LedgerStep

(***************************************************************************)
(* However often the process dies, and however stale the exchange's        *)
(* answers are: each death leaves the position wrong for one order at      *)
(* most, as long as commits themselves succeed.                            *)
(***************************************************************************)
THEOREM CrashesCostOneOrder ==
  ASSUME "commit" \notin Env PROVE Spec => []OneOrderPerCrash
<1>1. TypeOK /\ CrashInv => OneOrderPerCrash
  <2>1. SUFFICES ASSUME TypeOK, CrashInv PROVE OneOrderPerCrash
    OBVIOUS
  <2> DEFINE atHand == IF pc = "update_position" THEN {change.order} ELSE {}
             behind == {o \in OrderIds : dbPosted[o] # dbTrades[o]} \ atHand
  <2>2. behind \subseteq OutOfStep
    <3>1. \A o \in behind : Pending(o) = 0
      BY <2>1, NothingPending DEF CrashInv, Pending
    <3>2. QED
      BY <2>1, <3>1 DEF CrashInv, OutOfStep, TypeOK, DatabaseType, SessionType
  <2>3. Cardinality(behind) <= Cardinality(OutOfStep) /\ Cardinality(behind) \in Nat
    BY <2>2, OutOfStepFinite, FS_Subset, FS_CardinalityType
  <2>4. QED
    BY <2>1, <2>3, OutOfStepFinite DEF CrashInv, OneOrderPerCrash, TypeOK
<1>2. TypeOK /\ TypeOK' /\ CrashInv /\ [Next]_vars => CrashInv'
  BY "commit" \notin Env, CrashStep
<1>3. QED
  BY <1>1, <1>2, CrashInit, TypeCorrect, PTL DEF Spec
===============================================================================
