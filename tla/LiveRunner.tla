------------------------------ MODULE LiveRunner ------------------------------
(***************************************************************************)
(* live_runner.py and harness.pyx: the loop that ticks a strategy, audits  *)
(* the account every AuditTick ticks, audits in a loop after an exception, *)
(* winds down when asked to stop, and is started again after it stopped or *)
(* died.  Auditing and execution are switched on, there is one tradable    *)
(* exchange, and the strategy may place and cancel orders at will.         *)
(*                                                                         *)
(* mode says which call of the loop the thread is in: it decides where a   *)
(* call that ends goes, and who catches an exception.                      *)
(***************************************************************************)
EXTENDS ExchangeCoordinator

CONSTANTS
  AuditTick,   \* harness.audit_tick
  IsTarget,    \* whether strategy.target_exchanges lists the exchange
  MaxCrashes   \* bound: crashes of the process

ASSUME RunnerAssumption ==
  /\ AuditTick \in Nat \ {0}
  /\ IsTarget \in BOOLEAN
  /\ MaxCrashes \in Nat

VARIABLES
  mode,
  tick,        \* tick_count, AuditTick standing for its multiples
  warm,        \* warm_shutdown_flag
  cancelling,  \* orders cancel_all_open_orders has still to cancel
  crashes

runnerVars == <<mode, tick, warm, cancelling, crashes>>
vars == <<xVars, dbVars, coordVars, runnerVars>>

Modes == {"tick", "fast_audit", "initial_audit", "regular_audit", "recovery",
          "shutdown"}

Stopped == {"shut_down", "forced_down", "crashed"}

RunnerLabels ==
  {"top", "wind_down", "cancel_all", "end", "retry", "exit"} \cup Stopped

TypeOK ==
  /\ ExchangeType /\ DatabaseType /\ CoordinatorType
  /\ pc \in CoordinatorLabels \cup RunnerLabels
  /\ mode \in Modes
  /\ tick \in 0..AuditTick
  /\ warm \in BOOLEAN
  /\ cancelling \in SUBSET OrderIds
  /\ crashes \in Nat

Init ==
  /\ ExchangeInit /\ DatabaseInit /\ CoordinatorInit
  /\ pc = "top" /\ mode = "tick" /\ tick = 0
  /\ warm = FALSE /\ cancelling = {} /\ crashes = 0

\* harness.auditable_exchanges.
Auditable == active \/ IsTarget

\* harness.tick: consolidate the ledger of an active exchange, then tick
\* the strategy.
TickLabel == IF active THEN "open_orders" ELSE "strategy"

AuditLabel == IF Auditable THEN "order_audit" ELSE "audited"

-----------------------------------------------------------------------------
(* The main loop                                                           *)

Enter(newMode, label) ==
  /\ mode' = newMode
  /\ Goto(label)
  /\ UNCHANGED <<xVars, dbVars, active, locals, tick, warm, cancelling, crashes>>

\* The loop sees the flag and returns, through the finally clause that
\* commits and into the one that winds down.
StopRequested ==
  /\ pc = "top" /\ warm
  /\ UNCHANGED sesVars /\ Commit
  /\ mode' = "shutdown" /\ Goto("wind_down")
  /\ UNCHANGED <<xVars, active, locals, tick, warm, cancelling, crashes>>

\* Audit before the first tick, without winding down.
FirstTick == pc = "top" /\ ~warm /\ tick = 0 /\ Enter("fast_audit", AuditLabel)

\* Audit instead of every AuditTick'th tick.
TickOrAudit ==
  /\ pc = "top" /\ ~warm /\ tick > 0
  /\ IF tick = AuditTick THEN Enter("regular_audit", "wind_down")
                         ELSE Enter("tick", TickLabel)

\* A bug: wind_down does not look whether an order is left.
Consolidated_NoAssert ==
  /\ pc = "consolidated"
  /\ UNCHANGED <<xVars, dbVars, runnerVars>>
  /\ Goto(CASE mode = "tick" -> "strategy"
            [] mode = "shutdown" -> "exit"
            [] OTHER -> AuditLabel)
  /\ ForgetLocals
  /\ UNCHANGED active

\* After consolidate_ledgers.  wind_down asserts that no order is left.
Consolidated ==
  /\ pc = "consolidated"
  /\ UNCHANGED <<xVars, dbVars, runnerVars>>
  /\ IF mode # "tick" /\ current # {}
     THEN Raise("other")
     ELSE /\ Goto(CASE mode = "tick" -> "strategy"
                    [] mode = "shutdown" -> "exit"
                    [] OTHER -> AuditLabel)
          /\ ForgetLocals
          /\ UNCHANGED active

\* A full_audit that raised nothing: the initial audits go on to the tick.
Audited ==
  /\ pc = "audited"
  /\ IF mode \in {"fast_audit", "initial_audit"}
     THEN Enter("tick", TickLabel)
     ELSE Enter(mode, "end")

StrategyDone == pc = "strategy" /\ Enter(mode, "end")

\* The finally clause of the loop, then the next round or, when the strategy
\* is complete, the way out.
EndOfTick ==
  /\ pc = "end"
  /\ UNCHANGED sesVars /\ Commit
  /\ tick' = IF tick = AuditTick THEN 1 ELSE tick + 1
  /\ \/ Goto("top") /\ UNCHANGED mode
     \/ "signal" \in Env /\ Goto("wind_down") /\ mode' = "shutdown"
  /\ UNCHANGED <<xVars, active, locals, warm, cancelling, crashes>>

-----------------------------------------------------------------------------
(* harness.wind_down                                                       *)

\* A bug: only the orders of the strategy's target exchanges are cancelled.
WindDown_TargetsOnly ==
  /\ pc = "wind_down"
  /\ IF IsTarget THEN cancelling' \in OpenOrderLists ELSE cancelling' = {}
  /\ Goto("cancel_all")
  /\ UNCHANGED <<xVars, dbVars, active, locals, mode, tick, warm, crashes>>

\* cancel_all_open_orders asks the wrapper for the open orders.
WindDown ==
  /\ pc = "wind_down"
  /\ IF Auditable THEN cancelling' \in OpenOrderLists ELSE cancelling' = {}
  /\ Goto("cancel_all")
  /\ UNCHANGED <<xVars, dbVars, active, locals, mode, tick, warm, crashes>>

\* It cancels them one by one, on the wrapper: an order that was filled in
\* the meantime makes the wrapper raise, on exchanges that report it.
CancelNext(o) ==
  /\ pc = "cancel_all" /\ o \in cancelling
  /\ \/ /\ RequestCancel({o})
        /\ cancelling' = cancelling \ {o}
        /\ UNCHANGED coordVars
     \/ /\ o \notin OpenOnExchange
        /\ Raise("other")
        /\ cancelling' = {}
        /\ UNCHANGED xVars
  /\ UNCHANGED <<dbVars, mode, tick, warm, crashes>>

\* A bug: wind_down leaves the ledger to the ticks.
AllCancelled_NoConsolidation ==
  /\ pc = "cancel_all" /\ cancelling = {}
  /\ Goto(IF mode = "shutdown" THEN "exit" ELSE AuditLabel)
  /\ UNCHANGED <<xVars, dbVars, active, locals, runnerVars>>

\* Consolidate, if the exchange is active, otherwise go on as Consolidated.
AllCancelled ==
  /\ pc = "cancel_all" /\ cancelling = {}
  /\ Goto(CASE active -> "open_orders"
            [] ~active /\ mode = "shutdown" -> "exit"
            [] OTHER -> AuditLabel)
  /\ UNCHANGED <<xVars, dbVars, active, locals, runnerVars>>

WindDownRequestFails ==
  /\ "api" \in Env /\ pc \in {"wind_down", "cancel_all"}
  /\ Raise("api")
  /\ cancelling' = {}
  /\ UNCHANGED <<xVars, dbVars, mode, tick, warm, crashes>>

-----------------------------------------------------------------------------
(* Exceptions                                                              *)

Catch(newMode, label) ==
  /\ pc = "raised" /\ pc' = label /\ exc' = "none" /\ mode' = newMode
  /\ UNCHANGED <<xVars, active, locals, tick, warm, cancelling, crashes>>

\* An AuditException of the fast audit: audit again after a wind-down.
FastAuditFailed ==
  /\ mode = "fast_audit" /\ exc = "audit"
  /\ Catch("initial_audit", "wind_down") /\ UNCHANGED dbVars

\* exchange_retry tries wind_down again.
WindDownRetried ==
  /\ exc = "api" /\ mode \notin {"tick", "fast_audit"}
  /\ Catch(mode, "wind_down") /\ UNCHANGED dbVars

\* Anything else in the loop body goes to exception_retry_loop.
ExceptionCaught ==
  /\ \/ mode \in {"tick", "initial_audit", "regular_audit"}
     \/ mode = "fast_audit" /\ exc # "audit"
  /\ Catch("recovery", "retry") /\ UNCHANGED dbVars

\* handle_exception failed: commit, so that changes of other processes
\* become visible, and try again.
RecoveryFailed ==
  /\ mode = "recovery"
  /\ Catch("recovery", "retry")
  /\ UNCHANGED sesVars /\ Commit

\* A bug: the audit without winding down.
TryToRecover_NoWindDown ==
  pc = "retry" /\ Enter(mode, IF warm THEN "end" ELSE AuditLabel)

\* exception_retry_loop: a full audit, unless the engine is to stop.
TryToRecover ==
  /\ pc = "retry"
  /\ Enter(mode, IF warm THEN "end" ELSE "wind_down")

\* A commit of the loop itself fails: the way out is the outer finally.
LoopCommitFails ==
  /\ "commit" \in Env
  /\ \/ pc = "end" \/ (pc = "top" /\ warm)
     \/ pc = "raised" /\ mode = "recovery"
  /\ Rollback
  /\ pc' = "wind_down" /\ exc' = "none" /\ mode' = "shutdown"
  /\ UNCHANGED <<xVars, active, locals, tick, warm, cancelling, crashes>>

-----------------------------------------------------------------------------
(* The end of the process and the start of the next one                    *)

\* Everything in memory is gone; the next process starts from this.
ForgetMemory ==
  /\ exc' = "none" /\ active' = FALSE /\ ForgetLocals
  /\ mode' = "tick" /\ tick' = 0 /\ warm' = FALSE /\ cancelling' = {}

\* warm_shutdown completed, then the last commit.
ShutDown ==
  /\ pc = "exit" /\ pc' = "shut_down"
  /\ UNCHANGED <<sesVars, xVars, crashes>> /\ Commit
  /\ ForgetMemory

\* warm_shutdown swallowed an exception of wind_down.
ForcedDown ==
  /\ pc = "raised" /\ mode = "shutdown" /\ pc' = "forced_down"
  /\ UNCHANGED <<sesVars, xVars, crashes>> /\ Commit
  /\ ForgetMemory

LastCommitFails ==
  /\ "commit" \in Env
  /\ \/ pc = "exit"
     \/ pc = "raised" /\ mode = "shutdown"
  /\ pc' = "forced_down"
  /\ Rollback
  /\ ForgetMemory /\ UNCHANGED <<xVars, crashes>>

Crash ==
  /\ "crash" \in Env /\ crashes < MaxCrashes
  /\ pc \notin Stopped /\ pc' = "crashed"
  /\ crashes' = crashes + 1
  /\ Rollback
  /\ ForgetMemory /\ UNCHANGED xVars

\* The engine is started again, by the operator or by restart().
Boot ==
  /\ pc \in Stopped
  /\ pc' = "top"
  /\ UNCHANGED <<xVars, dbVars, exc, active, locals, runnerVars>>

\* SIGINT or SIGHUP.
Signal ==
  /\ "signal" \in Env /\ ~warm /\ pc \notin Stopped
  /\ warm' = TRUE
  /\ UNCHANGED <<xVars, dbVars, coordVars, mode, tick, cancelling, crashes>>

-----------------------------------------------------------------------------

CoordinatorStep == CoordinatorNext /\ UNCHANGED runnerVars

LoopStep ==
  \/ StopRequested \/ FirstTick \/ TickOrAudit
  \/ Consolidated \/ Audited \/ StrategyDone \/ EndOfTick

WindDownStep ==
  WindDown \/ (\E o \in OrderIds : CancelNext(o)) \/ AllCancelled
    \/ WindDownRequestFails

CatchStep ==
  \/ FastAuditFailed \/ WindDownRetried \/ ExceptionCaught
  \/ RecoveryFailed \/ TryToRecover \/ LoopCommitFails

StopStep == ShutDown \/ ForcedDown \/ LastCommitFails

\* Steps of the process, of the exchange, and of the outside world.
EngineStep ==
  CoordinatorStep \/ LoopStep \/ WindDownStep \/ CatchStep \/ StopStep

ExchangeStep ==
  /\ \E o \in OrderIds : Fill(o) \/ CancelTakesEffect(o)
  /\ UNCHANGED <<dbVars, coordVars, runnerVars>>

Next == EngineStep \/ ExchangeStep \/ Crash \/ Boot \/ Signal

Spec == Init /\ [][Next]_vars

\* The thread keeps running, a stopped engine is started again, and the
\* exchange gets round to the cancellations it has accepted.  Nothing makes
\* orders trade, and nothing makes the operator or a failure strike.
Fairness ==
  /\ WF_vars(EngineStep)
  /\ WF_vars(Boot)
  /\ \A o \in OrderIds :
       WF_vars(CancelTakesEffect(o) /\ UNCHANGED <<dbVars, coordVars, runnerVars>>)

FairSpec == Spec /\ Fairness
=============================================================================
