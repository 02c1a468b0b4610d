---------------------------- MODULE TradeBackfill ----------------------------
(***************************************************************************)
(* backfill_trades: the trades that were made before we began to record an *)
(* exchange's trades are taken from an archive and written newest first,   *)
(* with a commit every now and then.  The run may be cut short and started *)
(* again.                                                                  *)
(***************************************************************************)
EXTENDS Integers, Sequences, SequencesExt

CONSTANTS
  Ids,            \* of the exchange's trades, in the order they were made
  Seconds,        \* the times they may have
  CommitEvery,    \* 30 in the code
  MaxRuns         \* bound

ASSUME BackfillAssumption ==
  /\ Ids \subseteq 1..99 /\ Seconds \subseteq Nat
  /\ CommitEvery \in Nat \ {0} /\ MaxRuns \in Nat

VARIABLES
  archive,    \* [id, time] of the trades that were made
  recorded,   \* those of them that we recorded as they were made
  table,      \* the rows that were backfilled and committed, as they were added
  added,      \* rows of the session
  job         \* [at, todo, index, runs] of the script

backfillVars == <<archive, recorded, table, added, job>>

\* The archive, and our record of its last trades.
BackfillInit ==
  /\ archive \in {{[id |-> i, time |-> times[i]] : i \in Ids} :
                    times \in {t \in [Ids -> Seconds] :
                                 \A i, j \in Ids : i < j => t[i] <= t[j]}}
  /\ \E n \in Ids : recorded = {t \in archive : t.id >= n}
  /\ recorded # archive
  /\ table = <<>> /\ added = <<>>
  /\ job = [at |-> "idle", todo |-> {}, index |-> 0, runs |-> 0]

\* The script has nothing to do.
BackfillAtRest ==
  /\ archive = {} /\ recorded = {} /\ table = <<>> /\ added = <<>>
  /\ job = [at |-> "done", todo |-> {}, index |-> 0, runs |-> 0]

\* Ids are text.  Backfilled rows have none and come first, in any order.
TextRank(id) == IF id < 10 THEN 20 * id ELSE 2 * id + 1

FirstRows ==
  IF table # <<>> THEN ToSet(table)
  ELSE {t \in recorded : \A u \in recorded : TextRank(t.id) <= TextRank(u.id)}

StartBackfill ==
  /\ job.at = "idle" /\ job.runs < MaxRuns
  /\ \E first \in FirstRows :
       job' = [at |-> "writing", index |-> 0, runs |-> job.runs + 1,
               todo |-> {t \in archive : t.time < first.time}]
  /\ UNCHANGED <<archive, recorded, table, added>>

\* The trade that is written before the others: sorted() keeps the order of the
\* trades of one second, reversed or not.
\* A bug: the oldest first.
ComesFirst_Oldest(t, trades) ==
  \A u \in trades : t.time < u.time \/ (t.time = u.time /\ t.id <= u.id)
ComesFirst(t, trades) ==
  \A u \in trades : t.time > u.time \/ (t.time = u.time /\ t.id <= u.id)

WriteTrade(t) ==
  /\ job.at = "writing" /\ ComesFirst(t, job.todo)
  /\ job' = [job EXCEPT !.todo = @ \ {t}, !.index = @ + 1]
  /\ IF job.index % CommitEvery = 0
       THEN table' = table \o Append(added, t) /\ added' = <<>>
       ELSE added' = Append(added, t) /\ UNCHANGED table
  /\ UNCHANGED <<archive, recorded>>

EndBackfill ==
  /\ job.at = "writing" /\ job.todo = {}
  /\ table' = table \o added /\ added' = <<>>
  /\ job' = [job EXCEPT !.at = "done"]
  /\ UNCHANGED <<archive, recorded>>

CutShort ==
  /\ job.at = "writing"
  /\ added' = <<>> /\ job' = [job EXCEPT !.at = "idle"]
  /\ UNCHANGED <<archive, recorded, table>>

BackfillNext ==
  StartBackfill \/ (\E t \in job.todo : WriteTrade(t)) \/ EndBackfill \/ CutShort
=============================================================================
