-------------------------- MODULE OrderbookAuditor --------------------------
(***************************************************************************)
(* The audit of an exchange's orderbook: every 10 seconds the book is      *)
(* fetched over HTTP, 10 seconds later it is compared with the books that  *)
(* the consumer stored around that time.  Too many failures take the feed  *)
(* off the air, by a flag in Redis that the feed reads at every message.   *)
(*                                                                         *)
(* Audits overlap: one is scheduled while another waits for the database,  *)
(* and hard_fail waits for Redis before it stops the loop.                 *)
(***************************************************************************)
EXTENDS Integers, Sequences, FiniteSets, SequencesExt

CONSTANTS
  MaxSoft,        \* unsuccessful_audit_threshold
  MaxIncomplete,  \* incomplete_audit_threshold
  MaxFetches      \* bound: books fetched

ASSUME AuditorAssumption ==
  MaxSoft \in Nat /\ MaxIncomplete \in Nat /\ MaxFetches \in Nat

VARIABLES
  auditor,    \* [redis, running, fetching, seen, soft, incomplete]
  fetches,    \* books fetched so far
  due,        \* audits that are scheduled or wait for the database
  stopping,   \* hard_fail calls that wait for Redis
  flag,       \* should_continue in Redis: "none" before start has set it
  evidence    \* the verdicts in their order, and whether hard_fail could be called

auditorVars == <<auditor, fetches, due, stopping, flag, evidence>>

AuditorInit ==
  /\ auditor = [redis |-> FALSE, running |-> TRUE, fetching |-> FALSE,
                seen |-> 0, soft |-> 0, incomplete |-> 0]
  /\ fetches = 0 /\ due = 0 /\ stopping = 0
  /\ flag \in {"none", "stop"}     \* of the run before
  /\ evidence = <<>>

-----------------------------------------------------------------------------
(* audit_orderbook                                                         *)

FarOff == 4000    \* a closeness of 10, in units of acceptable_fund_value_threshold

\* One stored book, from the number of changes and the distance in value.
\* It may match and be crossed; the checks for a hard failure come last.
Compare(changes, distance, crossed) ==
  IF crossed THEN "crossed"
  ELSE IF distance > FarOff THEN "faroff"
  ELSE IF changes < 10 /\ distance < 1 THEN "match"
  ELSE "differs"

Comparisons == {Compare(changes, distance, crossed) :
                  changes \in {0, 9, 10}, distance \in {0, 1, FarOff + 1},
                  crossed \in BOOLEAN}

\* The stored books of ten seconds.
Verdict(books) ==
  IF books \cap {"crossed", "faroff"} # {} THEN "HARD"
  ELSE IF "match" \in books THEN "SUCCESSFUL"
  ELSE "SOFT"

\* A book too thin for a fundamental value is an exception: no verdict at all.
Verdicts == {Verdict(books) : books \in SUBSET Comparisons} \cup {"none"}

-----------------------------------------------------------------------------
ShouldHardFail == auditor.soft > MaxSoft \/ auditor.incomplete > MaxIncomplete

\* hard_fail as far as the wait for Redis.
HardFail == stopping' = stopping + 1

\* start: the connection to Redis is there.
Started ==
  /\ ~auditor.redis
  /\ auditor' = [auditor EXCEPT !.redis = TRUE]
  /\ flag' = "go"
  /\ UNCHANGED <<fetches, due, stopping, evidence>>

\* pre_audit gives up at once when the counters say so.
PreAuditFails ==
  /\ auditor.running /\ auditor.redis
  /\ ~auditor.fetching /\ ShouldHardFail
  /\ stopping < 2             \* bound
  /\ HardFail
  /\ UNCHANGED <<auditor, fetches, due, flag, evidence>>

\* pre_audit goes on; the loop waits for it.
Fetch ==
  /\ auditor.running /\ ~auditor.fetching /\ ~ShouldHardFail
  /\ fetches < MaxFetches /\ fetches' = fetches + 1
  /\ auditor' = [auditor EXCEPT !.fetching = TRUE]
  /\ UNCHANGED <<due, stopping, flag, evidence>>

\* The book cannot be fetched.
Incomplete ==
  /\ auditor.fetching
  /\ auditor' = [auditor EXCEPT !.fetching = FALSE, !.incomplete = @ + 1]
  /\ evidence' = Append(evidence, [verdict |-> "INCOMPLETE", heard |-> FALSE])
  /\ UNCHANGED <<fetches, due, stopping, flag>>

\* The book is fetched: one already audited is left alone.
Fetched(timestamp) ==
  /\ auditor.fetching
  /\ auditor' = [auditor EXCEPT !.fetching = FALSE, !.seen = Max({@, timestamp})]
  /\ due' = IF timestamp > auditor.seen THEN due + 1 ELSE due
  /\ UNCHANGED <<fetches, stopping, flag, evidence>>

Audited(verdict) ==
  CASE verdict = "SOFT" -> auditor' = [auditor EXCEPT !.soft = @ + 1]
    [] verdict = "SUCCESSFUL" -> auditor' = [auditor EXCEPT !.soft = 0, !.incomplete = 0]
    [] OTHER -> UNCHANGED auditor

\* A bug: the counter is looked at before it is raised.
Gives_Late(verdict) == verdict = "HARD" \/ (verdict = "SOFT" /\ ShouldHardFail)

\* Does the audit end in hard_fail?
Gives(verdict) == verdict = "HARD" \/ (verdict = "SOFT" /\ ShouldHardFail')

\* audit, when the database has answered.
AuditDone(verdict) ==
  /\ due > 0 /\ due' = due - 1
  /\ Audited(verdict)
  /\ evidence' = Append(evidence, [verdict |-> verdict, heard |-> auditor.redis])
  /\ IF Gives(verdict) /\ auditor.redis THEN HardFail ELSE UNCHANGED stopping
  /\ UNCHANGED <<fetches, flag>>

\* Redis has taken the flag: the loop is stopped, which raises an error that
\* nobody sees when it is stopped already.
Stopped ==
  /\ stopping > 0 /\ stopping' = stopping - 1
  /\ flag' = "stop"
  /\ auditor' = [auditor EXCEPT !.running = FALSE]
  /\ UNCHANGED <<fetches, due, evidence>>

AuditorNext ==
  \/ Started \/ PreAuditFails \/ Fetch \/ Incomplete \/ Stopped
  \/ \E timestamp \in {auditor.seen, auditor.seen + 1} : Fetched(timestamp)
  \/ \E verdict \in Verdicts : AuditDone(verdict)

AuditorSpec == AuditorInit /\ [][AuditorNext]_auditorVars
=============================================================================
