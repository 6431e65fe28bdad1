----------------------------- MODULE CommandRow -----------------------------
(***************************************************************************)
(* One row of the API's device_commands table, and the conditional writes  *)
(* (UPDATE ... WHERE) that the services perform on it.  Every operator is  *)
(* the effect or the WHERE clause of one SQL statement, so the state       *)
(* machines that extend this module share a single reading of the row.     *)
(*                                                                         *)
(* The payload is abstracted to whether its secret keys are still there,   *)
(* the stored result to the marker that later WHERE clauses test:          *)
(*   timeout     server-side timeout of a delivered (or awaited) command,  *)
(*               or a timeout the agent's script executor reported         *)
(*   expired     server-side timeout, delivery clock (deliver_by passed)   *)
(*   unreceived  server-side timeout, legacy pending row never claimed     *)
(*   queue_ack   "completed" row that only records a queue admission       *)
(*   completed, failed, cancelled   a final outcome                        *)
(* The first three all store result.status = 'timeout'; they differ in     *)
(* the reason and the message an operator reads.                           *)
(***************************************************************************)
EXTENDS Integers

\* A NULL executed_at or deliver_by.  Model time starts at 1.
Null == 0

Live == {"pending", "sent"}
Terminal == {"completed", "failed", "cancelled"}
Status == {"none"} \cup Live \cup Terminal

ServerTimeout == {"timeout", "expired", "unreceived"}
Outcome == {"completed", "failed"}
Mark == {"none", "queue_ack", "cancelled"} \cup ServerTimeout \cup Outcome

Row == [status : Status, executedAt : Nat, mark : Mark,
        createdAt : Nat, deliverBy : Nat, erased : BOOLEAN]

NoRow == [status |-> "none", executedAt |-> Null, mark |-> "none",
          createdAt |-> Null, deliverBy |-> Null, erased |-> FALSE]

\* INSERT of a queued command.
NewRow(t, deadline) ==
    [NoRow EXCEPT !.status = "pending", !.createdAt = t, !.deliverBy = deadline]

\* The delivery deadline has not passed at time t (NULL never does).
DeliveryOpen(r, t) == r.deliverBy = Null \/ r.deliverBy > t

\* pending -> sent, stamping the claim.
Claimed(r, t) == [r EXCEPT !.status = "sent", !.executedAt = t]

\* Mutant: a release that no longer tests the row's state.
ReleasedUnfenced(r, stamp) == [r EXCEPT !.status = "pending", !.executedAt = Null]

\* Put a claimed but undelivered row back, only if the claim is still this one.
Released(r, stamp) ==
    IF r.status = "sent" /\ r.executedAt = stamp
    THEN [r EXCEPT !.status = "pending", !.executedAt = Null]
    ELSE r

\* Mutant: the stored result's marker written to the status column.
TerminatedSwapped(r, status, mark) ==
    [r EXCEPT !.status = mark, !.mark = mark, !.erased = TRUE]

\* Any terminal write: it also strips the payload's secret keys.
Terminated(r, status, mark) ==
    [r EXCEPT !.status = status, !.mark = mark, !.erased = TRUE]

\* Back to a fresh pending row under the same id.
Rearmed(r) ==
    IF r.status \in Live \cup {"failed", "completed"}
    THEN [r EXCEPT !.status = "pending", !.executedAt = Null, !.mark = "none"]
    ELSE r

\* Mutant: any failed row reopens, not only a server-side timeout.
AcceptsAnyFailed(r, isDiagnostic, isQueuedBackup) ==
    \/ r.status \in Live \cup {"failed"}
    \/ r.status = "completed" /\ r.mark = "queue_ack" /\ isQueuedBackup

\* The row may still take a result from the agent.
AcceptsAgentResult(r, isDiagnostic, isQueuedBackup) ==
    \/ r.status \in Live
    \/ r.status = "failed" /\ r.mark \in ServerTimeout /\ ~isDiagnostic
    \/ r.status = "completed" /\ r.mark = "queue_ack" /\ isQueuedBackup

\* Mutant: no delivery clock, a queued row with a deadline is never due.
ReapVerdictSentOnly(r, t, execTimeout) ==
    IF r.status = "sent" /\ t - r.executedAt >= execTimeout THEN "timeout"
    ELSE IF r.status = "pending" /\ r.deliverBy = Null /\ t - r.createdAt >= execTimeout
    THEN "unreceived"
    ELSE "none"

\* The reaper's verdict on a row at time t: the clock the row is on decides,
\* "none" when nothing is due.
ReapVerdict(r, t, execTimeout) ==
    IF r.status = "pending" /\ r.deliverBy # Null
    THEN IF r.deliverBy < t THEN "expired" ELSE "none"
    ELSE IF r.status = "sent" /\ r.executedAt # Null
    THEN IF t - r.executedAt >= execTimeout THEN "timeout" ELSE "none"
    ELSE IF r.status \in Live /\ t - r.createdAt >= execTimeout
    THEN "unreceived"
    ELSE "none"

\* Mutants: "still live" instead of "as observed", and no re-check at all.
ReapGuardLive(r, seen) == r.status \in Live
ReapGuardNone(r, seen) == TRUE

\* The reaper's UPDATE re-checks the state it observed, not just "still live".
ReapGuard(r, seen) ==
    /\ r.status = seen.status
    /\ seen.status = "sent" => r.executedAt = seen.executedAt
=============================================================================
