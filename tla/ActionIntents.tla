--------------------------- MODULE ActionIntents ---------------------------
(***************************************************************************)
(* One action intent from its creation to its end: the row of              *)
(* action_intents, its approval requests, the operation of an AI Operator  *)
(* task it may belong to, the events written with each transition, the     *)
(* workers that serve them, the chat session that may release an intent    *)
(* itself, and the reapers.                                                *)
(*                                                                         *)
(* Between the outbox and a worker stand a publisher and a BullMQ queue:   *)
(* module IntentOutbox.  Here an event that was written may be served at   *)
(* any later time, by several workers at once and more than once.          *)
(*                                                                         *)
(* One action is one database transaction, one call of Redis, or one call  *)
(* of the tool.  A read of something others change at will (the kill       *)
(* switch, the task's admission predicate, a feature flag, the pool of     *)
(* approvers) is a choice made at the step that reads it.                  *)
(***************************************************************************)
EXTENDS Naturals, FiniteSets

CONSTANTS
    Approvers,           \* users an approval request may be fanned out to
    Workers,             \* slots of the release worker
    Session, Trigger,    \* the chat turn that waits; the post-commit attempt
    Kinds,               \* which of IntentKinds may be created
    Modes,               \* which of CreationModes may be chosen
    Faults,              \* which of FaultKinds may happen
    MaxServes,           \* how often each event may be served: bounds
    None

IntentKinds == {"chat", "agent", "task"}  \* task: an agent's, task-linked
CreationModes == {"human", "policy", "ticket_autonomy", "script_reviewer"}
FaultKinds == {"crash", "throw", "ledger"}

ASSUME Parameters ==
    /\ Kinds \subseteq IntentKinds /\ Modes \subseteq CreationModes
    /\ Faults \subseteq FaultKinds
    /\ Session # Trigger /\ {Session, Trigger, None} \cap Workers = {}
    /\ None \notin {Session, Trigger}

Procs == Workers \cup {Session, Trigger}

Terminal == {"completed", "failed", "rejected", "cancelled", "expired"}
Statuses == Terminal \cup {"none", "pending_approval", "approved", "executing"}
\* The outbox events, without their prefix intent_.
Events == Terminal \cup {"created", "approved"}

ASSUME ServeBounds == MaxServes \in [Events -> Nat]

\* Those served by nothing but a notification.
Bells == {"rejected", "expired", "cancelled"}

VARIABLES
    intent,  \* the row of action_intents
    rows,    \* the status of each approver's approval request
    op,      \* the row of ai_operator_operations of a task-linked intent
    box,     \* the events intent_outbox has a row for
    serves,  \* how often each event has been handed to a worker
    rel,     \* the workers, the session and the trigger
    calls,   \* how often the tool has been called for this intent
    rung,    \* the classes of outcome notification the requester has
    lost,    \* the bells whose serving was cut short, or had nobody to tell
    late     \* a deferred fan-out has written on an intent already decided

vars == <<intent, rows, op, box, serves, rel, calls, rung, lost, late>>

-----------------------------------------------------------------------------
Intent == [status: Statuses, kind: IntentKinds,
           supervised: BOOLEAN,    \* a person's, in approvalScope supervised
           via: {"none", "human", "policy", "ticket_autonomy",
                 "script_reviewer"},                          \* decidedVia
           policy: {"unattempted", "authorized", "human_required"},
           windowOver: BOOLEAN,                  \* approval_expires_at passed
           lease: {"none", "live", "over"},      \* release_by
           stale: BOOLEAN]   \* executing for STALE_EXECUTING_TIMEOUT_MINUTES

Operation == [dispatch: {"none", "reserved", "dispatched", "dispatch_failed",
                         "cancelled"},
              result: {"pending", "unknown", "failed", "succeeded"},
              ref: BOOLEAN,           \* execution_ref_id is set
              stopAsked: BOOLEAN]     \* cancel_requested_at is set

Proc == [pc: {"idle", "claim", "refused", "revalidate", "precall", "pausing",
              "call", "called", "attach", "record", "finish", "again",
              "notify", "ring", "attempt", "authorize", "fanout"},
         event: Events \cup {None},
         outcome: {"none", "stopped", "threw", "error", "error_timeout",
                   "timeout", "unsuccessful", "ok"},
         saw: Statuses]

Classes == {"update", "granted", "failed", "rejected", "cancelled", "expired"}

TypeOK ==
    /\ intent \in Intent
    /\ rows \in [Approvers -> {"none", "pending", "approved", "denied",
                               "reported", "expired"}]
    /\ op \in Operation
    /\ box \subseteq Events
    /\ serves \in [Events -> Nat]
    /\ rel \in [Procs -> Proc]
    /\ calls \in Nat /\ rung \subseteq Classes
    /\ lost \subseteq Bells /\ late \in BOOLEAN

Idle == [pc |-> "idle", event |-> None, outcome |-> "none", saw |-> "none"]

Init ==
    /\ intent = [status |-> "none", kind |-> "chat", supervised |-> FALSE,
                 via |-> "none", policy |-> "human_required",
                 windowOver |-> FALSE, lease |-> "none", stale |-> FALSE]
    /\ rows = [a \in Approvers |-> "none"]
    /\ op = [dispatch |-> "none", result |-> "pending", ref |-> FALSE,
             stopAsked |-> FALSE]
    /\ box = {} /\ serves = [e \in Events |-> 0]
    /\ rel = [x \in Procs |-> Idle]
    /\ calls = 0 /\ rung = {} /\ lost = {} /\ late = FALSE

-----------------------------------------------------------------------------
(* Parts of several transactions.                                          *)

\* Only a task-linked intent has an operation row; o is its new value.
SetOp(o) == op' = IF intent.kind = "task" THEN o ELSE op

\* An outbox row of each of these events is inserted.
Publish(es) == box' = box \cup es

\* Requests still pending, other than a's, end as expired.
ExpireSiblings(except) ==
    [a \in Approvers |-> IF rows[a] = "pending" /\ a \notin except
                         THEN "expired" ELSE rows[a]]

Claimable == intent.status = "approved" /\ intent.lease = "live"

\* markOperationCancelled
OperationCancelled ==
    [op EXCEPT !.dispatch = "cancelled", !.stopAsked = TRUE]

\* markOperationDispatchFailed
DispatchFailed ==
    IF op.dispatch \in {"reserved", "dispatched"} /\ ~op.ref
    THEN SetOp([op EXCEPT !.dispatch = "dispatch_failed"]) ELSE op' = op

Rank(r) == CASE r = "pending" -> 0 [] r = "unknown" -> 1 [] OTHER -> 2

\* Mutant: the last writer wins.
RecordResultLast(r) == SetOp([op EXCEPT !.result = r])

\* recordOperationResult: a result is written only over a weaker one.
RecordResult(r) ==
    IF Rank(op.result) < Rank(r) THEN SetOp([op EXCEPT !.result = r])
                                 ELSE op' = op

\* A failed write of the operation row is logged and swallowed.
LedgerFails == "ledger" \in Faults /\ op' = op

-----------------------------------------------------------------------------
(* Creation and decisions: each is one transaction.                        *)

\* Requests for the pool; with nobody to ask the intent is cancelled and its
\* ending published, whatever its status was: the UPDATE names only the id.
FanoutStatus(pool) == IF pool = {} THEN "cancelled" ELSE intent.status
FanoutRows(pool) == [a \in Approvers |-> IF a \in pool THEN "pending"
                                                       ELSE rows[a]]

\* createActionIntent.  An agent run in act mode leaves its intent to the
\* policy; two lanes approve at once.  A lane's intent is as much the
\* policy's as any other, unless its scope forbids that, as a ticket's does.
\* A person's supervised intent is decided by that person alone; an agent's
\* has no requester, and its scope only bounds the pool and the lanes.
Create(kind, mode, pool) ==
    LET lane == mode \in {"ticket_autonomy", "script_reviewer"}
        asked == mode = "human"
    IN  \E unattempted, supervised \in BOOLEAN :
        /\ intent.status = "none"
        /\ mode \in {"policy", "ticket_autonomy"} => kind # "chat"
        /\ mode = "policy" => unattempted
        /\ unattempted =>
              kind # "chat" /\ mode \in {"policy", "script_reviewer"}
        /\ asked \/ pool = {}
        /\ supervised => kind = "chat" /\ (asked => Cardinality(pool) = 1)
        /\ kind = "chat" /\ mode = "script_reviewer" => supervised
        /\ intent' =
             [intent EXCEPT
                !.status = IF lane THEN "approved"
                           ELSE IF asked /\ pool = {} THEN "cancelled"
                           ELSE "pending_approval",
                !.kind = kind,
                !.supervised = supervised,
                !.via = IF lane THEN mode ELSE "none",
                !.policy = IF unattempted THEN "unattempted"
                                          ELSE "human_required",
                !.lease = IF lane THEN "live" ELSE "none"]
        /\ rows' = FanoutRows(pool)
        /\ op' = IF kind = "task"
                 THEN [op EXCEPT !.dispatch = IF asked /\ pool = {}
                                              THEN "cancelled" ELSE "reserved",
                                 !.stopAsked = asked /\ pool = {}]
                 ELSE op
        /\ Publish({"created"} \cup (IF lane THEN {"approved"} ELSE {})
                     \cup (IF asked /\ pool = {} THEN {"cancelled"} ELSE {}))
        /\ rel' = IF unattempted
                  THEN [rel EXCEPT ![Trigger].pc = "attempt"] ELSE rel
        /\ UNCHANGED <<serves, calls, rung, lost, late>>

\* An approval starts the release lease.
DecidedBy(verdict) ==
    [intent EXCEPT !.status = verdict, !.via = "human",
                   !.lease = IF verdict = "approved" THEN "live" ELSE "none"]

\* Mutant: the other requests stay pending.
DecideSiblings(a, verdict) ==
    LET decided == IF verdict = "approved" THEN "approved" ELSE "denied" IN
    /\ rows[a] = "pending" /\ ~intent.windowOver
    /\ IF intent.status = "pending_approval"
       THEN /\ intent' = DecidedBy(verdict)
            /\ Publish({verdict})
       ELSE UNCHANGED <<intent, box>>
    /\ rows' = [rows EXCEPT ![a] = decided]
    /\ UNCHANGED <<op, serves, rel, calls, rung, lost, late>>

\* An approver decides: the request first, then the intent if it still waits.
Decide(a, verdict) ==
    LET decided == IF verdict = "approved" THEN "approved" ELSE "denied" IN
    /\ rows[a] = "pending" /\ ~intent.windowOver
    /\ IF intent.status = "pending_approval"
       THEN /\ intent' = DecidedBy(verdict)
            /\ rows' = [ExpireSiblings({a}) EXCEPT ![a] = decided]
            /\ Publish({verdict})
       ELSE /\ rows' = [rows EXCEPT ![a] = decided]
            /\ UNCHANGED <<intent, box>>
    /\ UNCHANGED <<op, serves, rel, calls, rung, lost, late>>

\* An approver reports the request as suspicious.
Report(a) ==
    /\ rows[a] = "pending"
    /\ IF intent.status = "pending_approval"
       THEN /\ intent' = [intent EXCEPT !.status = "rejected"]
            /\ rows' = [ExpireSiblings({a}) EXCEPT ![a] = "reported"]
            /\ Publish({"rejected"})
       ELSE /\ rows' = [rows EXCEPT ![a] = "reported"]
            /\ UNCHANGED <<intent, box>>
    /\ UNCHANGED <<op, serves, rel, calls, rung, lost, late>>

\* Changes are requested on the script proposal behind the intent.
DenyForProposal ==
    /\ intent.status = "pending_approval"
    /\ intent' = [intent EXCEPT !.status = "rejected"]
    /\ rows' = ExpireSiblings({})
    /\ Publish({"rejected"})
    /\ UNCHANGED <<op, serves, rel, calls, rung, lost, late>>

\* Mutant: an intent already executing is cancelled too.
CancelIntentAny ==
    /\ intent.status \in {"pending_approval", "approved", "executing"}
    /\ intent' = [intent EXCEPT !.status = "cancelled"]
    /\ SetOp(OperationCancelled)
    /\ Publish({"cancelled"})
    /\ UNCHANGED <<rows, serves, rel, calls, rung, lost, late>>

\* cancelActionIntent, which leaves the requests pending.  A task's intent
\* already executing is only asked to stop.
CancelIntent ==
    /\ \/ /\ intent.status \in {"pending_approval", "approved"}
          /\ intent' = [intent EXCEPT !.status = "cancelled"]
          /\ SetOp(OperationCancelled)
          /\ Publish({"cancelled"})
       \/ /\ intent.status = "executing" /\ intent.kind = "task"
          /\ ~op.stopAsked
          /\ SetOp([op EXCEPT !.stopAsked = TRUE])
          /\ UNCHANGED <<intent, box>>
    /\ UNCHANGED <<rows, serves, rel, calls, rung, lost, late>>

-----------------------------------------------------------------------------
(* The clocks and the reapers.                                             *)

WindowEnds ==
    /\ intent.status # "none" /\ ~intent.windowOver
    /\ intent' = [intent EXCEPT !.windowOver = TRUE]
    /\ UNCHANGED <<rows, op, box, serves, rel, calls, rung, lost, late>>

LeaseEnds ==
    /\ intent.lease = "live"
    /\ intent' = [intent EXCEPT !.lease = "over"]
    /\ UNCHANGED <<rows, op, box, serves, rel, calls, rung, lost, late>>

ExecAges ==
    /\ intent.status = "executing" /\ ~intent.stale
    /\ intent' = [intent EXCEPT !.stale = TRUE]
    /\ UNCHANGED <<rows, op, box, serves, rel, calls, rung, lost, late>>

\* Mutant: only an undecided intent expires.
ExpireDuePending == intent.status = "pending_approval" /\ intent.windowOver

ExpireDue ==
    \/ intent.status = "pending_approval" /\ intent.windowOver
    \/ intent.status = "approved" /\ intent.lease = "over"

\* reapExpiredIntents.  The operation of a task keeps its state.
ExpireReap ==
    /\ ExpireDue
    /\ intent' = [intent EXCEPT !.status = "expired"]
    /\ rows' = ExpireSiblings({})
    /\ Publish({"expired"})
    /\ UNCHANGED <<op, serves, rel, calls, rung, lost, late>>

\* Mutant: the ending is not published.
StaleReapSilent ==
    /\ intent.status = "executing" /\ intent.stale
    /\ intent' = [intent EXCEPT !.status = "failed"]
    /\ RecordResult("unknown")
    /\ UNCHANGED <<rows, box, serves, rel, calls, rung, lost, late>>

\* reapStaleExecutingIntents: failed, execution_lost.  executed_at is only
\* ever set together with a terminal status, so executing implies it is null.
\* The operation is written in a detached transaction before the commit, which
\* may then fail.
StaleReap ==
    /\ intent.status = "executing" /\ intent.stale
    /\ RecordResult("unknown") \/ LedgerFails
    /\ \/ intent' = [intent EXCEPT !.status = "failed"] /\ Publish({"failed"})
       \/ "crash" \in Faults /\ UNCHANGED <<intent, box>>
    /\ UNCHANGED <<rows, serves, rel, calls, rung, lost, late>>

\* settleTerminalUnsettled: the operation's task has ended, and its result is
\* taken from the command that the operation refers to, or given up.  A tool's
\* result that has a reference is that command's: they do not contradict.
Reconcile ==
    /\ op.ref /\ op.result \in {"pending", "unknown"}
    /\ \E r \in {"unknown", "failed", "succeeded"} :
          /\ r = "failed" => \A x \in Procs : rel[x].outcome # "ok"
          /\ RecordResult(r)
    /\ UNCHANGED <<intent, rows, box, serves, rel, calls, rung, lost, late>>

-----------------------------------------------------------------------------
(* The release worker's queue.                                             *)

\* Mutant: a cancellation tells nobody.
EntryPointCancelled(e) ==
    CASE e \in {"rejected", "expired"} -> "notify"
      [] e = "created" /\ intent.via # "ticket_autonomy" -> "attempt"
      [] e = "approved" \/ e = "created" -> "claim"
      [] OTHER -> "idle"

\* processIntentReleaseJob: what each event is for.  Nothing serves completed
\* and failed.
EntryPoint(e) ==
    CASE e \in Bells -> "notify"
      [] e = "created" /\ intent.via # "ticket_autonomy" -> "attempt"
      [] e = "approved" \/ e = "created" -> "claim"
      [] OTHER -> "idle"

Take(w, e) ==
    /\ rel[w].pc = "idle" /\ e \in box /\ serves[e] < MaxServes[e]
    /\ serves' = [serves EXCEPT ![e] = @ + 1]
    /\ rel' = [rel EXCEPT ![w].pc = EntryPoint(e),
                          ![w].event = IF EntryPoint(e) = "idle"
                                       THEN None ELSE e]
    /\ UNCHANGED <<intent, rows, op, box, calls, rung, lost, late>>

\* The process of x dies.  Nothing of what it has written is undone.
Crash(x) ==
    /\ "crash" \in Faults /\ rel[x].pc # "idle"
    /\ rel' = [rel EXCEPT ![x] = Idle]
    /\ lost' = lost \cup ({rel[x].event} \cap Bells)
    /\ UNCHANGED <<intent, rows, op, box, serves, calls, rung, late>>

\* A database error escapes the processor; the job has one attempt.
Throw(w) ==
    /\ "throw" \in Faults
    /\ \/ rel[w].pc \in {"claim", "revalidate", "pausing", "finish",
                         "attempt", "authorize"}
       \/ /\ rel[w].pc \in {"notify", "ring"}
          /\ rel[w].event \notin {"approved", "created"}
    /\ rel' = [rel EXCEPT ![w] = Idle]
    /\ lost' = lost \cup ({rel[w].event} \cap Bells)
    /\ UNCHANGED <<intent, rows, op, box, serves, calls, rung, late>>

-----------------------------------------------------------------------------
(* The release: a worker with an approved job, or the chat turn itself.    *)

\* What follows a release: a worker tells the requester, the session's turn
\* goes on.
Leave(x) == IF x \in Workers THEN [rel[x] EXCEPT !.pc = "notify"] ELSE Idle

\* The session's poll sees the approval.
SessionWakes ==
    /\ rel[Session].pc = "idle" /\ intent.kind = "chat"
    /\ intent.status = "approved"
    /\ rel' = [rel EXCEPT ![Session].pc = "claim"]
    /\ UNCHANGED <<intent, rows, op, box, serves, calls, rung, lost, late>>

\* Mutant: the operation is left as it was.
MarkDispatchedNot == op' = op

\* markOperationDispatched, in the claim's transaction.
MarkDispatched == SetOp([op EXCEPT !.dispatch = "dispatched"])

\* Mutant: the status is read, and written without a comparison.
ClaimRead(x) ==
    /\ rel[x].pc = "claim"
    /\ IF intent.status \in {"approved", "executing"} /\ intent.lease = "live"
       THEN /\ intent' = [intent EXCEPT !.status = "executing",
                                        !.stale = FALSE]
            /\ MarkDispatched
            /\ rel' = [rel EXCEPT ![x].pc = "revalidate"]
       ELSE rel' = [rel EXCEPT ![x] = Leave(x)] /\ UNCHANGED <<intent, op>>
    /\ UNCHANGED <<rows, box, serves, calls, rung, lost, late>>

\* transitionIntent approved -> executing within the release lease; for a
\* task, claimTaskLinkedIntentForDispatch: only while the operation is
\* reserved, and only if the task admits it.
Claim(x) ==
    /\ rel[x].pc = "claim"
    /\ \/ /\ Claimable /\ (intent.kind = "task" => op.dispatch = "reserved")
          /\ intent' = [intent EXCEPT !.status = "executing", !.stale = FALSE]
          /\ MarkDispatched
          /\ rel' = [rel EXCEPT ![x].pc = "revalidate"]
       \/ /\ IF intent.kind = "task" THEN op.dispatch # "reserved"
                                     ELSE ~Claimable
          /\ rel' = [rel EXCEPT ![x] = Leave(x)] /\ UNCHANGED <<intent, op>>
       \/ \* the task does not admit it, or the intent is not claimable
          /\ intent.kind = "task" /\ op.dispatch = "reserved"
          /\ rel' = [rel EXCEPT ![x].pc = "refused"]
          /\ UNCHANGED <<intent, op>>
    /\ UNCHANGED <<rows, box, serves, calls, rung, lost, late>>

\* The refusal is recorded in a transaction of its own.
Refuse(x) ==
    /\ rel[x].pc = "refused"
    /\ DispatchFailed \/ LedgerFails
    /\ rel' = [rel EXCEPT ![x].pc = "notify"]
    /\ UNCHANGED <<intent, rows, box, serves, calls, rung, lost, late>>

\* revalidateApprovedIntentForRelease and the checks after it.  Only a worker
\* with an agent's intent meets the kill switch as a pause.
Revalidate(x) ==
    /\ rel[x].pc = "revalidate"
    /\ \/ rel' = [rel EXCEPT ![x].pc = IF x = Session \/ intent.kind = "chat"
                                      THEN "call" ELSE "precall"]
       \/ rel' = [rel EXCEPT ![x].pc = IF x = Session THEN "finish"
                                                      ELSE "record",
                             ![x].outcome = "stopped"]
       \/ /\ x # Session /\ intent.kind # "chat"
          /\ rel' = [rel EXCEPT ![x].pc = "pausing"]
    /\ UNCHANGED <<intent, rows, op, box, serves, calls, rung, lost, late>>

\* The kill switch is read once more before the call.
PreCall(x) ==
    /\ rel[x].pc = "precall"
    /\ \E pc \in {"call", "pausing"} : rel' = [rel EXCEPT ![x].pc = pc]
    /\ UNCHANGED <<intent, rows, op, box, serves, calls, rung, lost, late>>

\* pauseIntentForKillSwitch, revertTaskLinkedDispatchClaim.
Pause(x) ==
    /\ rel[x].pc = "pausing"
    /\ IF intent.status = "executing"
       THEN /\ intent' = [intent EXCEPT !.status = "approved"]
            /\ SetOp([op EXCEPT !.dispatch = "reserved"])
       ELSE UNCHANGED <<intent, op>>
    /\ rel' = [rel EXCEPT ![x].pc = "notify"]
    /\ UNCHANGED <<rows, box, serves, calls, rung, lost, late>>

\* The tool is called, or its connection is found missing before it is.
Call(x) ==
    /\ rel[x].pc = "call"
    /\ \/ /\ calls' = calls + 1
          /\ rel' = [rel EXCEPT ![x].pc = "called"]
       \/ /\ x # Session
          /\ rel' = [rel EXCEPT ![x].pc = "record", ![x].outcome = "stopped"]
          /\ UNCHANGED calls
    /\ UNCHANGED <<intent, rows, op, box, serves, rung, lost, late>>

\* The call ends: it threw (a tool timeout too), or returned an error, a
\* command still unanswered or failed, or a success; with a reference to a
\* command or not.
Return(x) ==
    /\ rel[x].pc = "called"
    /\ \E o \in {"threw", "error", "error_timeout", "timeout", "unsuccessful",
                "ok"} :
         rel' = [rel EXCEPT ![x].outcome = o,
                            ![x].pc = IF intent.kind # "task" THEN "finish"
                                      ELSE IF o = "threw" THEN "record"
                                      ELSE "attach"]
    /\ UNCHANGED <<intent, rows, op, box, serves, calls, rung, lost, late>>

\* recordOperationExecutionRef, for a result that has a reference.
AttachRef(x) ==
    /\ rel[x].pc = "attach"
    /\ SetOp([op EXCEPT !.ref = TRUE]) \/ op' = op
    /\ rel' = [rel EXCEPT ![x].pc = "record"]
    /\ UNCHANGED <<intent, rows, box, serves, calls, rung, lost, late>>

\* operationResultStateFromToolResult; a tool that threw leaves it unknown.
ResultOf(o) == CASE o = "ok" -> "succeeded"
                 [] o \in {"error", "unsuccessful"} -> "failed"
                 [] OTHER -> "unknown"

\* The operation's outcome, before the intent's.
Record(x) ==
    /\ rel[x].pc = "record"
    /\ \/ IF rel[x].outcome = "stopped"
          THEN DispatchFailed ELSE RecordResult(ResultOf(rel[x].outcome))
       \/ LedgerFails
    /\ rel' = [rel EXCEPT ![x].pc = "finish"]
    /\ UNCHANGED <<intent, rows, box, serves, calls, rung, lost, late>>

\* Mutant: the outcome is written as it came.
EndingRaw(o) == o

\* A result that is no error completes the intent, whatever it says.
Ending(o) ==
    IF o \in {"ok", "timeout", "unsuccessful"} THEN "completed" ELSE "failed"

\* terminalizeIntent, transitionIntentAndPublish.  A completion that lost the
\* race writes the operation's outcome once more.
Finish(x) ==
    LET to == Ending(rel[x].outcome) IN
    /\ rel[x].pc = "finish"
    /\ IF intent.status = "executing"
       THEN /\ intent' = [intent EXCEPT !.status = to] /\ Publish({to})
            /\ rel' = [rel EXCEPT ![x] = Leave(x)]
       ELSE /\ rel' = [rel EXCEPT ![x] =
                            IF to = "completed" /\ intent.kind = "task"
                            THEN [@ EXCEPT !.pc = "again"] ELSE Leave(x)]
            /\ UNCHANGED <<intent, box>>
    /\ UNCHANGED <<rows, op, serves, calls, rung, lost, late>>

RecordAgain(x) ==
    /\ rel[x].pc = "again"
    /\ RecordResult(ResultOf(rel[x].outcome)) \/ LedgerFails
    /\ rel' = [rel EXCEPT ![x] = Leave(x)]
    /\ UNCHANGED <<intent, rows, box, serves, calls, rung, lost, late>>

-----------------------------------------------------------------------------
(* Telling the requester, or the recipients of an agent.                   *)

\* OUTCOME_CLASS_BY_STATUS, also the dedupe key of a notification.
Class(status) ==
    CASE status \in {"approved", "executing", "completed"} -> "granted"
      [] status \in {"failed", "rejected", "cancelled", "expired"} -> status
      [] OTHER -> "update"

\* notifyRequesterOfOutcome reads the live status.  The requester of a
\* supervised intent was watching and is told nothing; an agent's run, the
\* agent or every recipient may be gone.
Notify(w) ==
    /\ rel[w].pc = "notify"
    /\ \/ /\ ~intent.supervised
          /\ rel' = [rel EXCEPT ![w].pc = "ring", ![w].saw = intent.status]
          /\ UNCHANGED lost
       \/ /\ intent.supervised \/ intent.kind # "chat"
          /\ rel' = [rel EXCEPT ![w] = Idle]
          /\ lost' = lost \cup ({rel[w].event} \cap Bells)
    /\ UNCHANGED <<intent, rows, op, box, serves, calls, rung, late>>

\* It writes a notification of that class, if there is none yet.  A failure
\* after a release is swallowed.
Ring(w) ==
    /\ rel[w].pc = "ring"
    /\ \/ rung' = rung \cup {Class(rel[w].saw)}
       \/ /\ "throw" \in Faults /\ rel[w].event \in {"approved", "created"}
          /\ UNCHANGED rung
    /\ rel' = [rel EXCEPT ![w] = Idle]
    /\ UNCHANGED <<intent, rows, op, box, serves, calls, lost, late>>

-----------------------------------------------------------------------------
(* The policy's decision: the trigger after the creation's commit, or a    *)
(* worker with a created job.                                              *)

EndAttempt(x) == rel' = [rel EXCEPT ![x] = Idle]

\* attemptPolicyDecision up to its transaction.  With the feature flag off an
\* unattempted intent goes to the approvers whatever its status is.
Attempt(x) ==
    /\ rel[x].pc = "attempt"
    /\ \/ /\ \/ intent.policy # "unattempted"
             \/ intent.status # "pending_approval"
          /\ EndAttempt(x)
       \/ /\ intent.policy = "unattempted"
          /\ rel' = [rel EXCEPT ![x].pc = "fanout"]
       \/ /\ intent.policy = "unattempted" /\ ~intent.windowOver
          /\ intent.status = "pending_approval"
          /\ rel' = [rel EXCEPT ![x].pc = "authorize"]
    /\ UNCHANGED <<intent, rows, op, box, serves, calls, rung, lost, late>>

\* runAuthorizeTransaction: a budget refuses, or the comparison wins or loses.
Authorize(x) ==
    /\ rel[x].pc = "authorize"
    /\ \/ /\ rel' = [rel EXCEPT ![x].pc = "fanout"]
          /\ UNCHANGED <<intent, box>>
       \/ /\ intent.status = "pending_approval"
          /\ intent.policy = "unattempted"
          /\ intent' = [intent EXCEPT !.status = "approved",
                                      !.policy = "authorized",
                                      !.via = "policy",
                                      !.lease = "live"]
          /\ Publish({"approved"})
          /\ EndAttempt(x)
       \/ /\ \/ intent.status # "pending_approval"
             \/ intent.policy # "unattempted"
          /\ EndAttempt(x) /\ UNCHANGED <<intent, box>>
    /\ UNCHANGED <<rows, op, serves, calls, rung, lost, late>>

\* runDeferredHumanFanout: compares the policy state, not the status.  Its
\* failure is swallowed.
Fanout(x) ==
    /\ rel[x].pc = "fanout"
    /\ \/ /\ intent.policy = "unattempted"
          /\ \E pool \in SUBSET Approvers :
              /\ intent' = [intent EXCEPT !.policy = "human_required",
                                          !.status = FanoutStatus(pool)]
              /\ rows' = FanoutRows(pool)
              /\ IF pool = {} THEN SetOp(OperationCancelled) ELSE op' = op
              /\ Publish(IF pool = {} THEN {"cancelled"} ELSE {})
              /\ late' = (intent.status # "pending_approval")
       \/ /\ intent.policy # "unattempted" \/ "throw" \in Faults
          /\ UNCHANGED <<intent, rows, op, box, late>>
    /\ EndAttempt(x)
    /\ UNCHANGED <<serves, calls, rung, lost>>

-----------------------------------------------------------------------------
Release(x) ==
    \/ Claim(x) \/ Revalidate(x) \/ Call(x) \/ Return(x) \/ Finish(x)

WorkerRelease(w) ==
    \/ Release(w) \/ Refuse(w) \/ PreCall(w) \/ Pause(w)
    \/ AttachRef(w) \/ Record(w) \/ RecordAgain(w)

Decision(x) == Attempt(x) \/ Authorize(x) \/ Fanout(x)

Worker(w) == WorkerRelease(w) \/ Decision(w) \/ Notify(w) \/ Ring(w)

Clocks == WindowEnds \/ LeaseEnds \/ ExecAges
Reapers == ExpireReap \/ StaleReap \/ Reconcile

Users ==
    \/ \E k \in Kinds, m \in Modes, pool \in SUBSET Approvers :
         Create(k, m, pool)
    \/ \E a \in Approvers : Report(a) \/ (\E v \in {"approved", "rejected"} :
                                            Decide(a, v))
    \/ DenyForProposal \/ CancelIntent

Faulty ==
    \/ \E x \in Procs : Crash(x)
    \/ \E w \in Workers : Throw(w)

Next ==
    \/ Users \/ Clocks \/ Reapers \/ SessionWakes \/ Release(Session)
    \/ Decision(Trigger) \/ Faulty
    \/ \E w \in Workers : Worker(w) \/ \E e \in Events : Take(w, e)

Spec == Init /\ [][Next]_vars

\* A repeatable job drives the reapers, the workers go on and time passes; an
\* event is served once if a worker is free (IntentOutbox says when it is not).
\* Nothing is assumed of users, of the session or the trigger, and no fault
\* has to happen.
Fairness ==
    /\ WF_vars(ExpireReap) /\ WF_vars(StaleReap)
    /\ WF_vars(WindowEnds) /\ WF_vars(LeaseEnds) /\ WF_vars(ExecAges)
    /\ \A w \in Workers : WF_vars(Worker(w))
    /\ \A e \in Events :
         WF_vars(serves[e] = 0 /\ \E w \in Workers : Take(w, e))

FairSpec == Spec /\ Fairness

-----------------------------------------------------------------------------
(* Properties.                                                             *)

\* The tool is called at most once for an intent, whatever is delivered
\* twice, stalls, crashes or is paused and released again.
CalledOnce == calls <= 1

\* An intent whose tool was called is executing, completed or failed: it is
\* never handed out as approved again, nor reported rejected, cancelled or
\* expired (but for the deferred fan-out that came late).
CallSettles ==
    calls > 0 => intent.status \in {"executing", "completed", "failed"} \/ late

\* A denial or a report that an approver was still allowed to make keeps the
\* tool from being called: no call ever coexists with a denied request.
DenialHolds ==
    calls > 0 => (\A a \in Approvers : rows[a] \notin {"denied", "reported"})
                 \/ late

\* The outbox has the event of the state an intent ended in, and of no other
\* ending: an intent ends once, and whoever ends it writes status and event in
\* one transaction (but for the deferred fan-out that came late).
EndingPublished ==
    /\ intent.status \in Terminal => intent.status \in box
    /\ \A e \in Terminal \cap box : e = intent.status \/ late

\* The operation of a task that says nothing was sent is right: while it is
\* reserved or cancelled the tool was not called.
NothingSent ==
    op.dispatch \in {"reserved", "cancelled"} => calls = 0 \/ late

\* A release that came back with a success has it on the operation row before
\* it tries to end the intent, and a reaper's unknown never replaces it.
OutcomeKept ==
    \A x \in Procs :
        (/\ intent.kind = "task" /\ rel[x].outcome = "ok"
         /\ rel[x].pc \in {"finish", "again", "notify", "ring"})
            => op.result = "succeeded"

\* Every intent that is created ends, without anyone's help.
Settles == intent.status # "none" ~> intent.status \in Terminal

\* When a four-eyes intent is rejected, cancelled or expires, its requester
\* hears of that outcome, unless the worker that was to say it died or failed;
\* so do an agent's recipients, if there are any.  Nothing is promised to the
\* requester of a supervised intent.
Told ==
    \A c \in Bells :
        intent.status = c /\ ~intent.supervised
            ~> c \in rung \cup lost \/ intent.status # c

\* The requester of a four-eyes chat intent is told nothing of its outcome
\* once the turn is over: not when it is denied, not when it expires, not when
\* the release worker fails it.
OutcomeUnobserved ==
    intent.kind = "chat" => rung \cap {"rejected", "expired", "failed"} = {}

\* A requester told that the action is granted is told when it fails after
\* all: granted -> failed is a correction that must survive the dedupe.
FailureTold ==
    ("granted" \in rung /\ intent.status = "failed") ~> "failed" \in rung

\* A deferred fan-out that finds the intent moved on writes nothing.
DecidedKept ==
    [][(intent.status # "pending_approval" /\ intent.policy = "unattempted"
        /\ intent'.policy = "human_required")
          => intent'.status = intent.status /\ rows' = rows]_vars

\* An operation whose dispatch failed is one for which nothing was sent.
FailedUnsent == op.dispatch = "dispatch_failed" => calls = 0
=============================================================================
