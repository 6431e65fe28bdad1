--------------------------- MODULE DeviceCommands ---------------------------
(***************************************************************************)
(* The life of the commands queued for one device: enqueue and push over   *)
(* the agent socket, claim by heartbeat or HTTP poll, delivery attempt and *)
(* release, the agent's result frames, the synchronous caller's deadline,  *)
(* the stale-command reaper, cancel-on-event sweeps and the re-arm of the  *)
(* idempotent desktop stop.                                                *)
(*                                                                         *)
(* Every action is one database statement or one transaction, together     *)
(* with the in-memory step of the request that issues it; whatever the     *)
(* code does across an await is a separate action.                         *)
(***************************************************************************)
EXTENDS CommandRow, FiniteSets

CONSTANTS
    Commands,       \* command ids of one device
    Power,          \* reboot, shutdown, reboot_safe_mode
    Diagnostic,     \* network_diagnostic
    QueuedBackup,   \* mssql_backup, hyperv_backup
    Rearmable,      \* desktop_stream_stop
    Sensitive,      \* a payload with secret keys
    Scripts,        \* script runs, which may report a timeout of their own
    Interactive,    \* types whose caller fails fast when the push fails
    Claimers,       \* concurrent claim transactions: heartbeat, HTTP poll
    Routes,         \* enqueue paths in use, a subset of AllRoutes
    GhostSends,     \* may a frame reach the agent although send reports failure
    ExecTimeout,    \* execution timeout, in ticks
    DeliverWithin,  \* delivery window of a queue policy, in ticks
    EnqueueUntil,   \* bound: last tick at which a command is enqueued
    ClaimUntil,     \* bound: last tick at which a command is claimed
    MaxTime,        \* bound: the clock stops here
    MaxRearms,      \* bound: re-arms per command
    MaxCopies,      \* bound: copies of a command delivered by ghost sends
    MaxTimeouts     \* bound: accepted agent-reported timeouts per command

\* dispatch: dispatchDeviceCommand; execute: executeCommand, whose caller
\* waits; queue: a row that no request pushes (offline, preferHeartbeat).
AllRoutes == {"dispatch", "execute", "queue"}

ASSUME TypeSets ==
    /\ Power \subseteq Commands
    /\ Diagnostic \subseteq Commands
    /\ QueuedBackup \subseteq Commands
    /\ Rearmable \subseteq Commands
    /\ Sensitive \subseteq Commands
    /\ Scripts \subseteq Commands
    /\ Interactive \subseteq Commands
    /\ Routes \subseteq AllRoutes
    /\ GhostSends \in BOOLEAN

\* desktop_stream_stop carries exactly {sessionId, finalizationId}.
ASSUME RearmablePlain == Rearmable \cap Sensitive = {}

ASSUME Bounds ==
    /\ ExecTimeout \in Nat /\ DeliverWithin \in Nat
    /\ EnqueueUntil \in Nat /\ ClaimUntil \in Nat
    /\ MaxTime \in Nat /\ MaxRearms \in Nat /\ MaxCopies \in Nat
    /\ MaxTimeouts \in Nat

VARIABLES
    now,        \* server clock
    row,        \* device_commands
    pc,         \* where the enqueueing request of a command is
    route,      \* the path it was enqueued on
    tx,         \* open claim transaction of a claimer: the rows it has locked
                \* and, of these, the ones it will cancel and the ones it will claim
    attempts,   \* claimed rows whose frame is not yet on the wire
    got,        \* copies of the command the agent has received
    frames,     \* result frames the agent has produced; each may arrive any
                \* number of times, in any order, or never
    accepted,   \* final results that won the terminal compare-and-set
    timeouts,   \* agent-reported timeouts that won it
    told,       \* the marker returned to the synchronous caller
    seen,       \* rows the reaper has read and not yet processed
    rearms      \* re-arms so far

vars == <<now, row, pc, route, tx, attempts, got, frames, accepted, timeouts,
          told, seen, rearms>>

PC == {"idle", "count", "claim", "sending", "waiting", "reread",
       "stopping", "done"}
Attempt == [cmd : Commands, stamp : Nat, via : {"push", "poll"}]
Frame == {"ack", "completed", "failed", "timeout"}
Observation == [status : Live, executedAt : Nat, verdict : ServerTimeout]
NotSeen == [status |-> "none"]
IdleTx == [lock |-> {}, cancel |-> {}, claim |-> {}]

TypeOK ==
    /\ now \in Nat
    /\ row \in [Commands -> Row]
    /\ pc \in [Commands -> PC]
    /\ route \in [Commands -> AllRoutes]
    /\ tx \in [Claimers -> [lock : SUBSET Commands, cancel : SUBSET Commands,
                             claim : SUBSET Commands]]
    /\ attempts \subseteq Attempt
    /\ got \in [Commands -> Nat]
    /\ frames \in [Commands -> SUBSET Frame]
    /\ accepted \in [Commands -> Nat]
    /\ timeouts \in [Commands -> Nat]
    /\ told \in [Commands -> Mark]
    /\ seen \in [Commands -> Observation \cup {NotSeen}]
    /\ rearms \in [Commands -> Nat]

Init ==
    /\ now = 1
    /\ row = [c \in Commands |-> NoRow]
    /\ pc = [c \in Commands |-> "idle"]
    /\ route = [c \in Commands |-> "queue"]
    /\ tx = [k \in Claimers |-> IdleTx]
    /\ attempts = {}
    /\ got = [c \in Commands |-> 0]
    /\ frames = [c \in Commands |-> {}]
    /\ accepted = [c \in Commands |-> 0]
    /\ timeouts = [c \in Commands |-> 0]
    /\ told = [c \in Commands |-> "none"]
    /\ seen = [c \in Commands |-> NotSeen]
    /\ rearms = [c \in Commands |-> 0]

-----------------------------------------------------------------------------
\* Rows a claim transaction holds FOR UPDATE: every other writer waits.
Locked == UNION {tx[k].lock : k \in Claimers}

InFlight == {c \in Commands : row[c].status = "sent"}

\* Two claims of one row never carry the same millisecond timestamp while the
\* first one's delivery is still outstanding.
FreshStamp(c) == \A a \in attempts : a.cmd = c => a.stamp # now

\* What a request does once its push is over: executeCommand polls for the
\* result, the others return.
AfterPush(c) == IF route[c] = "execute" THEN "waiting" ELSE "done"

\* Only a queue policy has a delivery deadline: executeCommand is always on the
\* reject policy, and ensureDesktopStreamStopped inserts its row without one.
Deadlines(c, r) ==
    IF r = "execute" \/ c \in Rearmable THEN {Null} ELSE {Null, now + DeliverWithin}

\* The row is inserted, and committed, before any transport.
Enqueue(c, r) ==
    /\ row[c].status = "none"
    /\ now <= EnqueueUntil
    /\ c \in Rearmable => r = "queue"
    /\ \E deadline \in Deadlines(c, r) : row' = [row EXCEPT ![c] = NewRow(now, deadline)]
    /\ route' = [route EXCEPT ![c] = r]
    /\ pc' = [pc EXCEPT ![c] = CASE r = "queue" -> "done"
                                 [] r = "dispatch" /\ c \in Power -> "count"
                                 [] OTHER -> "claim"]
    /\ UNCHANGED <<now, tx, attempts, got, frames, accepted, timeouts, told,
                   seen, rearms>>

\* The power-state barrier of dispatchDeviceCommand: a count, then, in a later
\* statement, the claim.
CountInFlight(c) ==
    /\ pc[c] = "count"
    /\ pc' = [pc EXCEPT ![c] = IF InFlight = {} THEN "claim" ELSE AfterPush(c)]
    /\ UNCHANGED <<now, row, route, tx, attempts, got, frames, accepted,
                   timeouts, told, seen, rearms>>

\* Mutant: the push claims its row whatever the row's status.
PushClaimAny(c) ==
    /\ pc[c] = "claim"
    /\ c \notin Locked
    /\ now <= ClaimUntil
    /\ FreshStamp(c)
    /\ row' = [row EXCEPT ![c] = Claimed(@, now)]
    /\ attempts' = attempts \cup {[cmd |-> c, stamp |-> now, via |-> "push"]}
    /\ pc' = [pc EXCEPT ![c] = "sending"]
    /\ UNCHANGED <<now, route, tx, got, frames, accepted, timeouts, told, seen,
                   rearms>>

\* claimPendingCommandForDelivery: lost claim, deadline passed, authority of a
\* diagnostic gone (the row is cancelled), or claimed.
PushClaim(c) ==
    /\ pc[c] = "claim"
    /\ c \notin Locked
    /\ \/ /\ row[c].status # "pending" \/ ~DeliveryOpen(row[c], now)
          /\ pc' = [pc EXCEPT ![c] = AfterPush(c)]
          /\ UNCHANGED <<row, attempts>>
       \/ /\ row[c].status = "pending"
          /\ c \in Diagnostic
          /\ row' = [row EXCEPT ![c] = Terminated(@, "cancelled", "cancelled")]
          /\ pc' = [pc EXCEPT ![c] = AfterPush(c)]
          /\ UNCHANGED attempts
       \/ /\ row[c].status = "pending" /\ DeliveryOpen(row[c], now)
          /\ now <= ClaimUntil
          /\ FreshStamp(c)
          /\ row' = [row EXCEPT ![c] = Claimed(@, now)]
          /\ attempts' = attempts \cup {[cmd |-> c, stamp |-> now, via |-> "push"]}
          /\ pc' = [pc EXCEPT ![c] = "sending"]
    /\ UNCHANGED <<now, route, tx, got, frames, accepted, timeouts, told, seen,
                   rearms>>

-----------------------------------------------------------------------------
\* Candidates of a claim transaction: pending, deadline open, and not locked
\* by another one (FOR UPDATE SKIP LOCKED).
Candidates == {c \in Commands \ Locked :
                  row[c].status = "pending" /\ DeliveryOpen(row[c], now)}

\* The power-state barrier of partitionClaimable over the rows that survived
\* the eligibility checks: a power row goes alone, and only when nothing is in
\* flight.
BarrierAllows(survivors, claimed) ==
    LET power == survivors \cap Power
        others == survivors \ Power
    IN  IF power = {} \/ others # {} \/ InFlight # {}
        THEN claimed = others
        ELSE \E p \in power : claimed = {p}

\* First half of claimPendingCommandsForDevice: lock the candidates and decide
\* which to cancel, hold and claim.  Which candidates are ineligible (cancelled)
\* or held back (batch limit, agent capability) is a free choice here.
ClaimSelect(k) ==
    /\ tx[k].lock = {}
    /\ now <= ClaimUntil
    /\ Candidates # {}
    /\ \E cancelled \in SUBSET Candidates :
       \E survivors \in SUBSET (Candidates \ cancelled) :
       \E claimed \in SUBSET survivors :
          /\ BarrierAllows(survivors, claimed)
          /\ tx' = [tx EXCEPT ![k] = [lock |-> Candidates, cancel |-> cancelled,
                                      claim |-> claimed]]
    /\ UNCHANGED <<now, row, pc, route, attempts, got, frames, accepted,
                   timeouts, told, seen, rearms>>

\* Second half: cancel the ineligible rows, flip the claimable ones, commit.
ClaimCommit(k) ==
    /\ tx[k].lock # {}
    /\ now <= ClaimUntil
    /\ \A c \in tx[k].claim : FreshStamp(c)
    /\ row' = [c \in Commands |->
                  IF row[c].status # "pending" THEN row[c]
                  ELSE IF c \in tx[k].cancel
                  THEN Terminated(row[c], "cancelled", "cancelled")
                  ELSE IF c \in tx[k].claim THEN Claimed(row[c], now)
                  ELSE row[c]]
    /\ attempts' = attempts \cup
          {[cmd |-> c, stamp |-> now, via |-> "poll"] :
              c \in {d \in tx[k].claim : row[d].status = "pending"}}
    /\ tx' = [tx EXCEPT ![k] = IdleTx]
    /\ UNCHANGED <<now, pc, route, got, frames, accepted, timeouts, told, seen,
                   rearms>>

\* The transaction fails or its server dies: everything rolls back.
ClaimAbort(k) ==
    /\ tx[k].lock # {}
    /\ tx' = [tx EXCEPT ![k] = IdleTx]
    /\ UNCHANGED <<now, row, pc, route, attempts, got, frames, accepted,
                   timeouts, told, seen, rearms>>

-----------------------------------------------------------------------------
\* The request behind a push attempt goes on; a poll has no request to resume.
Resume(a, next) ==
    pc' = IF a.via = "push" /\ pc[a.cmd] = "sending"
          THEN [pc EXCEPT ![a.cmd] = next] ELSE pc

\* The agent receives one more copy.
Receive(a) == got' = [got EXCEPT ![a.cmd] = @ + 1]

\* The frame is on the wire and reaches the agent.
SendOk(a) ==
    /\ attempts' = attempts \ {a}
    /\ Receive(a)
    /\ Resume(a, AfterPush(a.cmd))
    /\ UNCHANGED <<now, row, route, tx, frames, accepted, timeouts, told, seen,
                   rearms>>

\* The frame is lost after the server handed it over, the server crashes with
\* the claim in hand, the release itself fails, or the secret gate withholds
\* the command without a verdict: the row stays sent.
Strand(a) ==
    /\ attempts' = attempts \ {a}
    /\ Resume(a, AfterPush(a.cmd))
    /\ UNCHANGED <<now, row, route, tx, got, frames, accepted, timeouts, told,
                   seen, rearms>>

\* Refresh, decryption or the send failed: release the claim.  Under
\* GhostSends the frame may have reached the agent all the same.  A caller that
\* waits on an interactive type gives up here.
SendFailed(a) ==
    /\ a.cmd \notin Locked
    /\ attempts' = attempts \ {a}
    /\ row' = [row EXCEPT ![a.cmd] = Released(@, a.stamp)]
    /\ \/ UNCHANGED got
       \/ GhostSends /\ got[a.cmd] < MaxCopies /\ Receive(a)
    /\ Resume(a, IF a.cmd \in Interactive THEN "done" ELSE AfterPush(a.cmd))
    /\ UNCHANGED <<now, route, tx, frames, accepted, timeouts, told, seen,
                   rearms>>

\* The secret gate of the poll refuses an agent that cannot export the secret:
\* terminal, never released.
GateRefuse(a) ==
    /\ a.via = "poll"
    /\ a.cmd \in Sensitive
    /\ a.cmd \notin Locked
    /\ attempts' = attempts \ {a}
    /\ row' = [row EXCEPT ![a.cmd] =
                  IF @.status = "sent" THEN Terminated(@, "failed", "failed") ELSE @]
    /\ UNCHANGED <<now, pc, route, tx, got, frames, accepted, timeouts, told,
                   seen, rearms>>

-----------------------------------------------------------------------------
\* The agent answers a copy it received: one outcome per copy, which for a
\* script may be the timeout its executor enforced, and for a queued backup an
\* admission ack before it.
AgentReport(c, f) ==
    /\ got[c] > 0
    /\ f \notin frames[c]
    /\ f = "timeout" => c \in Scripts
    /\ IF f = "ack" THEN c \in QueuedBackup
       ELSE Cardinality(frames[c] \ {"ack"}) < got[c]
    /\ frames' = [frames EXCEPT ![c] = @ \cup {f}]
    /\ UNCHANGED <<now, row, pc, route, tx, attempts, got, accepted, timeouts,
                   told, seen, rearms>>

\* A frame arrives on either transport.  The lookup and the compare-and-set
\* test the same predicate, so a frame that fails either is dropped.  An ack
\* completes the row with the reopenable marker and runs no handler.  Every
\* other frame runs the terminal side effects; a timeout the agent reports is
\* stored as the row's failure with the very marker of a server-side timeout.
IngestResult(c, f) ==
    /\ f \in frames[c]
    /\ c \notin Locked
    /\ AcceptsAgentResult(row[c], c \in Diagnostic, c \in QueuedBackup)
    /\ \/ /\ f = "ack"
          /\ row' = [row EXCEPT ![c] = Terminated(@, "completed", "queue_ack")]
          /\ UNCHANGED <<accepted, timeouts>>
       \/ /\ f = "timeout"
          /\ timeouts[c] < MaxTimeouts
          /\ row' = [row EXCEPT ![c] = Terminated(@, "failed", "timeout")]
          /\ timeouts' = [timeouts EXCEPT ![c] = @ + 1]
          /\ UNCHANGED accepted
       \/ /\ f \in Outcome
          /\ row' = [row EXCEPT ![c] = Terminated(@, f, f)]
          /\ accepted' = [accepted EXCEPT ![c] = @ + 1]
          /\ UNCHANGED timeouts
    /\ UNCHANGED <<now, pc, route, tx, attempts, got, frames, told, seen,
                   rearms>>

\* waitForCommandResult sees a finished row.
WaitReturn(c) ==
    /\ pc[c] = "waiting"
    /\ row[c].status \in {"completed", "failed"}
    /\ pc' = [pc EXCEPT ![c] = "done"]
    /\ told' = [told EXCEPT ![c] = row[c].mark]
    /\ UNCHANGED <<now, row, route, tx, attempts, got, frames, accepted,
                   timeouts, seen, rearms>>

\* Mutant: the deadline only ends a wait whose row is still live.
WaitDeadlineLive(c) ==
    /\ pc[c] = "waiting"
    /\ c \notin Locked
    /\ row[c].status \in Live
    /\ row' = [row EXCEPT ![c] = Terminated(@, "failed", "timeout")]
    /\ pc' = [pc EXCEPT ![c] = "reread"]
    /\ UNCHANGED <<now, route, tx, attempts, got, frames, accepted, timeouts,
                   told, seen, rearms>>

\* Its deadline passes: terminalise a row that is still live ...
WaitDeadline(c) ==
    /\ pc[c] = "waiting"
    /\ c \notin Locked
    /\ row' = [row EXCEPT ![c] =
                  IF @.status \in Live THEN Terminated(@, "failed", "timeout") ELSE @]
    /\ pc' = [pc EXCEPT ![c] = "reread"]
    /\ UNCHANGED <<now, route, tx, attempts, got, frames, accepted, timeouts,
                   told, seen, rearms>>

\* ... and, in a second statement, return what the row says by then.
WaitReread(c) ==
    /\ pc[c] = "reread"
    /\ pc' = [pc EXCEPT ![c] = "done"]
    /\ told' = [told EXCEPT ![c] = row[c].mark]
    /\ UNCHANGED <<now, row, route, tx, attempts, got, frames, accepted,
                   timeouts, seen, rearms>>

-----------------------------------------------------------------------------
\* reapStaleDeviceCommands reads every due row in one SELECT ...
ReapScan ==
    /\ \A c \in Commands : seen[c] = NotSeen
    /\ \E c \in Commands : ReapVerdict(row[c], now, ExecTimeout) # "none"
    /\ seen' = [c \in Commands |->
                   LET v == ReapVerdict(row[c], now, ExecTimeout)
                   IN  IF v = "none" THEN NotSeen
                       ELSE [status |-> row[c].status,
                             executedAt |-> row[c].executedAt, verdict |-> v]]
    /\ UNCHANGED <<now, row, pc, route, tx, attempts, got, frames, accepted,
                   timeouts, told, rearms>>

\* ... and fails them one by one, each only if it is as it was read.
ReapRow(c) ==
    /\ seen[c] # NotSeen
    /\ c \notin Locked
    /\ row' = [row EXCEPT ![c] = IF ReapGuard(@, seen[c])
                                 THEN Terminated(@, "failed", seen[c].verdict)
                                 ELSE @]
    /\ seen' = [seen EXCEPT ![c] = NotSeen]
    /\ UNCHANGED <<now, pc, route, tx, attempts, got, frames, accepted,
                   timeouts, told, rearms>>

\* A user cancel, an org move or a decommission cancels a row that was never
\* claimed.
CancelQueued(c) ==
    /\ row[c].status = "pending"
    /\ c \notin Locked
    /\ row' = [row EXCEPT ![c] = Terminated(@, "cancelled", "cancelled")]
    /\ UNCHANGED <<now, pc, route, tx, attempts, got, frames, accepted,
                   timeouts, told, seen, rearms>>

\* Mutant: the re-arm is open to every command type.
StopCheckAnyType(c) ==
    /\ row[c].status # "none"
    /\ pc[c] \in {"claim", "sending", "done"}
    /\ row[c].mark # "completed"
    /\ rearms[c] < MaxRearms
    /\ pc' = [pc EXCEPT ![c] = "stopping"]
    /\ rearms' = [rearms EXCEPT ![c] = @ + 1]
    /\ UNCHANGED <<now, row, route, tx, attempts, got, frames, accepted,
                   timeouts, told, seen>>

\* ensureDesktopStreamStopped reads the row (a second request for the same
\* session takes over); a stop that is already confirmed ends here.
StopCheck(c) ==
    /\ c \in Rearmable
    /\ row[c].status # "none"
    /\ pc[c] \in {"claim", "sending", "done"}
    /\ row[c].mark # "completed"
    /\ rearms[c] < MaxRearms
    /\ pc' = [pc EXCEPT ![c] = "stopping"]
    /\ rearms' = [rearms EXCEPT ![c] = @ + 1]
    /\ UNCHANGED <<now, row, route, tx, attempts, got, frames, accepted,
                   timeouts, told, seen>>

\* rearmIdempotentCommandForDelivery, in a later transaction: reset the row
\* and push it again if the agent's socket is there.
Rearm(c) ==
    /\ pc[c] = "stopping"
    /\ c \notin Locked
    /\ row' = [row EXCEPT ![c] = Rearmed(@)]
    /\ \E next \in {"claim", "done"} : pc' = [pc EXCEPT ![c] = next]
    /\ UNCHANGED <<now, route, tx, attempts, got, frames, accepted, timeouts,
                   told, seen, rearms>>

Tick ==
    /\ now < MaxTime
    /\ now' = now + 1
    /\ UNCHANGED <<row, pc, route, tx, attempts, got, frames, accepted,
                   timeouts, told, seen, rearms>>

-----------------------------------------------------------------------------
Request(c) ==
    \/ \E r \in Routes : Enqueue(c, r)
    \/ CountInFlight(c)
    \/ PushClaim(c)
    \/ WaitReturn(c)
    \/ WaitDeadline(c)
    \/ WaitReread(c)
    \/ StopCheck(c)
    \/ Rearm(c)

Poll(k) == ClaimSelect(k) \/ ClaimCommit(k) \/ ClaimAbort(k)

Deliver(a) == SendOk(a) \/ Strand(a) \/ SendFailed(a) \/ GateRefuse(a)

Agent(c) == \E f \in Frame : AgentReport(c, f) \/ IngestResult(c, f)

Next ==
    \/ \E c \in Commands : Request(c) \/ Agent(c) \/ ReapRow(c) \/ CancelQueued(c)
    \/ \E k \in Claimers : Poll(k)
    \/ \E a \in attempts : Deliver(a)
    \/ ReapScan
    \/ Tick

Spec == Init /\ [][Next]_vars

\* What the deployment's schedulers guarantee: the clock runs, a claim
\* transaction ends, the repeatable reaper job (every two minutes) runs and
\* gets through its rows, and a waiting request polls until its deadline.
Fairness ==
    /\ WF_vars(Tick)
    /\ WF_vars(ReapScan)
    /\ \A k \in Claimers : WF_vars(ClaimCommit(k) \/ ClaimAbort(k))
    /\ \A c \in Commands : WF_vars(ReapRow(c))
    /\ \A c \in Commands : WF_vars(WaitDeadline(c)) /\ WF_vars(WaitReread(c))

FairSpec == Spec /\ Fairness

-----------------------------------------------------------------------------
(***************************************************************************)
(* Safety.  The re-armable desktop stop is redelivered by design, so the   *)
(* once-only properties are about every other command.                     *)
(***************************************************************************)

\* A frame handed to the agent is never handed over again: the claim's
\* compare-and-set on pending, and the release fenced on the claim's own
\* timestamp, let at most one attempt of a row reach the agent, as long as a
\* send that reports failure really failed.
AtMostOnceDelivery ==
    ~GhostSends => \A c \in Commands \ Rearmable : got[c] <= 1

\* However often, late or reordered result frames arrive, on either transport
\* and around timeouts of either side, at most one final result (completed or
\* failed) of a command wins the compare-and-set and runs its handler, and
\* that result is the one the row keeps.
ResultOnce ==
    \A c \in Commands \ Rearmable :
        /\ accepted[c] <= 1
        /\ accepted[c] = 1 => row[c].status \in Outcome /\ row[c].mark \in Outcome

\* "command was never delivered" and "agent never received the command", the
\* two messages the reaper writes, are true: no copy reached the agent and
\* none is on its way.
NeverReceived ==
    ~GhostSends =>
        \A c \in Commands \ Rearmable :
            row[c].mark \in {"expired", "unreceived"} =>
                got[c] = 0 /\ \A a \in attempts : a.cmd # c

\* A row whose secrets were stripped by a terminal write never becomes
\* deliverable again, so no agent runs a command without its secrets.
ErasedNotDeliverable ==
    \A c \in Sensitive : row[c].status \in Live => ~row[c].erased

\* A final result that executeCommand returned to its caller is what the row
\* says from then on; only a timeout or a queue ack may still be overwritten.
AnswerStands ==
    \A c \in Commands : told[c] \in Outcome => row[c].mark = told[c]

\* A reboot or shutdown is claimed alone: the step that claims one finds
\* nothing in flight on the device and claims nothing else.
PowerClaimedAlone ==
    [][\A p \in Power :
          row[p].status = "pending" /\ row'[p].status = "sent" =>
              InFlight = {} /\ \A c \in Commands : row'[c].status = "sent" => c = p]_vars

\* The terminal side effects of a result (automation closure, audit event,
\* handler) run at most once for every copy the agent ran: a duplicate of an
\* accepted frame finds no row.
HandledOnce ==
    \A c \in Commands \ Rearmable : accepted[c] + timeouts[c] <= got[c]

-----------------------------------------------------------------------------
\* The refinement mapping.  A terminal row that may still take an agent result
\* is only provisionally finished.
PhaseOf(c) ==
    CASE row[c].status = "none" -> "absent"
      [] row[c].status = "pending" -> "waiting"
      [] row[c].status = "sent" -> "inflight"
      [] OTHER -> IF AcceptsAgentResult(row[c], c \in Diagnostic, c \in QueuedBackup)
                  THEN "provisional" ELSE "settled"

OutcomeOf(c) == IF PhaseOf(c) = "settled" THEN row[c].mark ELSE "none"

Promise == INSTANCE CommandPromise WITH
    Command <- Commands,
    Repeatable <- Rearmable,
    Final <- Mark \ {"none", "queue_ack"},
    phase <- [c \in Commands |-> PhaseOf(c)],
    outcome <- [c \in Commands |-> OutcomeOf(c)]

\* The queue implements CommandPromise: only a provisional outcome is ever
\* replaced, by one real result, and a settled command never changes again.
KeepsPromise == Promise!Spec

-----------------------------------------------------------------------------
\* No command stays pending or sent for ever: whatever is lost or crashes, the
\* reaper's two clocks finish it.
Settles ==
    \A c \in Commands : row[c].status \in Live ~> row[c].status \in Terminal

\* A caller that waits gets an answer, also when its row is cancelled under it.
CallerAnswered ==
    \A c \in Commands : pc[c] = "waiting" ~> pc[c] = "done"
=============================================================================
