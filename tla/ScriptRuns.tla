----------------------------- MODULE ScriptRuns -----------------------------
(***************************************************************************)
(* A run of one script on a set of devices: the request that dispatches    *)
(* it, the execution row of each device, the stop an operator may ask for, *)
(* the agent that runs and kills the process, the handlers of the agent's  *)
(* results and acknowledgements, the reapers, and the counters of the      *)
(* batch the executions belong to.                                         *)
(*                                                                         *)
(* The delivery of a single command is the subject of DeviceCommands; here *)
(* a command row keeps only its status.  An execution and its script       *)
(* command share an identifier; a script_cancel command has its own.       *)
(***************************************************************************)
EXTENDS Naturals, FiniteSets

CONSTANTS
    Execs,        \* one execution per targeted device
    Cancels,      \* identifiers of the script_cancel commands: bounds their number
    None,
    Contained,    \* executions whose process tree the agent can kill as a whole
    Slow,         \* executions that may reach the script's own time limit
    Moves,        \* may a device be moved to another organisation meanwhile
    GateFaults,   \* may the secret gate's capability lookup throw
    MaxRestarts   \* bound: agent restarts per device

ASSUME IdSets ==
    /\ Contained \subseteq Execs /\ Slow \subseteq Execs
    /\ IsFiniteSet(Execs) /\ Execs \cap Cancels = {}
    /\ None \notin Execs \cup Cancels
    /\ Moves \in BOOLEAN /\ GateFaults \in BOOLEAN /\ MaxRestarts \in Nat

Cmds == Execs \cup Cancels

VARIABLES
    committed,  \* has the dispatching request committed its transaction
    exec,       \* script_executions
    cmd,        \* device_commands.status; "timedout" is failed with the
                \* timeout marker, which a late result may reopen
    leg,        \* what became of the last claim of a command
    target,     \* the execution a script_cancel command is for
    aged,       \* cancel commands delivered at least CANCEL_GRACE_MS ago
    settled,    \* cancel commands terminal for at least CANCEL_GRACE_MS
    batch,      \* script_execution_batches
    slots,      \* batch slots spent on behalf of a device
    proc,       \* the script's process on the device
    stopper,    \* the cancel command the agent has recorded against it
    waiting,    \* cancel commands whose handler waits for the process to go
    frames,     \* results and acknowledgements the agent has produced; each
                \* may arrive any number of times, in any order, or never
    handling,   \* frames whose command row is terminal, handler not yet run
    scan,       \* verdict the execution reaper has formed and not yet written
    sweep,      \* row the cancellation sweep has read and not yet written
    moving,     \* commands an organisation move has selected and not yet cancelled
    restarts

vars == <<committed, exec, cmd, leg, target, aged, settled, batch, slots, proc,
          stopper, waiting, frames, handling, scan, sweep, moving,
          restarts>>

server == <<committed, exec, cmd, target, batch, slots, handling, scan,
            sweep, moving>>
agent == <<proc, stopper, waiting, frames, restarts>>

Live == {"pending", "queued", "running"}
Final == {"completed", "failed", "timeout", "cancelled"}
Done == {"completed", "failed", "timedout", "cancelled"}

\* out: the exit code and the output of the agent's result are recorded.
Exec == [status : Live \cup Final \cup {"none", "cancelling"},
         state : {"none", "requested", "confirmed", "unconfirmed", "failed"},
         prev : Live \cup {"none"},
         by : Cancels \cup {None},
         out : BOOLEAN]

NewExec(s) == [status |-> s, state |-> "none", prev |-> "none", by |-> None,
               out |-> FALSE]

ScriptFrame == [cmd : Execs, res : {"ok", "fail", "timeout"},
                mark : Cancels \cup {None}]
AckFrame == [cmd : Cancels, res : {"terminated", "not_found", "kill_failed"},
             mark : {None}]
Sweep == [by : Cancels, prev : Live, term : BOOLEAN]

TypeOK ==
    /\ committed \in BOOLEAN
    /\ exec \in [Execs -> Exec]
    /\ cmd \in [Cmds -> Done \cup {"none", "pending", "sent"}]
    /\ leg \in [Cmds -> {"idle", "claimed", "out"}]
    /\ target \in [Cancels -> Execs \cup {None}]
    /\ aged \subseteq Cancels /\ settled \subseteq Cancels
    /\ batch \in [status : {"pending", "queued", "completed", "failed"},
                  completed : Nat, failed : Nat]
    /\ slots \in [Execs -> Nat]
    /\ proc \in [Execs -> {"none", "inbox", "running", "gone", "orphans"}]
    /\ stopper \in [Execs -> Cancels \cup {None}]
    /\ waiting \subseteq Cancels
    /\ frames \subseteq ScriptFrame \cup AckFrame
    /\ handling \subseteq ScriptFrame \cup AckFrame
    /\ scan \in [Execs -> Final \cup {"none"}]
    /\ sweep \in [Execs -> Sweep \cup {None}]
    /\ moving \in [Execs -> SUBSET Cmds]
    /\ restarts \in [Execs -> Nat]

Init ==
    /\ committed = FALSE
    /\ exec = [e \in Execs |-> NewExec("none")]
    /\ cmd = [c \in Cmds |-> "none"]
    /\ leg = [c \in Cmds |-> "idle"]
    /\ target = [k \in Cancels |-> None]
    /\ aged = {} /\ settled = {}
    /\ batch = [status |-> "pending", completed |-> 0, failed |-> 0]
    /\ slots = [e \in Execs |-> 0]
    /\ proc = [e \in Execs |-> "none"]
    /\ stopper = [e \in Execs |-> None]
    /\ waiting = {} /\ frames = {} /\ handling = {}
    /\ scan = [e \in Execs |-> "none"]
    /\ sweep = [e \in Execs |-> None]
    /\ moving = [e \in Execs |-> {}]
    /\ restarts = [e \in Execs |-> 0]

-----------------------------------------------------------------------------
(* The batch.  It exists only for a run on more than one device.           *)

Batched == Cardinality(Execs) > 1

\* One more device accounted for, without looking whether it was the last.
Counted(b, outcome) ==
    IF outcome = "completed" THEN [b EXCEPT !.completed = @ + 1]
                             ELSE [b EXCEPT !.failed = @ + 1]

\* applyBatchCounter: the same increment followed by the completion check.
ApplyBatchCounter(b, outcome) ==
    LET n == Counted(b, outcome)
    IN  IF n.completed + n.failed < Cardinality(Execs) THEN n
        ELSE [n EXCEPT !.status = IF n.failed > 0 THEN "failed" ELSE "completed"]

\* A step spends the slot of e in the batch b.
Spend(e, b) ==
    /\ batch' = IF Batched THEN b ELSE batch
    /\ slots' = IF Batched THEN [slots EXCEPT ![e] = @ + 1] ELSE slots

\* Mutant: an UPDATE without its status condition.
FinalizeAny(e, outcome) ==
    /\ exec' = [exec EXCEPT ![e].status = outcome]
    /\ Spend(e, ApplyBatchCounter(batch, outcome))

\* finalizeScriptExecutionTerminal: only the call that takes the execution
\* out of its live statuses spends the slot.
Finalize(e, outcome) ==
    IF exec[e].status \in Live
    THEN /\ exec' = [exec EXCEPT ![e].status = outcome]
         /\ Spend(e, ApplyBatchCounter(batch, outcome))
    ELSE UNCHANGED <<exec, batch, slots>>

-----------------------------------------------------------------------------
(* Dispatch.  The request runs in one transaction: its rows are invisible  *)
(* to everyone else until it commits, but the frames it sends are not.     *)

Undispatched(e) == ~committed /\ exec[e].status = "none"

\* A device refused before any row of it exists: the loop writes the failed
\* row and spends the slot.
DispatchRefused(e) ==
    /\ Undispatched(e)
    /\ exec' = [exec EXCEPT ![e] = NewExec("failed")]
    /\ Spend(e, Counted(batch, "failed"))
    /\ UNCHANGED <<committed, cmd, leg, target, aged, settled, agent, handling,
                   scan, sweep, moving>>

\* No agent connected, or the send failed and the claim was released.
DispatchQueued(e) ==
    /\ Undispatched(e)
    /\ exec' = [exec EXCEPT ![e] = NewExec("queued")]
    /\ cmd' = [cmd EXCEPT ![e] = "pending"]
    /\ UNCHANGED <<committed, leg, target, aged, settled, batch, slots, agent,
                   handling, scan, sweep, moving>>

DispatchSent(e) ==
    /\ Undispatched(e)
    /\ exec' = [exec EXCEPT ![e] = NewExec("running")]
    /\ cmd' = [cmd EXCEPT ![e] = "sent"]
    /\ leg' = [leg EXCEPT ![e] = "out"]
    /\ proc' = [proc EXCEPT ![e] = "inbox"]
    /\ UNCHANGED <<committed, target, aged, settled, batch, slots, stopper,
                   waiting, frames, restarts, handling, scan, sweep,
                   moving>>

\* The claim-time secret gate.  An incapable agent fails the command, the
\* execution and the batch slot.  A lookup that throws leaves the command sent
\* and the execution pending, and the loop spends the slot for a second row; a
\* gate that withholds without a verdict leaves the same rows and spends none.
DispatchGated(e) ==
    /\ Undispatched(e)
    /\ leg' = [leg EXCEPT ![e] = "out"]
    /\ \/ /\ exec' = [exec EXCEPT ![e] = NewExec("failed")]
          /\ cmd' = [cmd EXCEPT ![e] = "failed"]
          /\ Spend(e, Counted(batch, "failed"))
       \/ /\ GateFaults
          /\ exec' = [exec EXCEPT ![e] = NewExec("pending")]
          /\ cmd' = [cmd EXCEPT ![e] = "sent"]
          /\ \/ Spend(e, Counted(batch, "failed"))
             \/ UNCHANGED <<batch, slots>>
    /\ UNCHANGED <<committed, target, aged, settled, agent, handling, scan,
                   sweep, moving>>

Commit ==
    /\ ~committed
    /\ \A e \in Execs : exec[e].status # "none"
    /\ committed' = TRUE
    /\ batch' = [batch EXCEPT !.status = "queued"]
    /\ UNCHANGED <<exec, cmd, leg, target, aged, settled, slots, agent,
                   handling, scan, sweep, moving>>

-----------------------------------------------------------------------------
(* Delivery by heartbeat, or of a cancel by the request that queued it.    *)

Claim(c) ==
    /\ committed /\ cmd[c] = "pending"
    /\ cmd' = [cmd EXCEPT ![c] = "sent"]
    /\ leg' = [leg EXCEPT ![c] = "claimed"]
    /\ UNCHANGED <<committed, exec, target, aged, settled, batch, slots, agent,
                   handling, scan, sweep, moving>>

\* The send failed: back to pending unless the row has moved on.
Release(c) ==
    /\ leg[c] = "claimed"
    /\ IF cmd[c] = "sent"
       THEN /\ cmd' = [cmd EXCEPT ![c] = "pending"]
            /\ leg' = [leg EXCEPT ![c] = "idle"]
            /\ aged' = aged \ {c}
       ELSE /\ leg' = [leg EXCEPT ![c] = "out"]
            /\ UNCHANGED <<cmd, aged>>
    /\ UNCHANGED <<committed, exec, target, settled, batch, slots, agent,
                   handling, scan, sweep, moving>>

\* The frame was lost on the way, the server died before sending it, or the
\* gate withheld the command without a verdict.
Lose(c) ==
    /\ leg[c] = "claimed"
    /\ leg' = [leg EXCEPT ![c] = "out"]
    /\ UNCHANGED <<server, aged, settled, agent>>

\* The secret gate at a heartbeat claim: failLinkedScriptExecution counts the
\* device only if it ended the execution, and never looks at completion.
GateRefuse(e) ==
    /\ leg[e] = "claimed" /\ cmd[e] = "sent"
    /\ cmd' = [cmd EXCEPT ![e] = "failed"]
    /\ leg' = [leg EXCEPT ![e] = "out"]
    /\ IF exec[e].status \in Live
       THEN /\ exec' = [exec EXCEPT ![e].status = "failed"]
            /\ Spend(e, Counted(batch, "failed"))
       ELSE UNCHANGED <<exec, batch, slots>>
    /\ UNCHANGED <<committed, target, aged, settled, agent, handling, scan,
                   sweep, moving>>

-----------------------------------------------------------------------------
(* The agent.                                                              *)

Ack(k, outcome) == [cmd |-> k, res |-> outcome, mark |-> None]

\* What the cancels waiting on e learn once its process is gone.
Grades(e) ==
    {Ack(k, IF e \in Contained THEN "terminated" ELSE "kill_failed") :
        k \in {w \in waiting : target[w] = e}}

NotWaiting(e) == {w \in waiting : target[w] # e}

ReceiveScript(e) ==
    /\ leg[e] = "claimed"
    /\ leg' = [leg EXCEPT ![e] = "out"]
    /\ proc' = [proc EXCEPT ![e] = "inbox"]
    /\ UNCHANGED <<server, aged, settled, stopper, waiting, frames, restarts>>

\* Executor.Cancel: a running process is killed and the handler waits.  Before
\* that the answer is not_found until Execute has reserved the identifier, and
\* a refusal is left for Execute to find, unless the reservation slips in
\* between the lookup and the record; once reserved, the stop is proven.
ReceiveCancel(k) ==
    LET e == target[k]
    IN  /\ leg[k] = "claimed"
        /\ leg' = [leg EXCEPT ![k] = "out"]
        /\ \/ /\ proc[e] = "running"
              /\ stopper' = [stopper EXCEPT ![e] = k]
              /\ waiting' = waiting \cup {k}
              /\ UNCHANGED frames
           \/ /\ proc[e] = "inbox"
              /\ stopper' = [stopper EXCEPT ![e] = k]
              /\ frames' = frames \cup {Ack(k, "terminated")}
              /\ UNCHANGED waiting
           \/ /\ proc[e] # "running"
              /\ \/ stopper' = [stopper EXCEPT ![e] = k]
                 \/ proc[e] = "inbox" /\ UNCHANGED stopper
              /\ frames' = frames \cup {Ack(k, "not_found")}
              /\ UNCHANGED waiting
        /\ UNCHANGED <<server, aged, settled, proc, restarts>>

\* Execute: refuses a script cancelled before its start.
Start(e) ==
    /\ proc[e] = "inbox"
    /\ IF stopper[e] = None
       THEN proc' = [proc EXCEPT ![e] = "running"] /\ UNCHANGED frames
       ELSE /\ proc' = [proc EXCEPT ![e] = "gone"]
            /\ frames' = frames \cup {[cmd |-> e, res |-> "fail",
                                       mark |-> stopper[e]]}
    /\ UNCHANGED <<server, leg, aged, settled, stopper, waiting, restarts>>

\* The process ends: by itself, because a cancel's kill reached it, or because
\* the executor enforced the script's time limit.  An uncontained kill reaches
\* only the leader.
Exit(e) ==
    \E res \in {"ok", "fail", "timeout"} :
        /\ proc[e] = "running"
        /\ res = "timeout" => e \in Slow
        /\ \/ proc' = [proc EXCEPT ![e] = "gone"]
           \/ /\ e \notin Contained
              /\ res = "timeout" \/ (stopper[e] # None /\ res = "fail")
              /\ proc' = [proc EXCEPT ![e] = "orphans"]
        /\ frames' = frames \cup Grades(e)
                \cup {[cmd |-> e, res |-> res, mark |-> stopper[e]]}
        /\ waiting' = NotWaiting(e)
        /\ UNCHANGED <<server, leg, aged, settled, stopper, restarts>>

\* The kill errored, or the process outlives grace and backstop.
GiveUp(k) ==
    /\ k \in waiting
    /\ waiting' = waiting \ {k}
    /\ frames' = frames \cup {Ack(k, "kill_failed")}
    /\ UNCHANGED <<server, leg, aged, settled, proc, stopper, restarts>>

\* The agent forgets what it was running; the process may survive it.
Restart(e) ==
    /\ restarts[e] < MaxRestarts
    /\ proc[e] \in {"inbox", "running"}
    /\ \/ proc' = [proc EXCEPT ![e] = "gone"]
       \/ proc[e] = "running" /\ proc' = [proc EXCEPT ![e] = "orphans"]
    /\ stopper' = [stopper EXCEPT ![e] = None]
    /\ waiting' = NotWaiting(e)
    /\ restarts' = [restarts EXCEPT ![e] = @ + 1]
    /\ UNCHANGED <<server, leg, aged, settled, frames>>

-----------------------------------------------------------------------------
(* Results.  A transport first closes the command row, then, in another    *)
(* transaction, runs the handler of the command's type.                    *)

\* commandResultSchema has no field for the cancellation marker, so parsing
\* drops it.
Parsed(f) == [f EXCEPT !.mark = None]

\* A timeout the agent reports leaves the same marker as the server's own.
Ingest(f) ==
    /\ committed /\ f \in frames
    /\ cmd[f.cmd] \in {"pending", "sent", "timedout"}
    /\ cmd' = [cmd EXCEPT ![f.cmd] = CASE f.res = "fail" -> "failed"
                                            [] f.res = "timeout" -> "timedout"
                                            [] OTHER -> "completed"]
    /\ settled' = settled \ {f.cmd}
    /\ handling' = handling \cup {Parsed(f)}
    /\ UNCHANGED <<committed, exec, leg, target, aged, batch, slots, agent, scan,
                   sweep, moving>>

\* The status handleScriptResult derives from the agent's.
StatusOf(res) ==
    CASE res = "ok" -> "completed" [] res = "fail" -> "failed" [] OTHER -> "timeout"

\* Mutant: the late-result recovery also takes a cancelled execution.
ClosedByAny(x, f) ==
    IF x.status \in Live \cup {"cancelling"} \/ ~x.out
    THEN [x EXCEPT !.status = StatusOf(f.res),
                   !.state = IF x.status = "cancelling" THEN "unconfirmed" ELSE @,
                   !.out = TRUE]
    ELSE x

\* The compare-and-sets of handleScriptResult, first match wins.  No other
\* step can make an execution match an earlier one once its command is
\* closed, so the ladder is one step.
ClosedBy(x, f) ==
    LET real == [x EXCEPT !.status = StatusOf(f.res),
                          !.out = TRUE]
        late == x.status \in {"timeout", "failed"} /\ ~x.out
    IN  IF x.status = "cancelling" /\ f.mark # None /\ f.mark = x.by
        THEN [real EXCEPT !.status = "cancelled", !.state = "confirmed"]
        ELSE IF x.status = "cancelling" THEN [real EXCEPT !.state = "unconfirmed"]
        ELSE IF x.status \in Live \/ late THEN real
        ELSE IF x.status = "cancelled" THEN [x EXCEPT !.out = TRUE]
        ELSE x

\* The batch is counted by the result, not by the status written, and only
\* when this handler ended the execution.
HandleScript(f) ==
    LET e == f.cmd
    IN  /\ f \in handling /\ e \in Execs
        /\ handling' = handling \ {f}
        /\ exec' = [exec EXCEPT ![e] = ClosedBy(@, f)]
        /\ IF exec[e].status \in Live \cup {"cancelling"}
           THEN Spend(e, Counted(batch, IF f.res = "ok" THEN "completed" ELSE "failed"))
           ELSE UNCHANGED <<batch, slots>>
        /\ UNCHANGED <<committed, cmd, leg, target, aged, settled, agent, scan,
                       sweep, moving>>

\* Mutant: "not found" taken for proof that nothing runs.
AckedNotFound(x, outcome) ==
    IF outcome = "kill_failed" THEN [x EXCEPT !.status = x.prev, !.state = "failed"]
    ELSE [x EXCEPT !.status = "cancelled", !.state = "confirmed"]

\* applyScriptCancelAck: proof ends the execution, anything else puts it back.
Acked(x, outcome) ==
    CASE outcome = "terminated" -> [x EXCEPT !.status = "cancelled", !.state = "confirmed"]
      [] outcome = "kill_failed" -> [x EXCEPT !.status = x.prev, !.state = "failed"]
      [] outcome = "not_found" -> [x EXCEPT !.status = x.prev, !.state = "unconfirmed"]

\* Mutant: the acknowledgement of any cancel of the execution is applied.
HandleAckOfTarget(f) ==
    /\ f \in handling /\ f.cmd \in Cancels
    /\ handling' = handling \ {f}
    /\ exec' = [e \in Execs |->
                   IF exec[e].status = "cancelling" /\ target[f.cmd] = e
                   THEN Acked(exec[e], f.res) ELSE exec[e]]
    /\ UNCHANGED <<committed, cmd, leg, target, aged, settled, batch, slots,
                   agent, scan, sweep, moving>>

\* Only the execution that waits for this very command is touched.
HandleAck(f) ==
    /\ f \in handling /\ f.cmd \in Cancels
    /\ handling' = handling \ {f}
    /\ exec' = [e \in Execs |->
                   IF exec[e].status = "cancelling" /\ exec[e].by = f.cmd
                   THEN Acked(exec[e], f.res) ELSE exec[e]]
    /\ UNCHANGED <<committed, cmd, leg, target, aged, settled, batch, slots,
                   agent, scan, sweep, moving>>

\* The handler throws or its process dies; the transport does not retry.
DropHandler(f) ==
    /\ f \in handling
    /\ handling' = handling \ {f}
    /\ UNCHANGED <<committed, exec, cmd, leg, target, aged, settled, batch,
                   slots, agent, scan, sweep, moving>>

-----------------------------------------------------------------------------
(* cancelScriptExecution, one action per branch that writes.               *)

\* The device never received the command.
Retract(e) ==
    /\ committed /\ exec[e].status \in Live /\ cmd[e] = "pending"
    /\ cmd' = [cmd EXCEPT ![e] = "cancelled"]
    /\ exec' = [exec EXCEPT ![e].status = "cancelled", ![e].state = "confirmed",
                            ![e].prev = exec[e].status]
    /\ UNCHANGED <<committed, leg, target, aged, settled, batch, slots, agent,
                   handling, scan, sweep, moving>>

\* The command is already over: the real result closes the execution.
CancelTooLate(e) ==
    /\ committed /\ exec[e].status \in Live /\ cmd[e] \in Done
    /\ exec' = [exec EXCEPT ![e].state = "unconfirmed", ![e].prev = exec[e].status]
    /\ UNCHANGED <<committed, cmd, leg, target, aged, settled, batch, slots,
                   agent, handling, scan, sweep, moving>>

OpenCancels(e) == {k \in Cancels : target[k] = e /\ cmd[k] \in {"pending", "sent"}}

\* Ask the device, through the open cancel command if there is one.
RequestStop(e, k) ==
    /\ committed /\ exec[e].status \in Live /\ cmd[e] = "sent"
    /\ IF OpenCancels(e) # {}
       THEN k \in OpenCancels(e) /\ UNCHANGED <<cmd, target>>
       ELSE /\ target[k] = None
            /\ target' = [target EXCEPT ![k] = e]
            /\ cmd' = [cmd EXCEPT ![k] = "pending"]
    /\ exec' = [exec EXCEPT ![e].status = "cancelling", ![e].state = "requested",
                            ![e].prev = exec[e].status, ![e].by = k]
    /\ UNCHANGED <<committed, leg, aged, settled, batch, slots, agent, handling,
                   scan, sweep, moving>>

-----------------------------------------------------------------------------
(* Time, the reapers, and cancellation of queued commands.                 *)

Age(k) ==
    /\ leg[k] # "idle" /\ k \notin aged
    /\ aged' = aged \cup {k}
    /\ UNCHANGED <<server, leg, settled, agent>>

Settle(k) ==
    /\ cmd[k] \in Done /\ k \notin settled
    /\ settled' = settled \cup {k}
    /\ UNCHANGED <<server, leg, aged, agent>>

\* reapStaleDeviceCommands and propagateTimedOutDeviceCommand.
Expire(c) ==
    /\ committed /\ cmd[c] \in {"pending", "sent"}
    /\ cmd' = [cmd EXCEPT ![c] = "timedout"]
    /\ IF c \in Execs THEN Finalize(c, "failed") ELSE UNCHANGED <<exec, batch, slots>>
    /\ UNCHANGED <<committed, leg, target, aged, settled, agent, handling, scan,
                   sweep, moving>>

\* Mutant: the command's status copied as it stands.
ReapedStatusRaw(c) == IF cmd[c] \in {"none", "pending", "sent"} THEN "timeout" ELSE cmd[c]

\* What reapStaleScriptExecutions makes of an execution past its deadline.
ReapedStatus(c) ==
    CASE cmd[c] \in {"none", "pending", "sent"} -> "timeout"
      [] cmd[c] = "timedout" -> "failed"
      [] OTHER -> cmd[c]

ScanExec(e) ==
    /\ committed /\ scan[e] = "none" /\ exec[e].status \in Live
    /\ exec[e].status # "running" => cmd[e] \notin {"pending", "sent"}
    /\ scan' = [scan EXCEPT ![e] = ReapedStatus(e)]
    /\ UNCHANGED <<committed, exec, cmd, leg, target, aged, settled, batch,
                   slots, agent, handling, sweep, moving>>

FinishExec(e) ==
    /\ scan[e] # "none"
    /\ scan' = [scan EXCEPT ![e] = "none"]
    /\ Finalize(e, scan[e])
    /\ UNCHANGED <<committed, cmd, leg, target, aged, settled, agent, handling,
                   sweep, moving>>

\* Mutant: only a delivered cancel is ever given up.
GivenUpDelivered(k) == k \in aged

\* reapStaleCancellations gives up on a cancel whose command has been closed,
\* or was delivered, a grace window ago.
GivenUp(k) == k \in aged \/ (cmd[k] \in Done /\ k \in settled)

SweepRead(e) ==
    LET k == exec[e].by
    IN  /\ committed /\ sweep[e] = None /\ exec[e].status = "cancelling"
        /\ GivenUp(k)
        /\ sweep' = [sweep EXCEPT ![e] = [by |-> k, prev |-> exec[e].prev,
                                          term |-> cmd[k] \in Done]]
        /\ UNCHANGED <<committed, exec, cmd, leg, target, aged, settled, batch,
                       slots, agent, handling, scan, moving>>

SweepRevert(e) ==
    LET s == sweep[e]
    IN  /\ s # None
        /\ sweep' = [sweep EXCEPT ![e] = None]
        /\ IF exec[e].status = "cancelling"
           THEN /\ exec' = [exec EXCEPT ![e].status = s.prev, ![e].state = "unconfirmed"]
                /\ cmd' = IF ~s.term /\ cmd[s.by] \in {"pending", "sent"}
                          THEN [cmd EXCEPT ![s.by] = "timedout"] ELSE cmd
           ELSE UNCHANGED <<exec, cmd>>
        /\ UNCHANGED <<committed, leg, target, aged, settled, batch, slots,
                       agent, handling, scan, moving>>

\* Mutant: the cancellation of queued work also takes a delivered command.
CancelQueuedSent(c) ==
    /\ committed /\ cmd[c] \in {"pending", "sent"}
    /\ cmd' = [cmd EXCEPT ![c] = "cancelled"]
    /\ IF c \in Execs THEN Finalize(c, "cancelled") ELSE UNCHANGED <<exec, batch, slots>>
    /\ UNCHANGED <<committed, leg, target, aged, settled, agent, handling, scan,
                   sweep, moving>>

\* A claim finds the row ineligible, or an operator cancels a queued command:
\* only a row this statement took out of pending is propagated.
CancelQueued(c) ==
    /\ committed /\ cmd[c] = "pending"
    /\ cmd' = [cmd EXCEPT ![c] = "cancelled"]
    /\ IF c \in Execs THEN Finalize(c, "cancelled") ELSE UNCHANGED <<exec, batch, slots>>
    /\ UNCHANGED <<committed, leg, target, aged, settled, agent, handling, scan,
                   sweep, moving>>

\* Moving the device selects its pending commands, then cancels the commands
\* that are pending, then propagates to the ones it had selected.
Queued(e) == {c \in {e} \cup {k \in Cancels : target[k] = e} : cmd[c] = "pending"}

MoveSelect(e) ==
    /\ Moves /\ committed /\ moving[e] = {} /\ Queued(e) # {}
    /\ moving' = [moving EXCEPT ![e] = Queued(e)]
    /\ UNCHANGED <<committed, exec, cmd, leg, target, aged, settled, batch,
                   slots, agent, handling, scan, sweep>>

MoveCancel(e) ==
    /\ moving[e] # {}
    /\ moving' = [moving EXCEPT ![e] = {}]
    /\ cmd' = [c \in Cmds |-> IF c \in Queued(e) THEN "cancelled" ELSE cmd[c]]
    /\ IF e \in moving[e] THEN Finalize(e, "cancelled") ELSE UNCHANGED <<exec, batch, slots>>
    /\ UNCHANGED <<committed, leg, target, aged, settled, agent, handling, scan,
                   sweep>>

-----------------------------------------------------------------------------
Next ==
    \/ Commit
    \/ \E e \in Execs :
          \/ DispatchRefused(e) \/ DispatchQueued(e) \/ DispatchSent(e) \/ DispatchGated(e)
          \/ GateRefuse(e) \/ ReceiveScript(e) \/ Start(e) \/ Exit(e) \/ Restart(e)
          \/ Retract(e) \/ CancelTooLate(e) \/ \E k \in Cancels : RequestStop(e, k)
          \/ ScanExec(e) \/ FinishExec(e) \/ SweepRead(e) \/ SweepRevert(e)
          \/ MoveSelect(e) \/ MoveCancel(e)
    \/ \E c \in Cmds : Claim(c) \/ Release(c) \/ Lose(c) \/ Expire(c) \/ CancelQueued(c)
    \/ \E k \in Cancels : ReceiveCancel(k) \/ GiveUp(k) \/ Age(k) \/ Settle(k)
    \/ \E f \in frames : Ingest(f)
    \/ \E f \in handling : HandleScript(f) \/ HandleAck(f) \/ DropHandler(f)

Spec == Init /\ [][Next]_vars

\* Deadlines pass and the reaper's repeatable job keeps running; nothing is
\* asked of the devices, the operators or the handlers.
Fairness ==
    /\ \A e \in Execs : WF_vars(ScanExec(e)) /\ WF_vars(FinishExec(e))
                      /\ WF_vars(SweepRead(e)) /\ WF_vars(SweepRevert(e))
    /\ \A c \in Cmds : WF_vars(Expire(c))
    /\ \A k \in Cancels : WF_vars(Settle(k))

FairSpec == Spec /\ Fairness

-----------------------------------------------------------------------------
(* Properties.                                                             *)

\* The process of e runs, or has left something running, or can still start.
MayRun(e) ==
    \/ proc[e] \in {"running", "orphans"}
    \/ proc[e] = "inbox" /\ stopper[e] = None
    \/ proc[e] = "none" /\ (cmd[e] = "pending" \/ leg[e] = "claimed")

\* An execution is reported cancelled only when nothing of it runs on the
\* device and nothing of it will (applyScriptCancelAck, the retraction, the
\* sweeps over queued commands).
HonestCancel == committed => \A e \in Execs : exec[e].status = "cancelled" => ~MayRun(e)

\* The handlers, the reapers and the sweeps never count a device twice, so
\* the counters of a batch never exceed the devices it targets.
SlotOnce ==
    /\ \A e \in Execs : slots[e] <= 1
    /\ batch.completed + batch.failed <= Cardinality(Execs)

\* A decided execution stays decided: no closer, revert or late frame makes
\* it live again, and neither a cancelled one nor one that holds the agent's
\* output gets another status.
DecidedStays ==
    [][\A e \in Execs : exec[e].status \in Final =>
          /\ exec'[e].status \in Final
          /\ exec[e].status = "cancelled" \/ exec[e].out =>
                exec'[e].status = exec[e].status]_vars

\* A confirmed stop is the doing of the cancel the execution names: the agent
\* recorded that command against the script, or the script was retracted
\* before any device had it.
CreditedStop ==
    \A e \in Execs : exec[e].state = "confirmed" =>
        \/ proc[e] = "none"
        \/ Ack(exec[e].by, "terminated") \in frames

\* Every committed execution reaches a final status, whatever is lost,
\* restarted or never acknowledged.
Concludes ==
    \A e \in Execs : committed /\ exec[e].status # "none" ~> exec[e].status \in Final

\* A batch is closed once every device has reported and every report is
\* recorded and counted (the completion check of applyBatchCounter).
BatchCloses ==
    (/\ committed /\ Batched
     /\ \A e \in Execs : exec[e].status \in Final /\ exec[e].out
     /\ batch.completed + batch.failed >= Cardinality(Execs))
        => batch.status \in {"completed", "failed"}

\* The cancellation sweep does not take back a stop whose proof has closed
\* the cancel command and waits for its handler.
ProofNotLost ==
    [][\A e \in Execs :
          exec[e].status = "cancelling" /\ Ack(exec[e].by, "terminated") \in handling
              => exec'[e].status \notin Live]_vars

\* When the script's result, produced under the cancel the execution waits
\* for, is what ends the execution, it ends it as cancelled (the marker that
\* handleScriptResult reads).
MarkerCloses ==
    [][\A e \in Execs :
          (/\ exec[e].status = "cancelling" /\ exec'[e].out
           /\ \E f \in frames : f.cmd = e
           /\ \A f \in frames : f.cmd = e => f.mark = exec[e].by)
              => exec'[e].status = "cancelled"]_vars

=============================================================================
