-------------------------- MODULE ScriptRunsProofs --------------------------
(***************************************************************************)
(* Script runs on any finite set of devices, with any number of cancel     *)
(* commands and restarts: they are well typed, a decided execution stays   *)
(* decided, a stop is confirmed only to the cancel that achieved it, an    *)
(* execution is reported cancelled only when nothing of it runs or will,   *)
(* and no device is counted twice in its batch.                            *)
(***************************************************************************)
EXTENDS ScriptRuns, FiniteSetTheorems, TLAPS

-----------------------------------------------------------------------------
(* The inductive invariant, in layers: each rests on the ones before it.   *)

\* An execution that is being stopped names the cancel command it waits for,
\* which is for this execution, and the status to go back to.
StoppingOK(e) ==
    exec[e].status = "cancelling" =>
        exec[e].by \in Cancels /\ target[exec[e].by] = e /\ exec[e].prev \in Live

\* A script command that is queued, was taken back from the queue, or never
\* existed is with no claim and no device; only a claim that is over can have
\* reached the device.
DeliveryOK(e) ==
    /\ exec[e].status = "none" => cmd[e] = "none"
    /\ cmd[e] \in {"none", "pending", "cancelled"} => leg[e] = "idle"
    /\ leg[e] # "out" => proc[e] = "none"

\* A cancel command without a target does not exist yet.
CancelOK(k) ==
    target[k] = None => cmd[k] = "none" /\ leg[k] = "idle" /\ k \notin waiting

\* The reaper copies `cancelled` only from a command that was cancelled.
ScanOK(e) == scan[e] = "cancelled" => cmd[e] = "cancelled"

\* The process of e is gone, or is refused as soon as Execute looks at it.
Stopped(e) == proc[e] = "gone" \/ (proc[e] = "inbox" /\ stopper[e] # None)

\* A stop the agent has proven is a stop of the cancel's target.
ProvenOK(k) == Ack(k, "terminated") \in frames => target[k] \in Execs /\ Stopped(target[k])

\* An acknowledgement in a handler's hands is one the agent has sent.
HandlingOK(f) == f.cmd \in Cancels => f \in frames

\* A confirmed stop was proven, or its command was taken back from the queue.
ConfirmedOK(e) ==
    exec[e].state = "confirmed" =>
        cmd[e] = "cancelled" \/ Ack(exec[e].by, "terminated") \in frames

\* So is a cancelled execution, unless a device is moved meanwhile.
CancelledOK(e) ==
    ~Moves => /\ moving[e] = {}
              /\ exec[e].status = "cancelled" => cmd[e] = "cancelled" \/ Stopped(e)

StopInv ==
    /\ \A e \in Execs : /\ DeliveryOK(e) /\ ScanOK(e)
                        /\ ConfirmedOK(e) /\ CancelledOK(e)
    /\ \A k \in Cancels : CancelOK(k) /\ ProvenOK(k)
    /\ \A f \in handling : HandlingOK(f)

\* The devices whose slot is spent.
Spent == {e \in Execs : slots[e] = 1}

\* A slot is spent by what ends the execution, and the counters are the
\* number of slots spent.
SlotInv ==
    /\ \A e \in Execs : slots[e] = 0 \/ (slots[e] = 1 /\ exec[e].status \in Final)
    /\ batch.completed + batch.failed = Cardinality(Spent)

\* What waits for its handler has lost its marker.
Unmarked == \A f \in handling : f.mark = None

TypeInv == TypeOK /\ Unmarked /\ \A e \in Execs : StoppingOK(e)

-----------------------------------------------------------------------------
(* Lemmas about the operators.                                             *)

Batch == [status : {"pending", "queued", "completed", "failed"},
          completed : Nat, failed : Nat]

\* A counted batch is a batch, with one more device in one of its counters.
LEMMA CountedBatch ==
    ASSUME NEW b \in Batch, NEW outcome
    PROVE  /\ Counted(b, outcome) \in Batch
           /\ Counted(b, outcome).completed + Counted(b, outcome).failed
                 = b.completed + b.failed + 1
<1>1. CASE outcome = "completed"
  BY <1>1 DEF Counted, Batch
<1>2. CASE outcome # "completed"
  BY <1>2 DEF Counted, Batch
<1> QED BY <1>1, <1>2

\* So is one whose completion was checked.
LEMMA AppliedBatch ==
    ASSUME NEW b \in Batch, NEW outcome
    PROVE  /\ ApplyBatchCounter(b, outcome) \in Batch
           /\ ApplyBatchCounter(b, outcome).completed
                 + ApplyBatchCounter(b, outcome).failed
                 = b.completed + b.failed + 1
<1> DEFINE n == Counted(b, outcome)
<1>1. n \in Batch /\ n.completed + n.failed = b.completed + b.failed + 1
  BY CountedBatch
<1> HIDE DEF n
<1>2. \A s \in {"failed", "completed"} :
         /\ [n EXCEPT !.status = s] \in Batch
         /\ [n EXCEPT !.status = s].completed = n.completed
         /\ [n EXCEPT !.status = s].failed = n.failed
  BY <1>1 DEF Batch
<1>3. \/ ApplyBatchCounter(b, outcome) = n
      \/ \E s \in {"failed", "completed"} :
            ApplyBatchCounter(b, outcome) = [n EXCEPT !.status = s]
  BY DEF ApplyBatchCounter, n
<1> QED BY <1>1, <1>2, <1>3

\* What spending a slot does to the batch.
SpendMove(e) ==
    /\ batch' \in Batch
    /\ slots' = [slots EXCEPT ![e] = @ + 1]
    /\ batch'.completed + batch'.failed = batch.completed + batch.failed + 1

LEMMA SpendMoves ==
    ASSUME TypeOK, NEW e \in Execs, NEW b \in Batch, Spend(e, b),
           b.completed + b.failed = batch.completed + batch.failed + 1
    PROVE  SpendMove(e) \/ UNCHANGED <<batch, slots>>
BY DEF Spend, SpendMove

\* The fields of a new execution row.
LEMMA NewExecFields ==
    ASSUME NEW s \in Live \cup Final
    PROVE  NewExec(s) \in Exec /\ NewExec(s).status = s /\ NewExec(s).state = "none"
BY DEF NewExec, Exec

\* What a script's result makes of an execution: without a marker it never
\* cancels, it ends what was live, and it keeps what was decided.
LEMMA ClosedByFields ==
    ASSUME NEW x \in Exec, NEW f \in ScriptFrame, f.mark = None
    PROVE  /\ ClosedBy(x, f) \in Exec
           /\ ClosedBy(x, f).status = "cancelled" => x.status = "cancelled"
           /\ ClosedBy(x, f).state = "confirmed" => x.state = "confirmed"
           /\ ClosedBy(x, f).by = x.by
           /\ x.status \in Live \cup {"cancelling"} => ClosedBy(x, f).status \in Final
           /\ x.status \in Final => ClosedBy(x, f).status \in Final
           /\ x.status = "cancelled" \/ (x.status \in Final /\ x.out) =>
                 ClosedBy(x, f).status = x.status
           /\ x.status = "none" => ClosedBy(x, f) = x
<1> DEFINE real == [x EXCEPT !.status = StatusOf(f.res), !.out = TRUE]
<1>1. StatusOf(f.res) \in {"completed", "failed", "timeout"}
  BY DEF StatusOf
<1>2. PICK s \in {"completed", "failed", "timeout"} : StatusOf(f.res) = s
  BY <1>1
<1>3. \/ ClosedBy(x, f) = x /\ x.status \notin Live \cup {"cancelling"}
      \/ x.status = "cancelled" /\ ClosedBy(x, f) = [x EXCEPT !.out = TRUE]
      \/ /\ x.status \in Live \/ (x.status \in {"timeout", "failed"} /\ ~x.out)
         /\ ClosedBy(x, f) = real
      \/ x.status = "cancelling" /\ ClosedBy(x, f) = [real EXCEPT !.state = "unconfirmed"]
  BY DEF ClosedBy, Live
<1>4. /\ real \in Exec /\ real.status = s /\ real.state = x.state /\ real.by = x.by
      /\ [real EXCEPT !.state = "unconfirmed"] \in Exec
      /\ [real EXCEPT !.state = "unconfirmed"].status = s
      /\ [real EXCEPT !.state = "unconfirmed"].state = "unconfirmed"
      /\ [real EXCEPT !.state = "unconfirmed"].by = x.by
  BY <1>2 DEF Exec, Final
<1>5. /\ [x EXCEPT !.out = TRUE] \in Exec /\ [x EXCEPT !.out = TRUE].status = x.status
      /\ [x EXCEPT !.out = TRUE].state = x.state /\ [x EXCEPT !.out = TRUE].by = x.by
  BY DEF Exec
<1> HIDE DEF real
<1>6. CASE ClosedBy(x, f) = x /\ x.status \notin Live \cup {"cancelling"}
  BY <1>6
<1>7. CASE x.status = "cancelled" /\ ClosedBy(x, f) = [x EXCEPT !.out = TRUE]
  BY <1>5, <1>7 DEF Live, Final
<1>8. CASE /\ x.status \in Live \/ (x.status \in {"timeout", "failed"} /\ ~x.out)
           /\ ClosedBy(x, f) = real
  BY <1>4, <1>8 DEF Live, Final
<1>9. CASE x.status = "cancelling" /\ ClosedBy(x, f) = [real EXCEPT !.state = "unconfirmed"]
  BY <1>4, <1>9 DEF Live, Final
<1> QED BY <1>3, <1>6, <1>7, <1>8, <1>9

\* What an acknowledgement makes of an execution that is being stopped.
LEMMA AckedFields ==
    ASSUME NEW x \in Exec, x.prev \in Live,
           NEW outcome \in {"terminated", "not_found", "kill_failed"}
    PROVE  /\ Acked(x, outcome) \in Exec
           /\ Acked(x, outcome).by = x.by
           /\ \/ outcome = "terminated" /\ Acked(x, outcome).status = "cancelled"
              \/ /\ Acked(x, outcome).status \in Live
                 /\ Acked(x, outcome).state # "confirmed"
<1>1. CASE outcome = "terminated"
  BY <1>1 DEF Acked, Exec, Final
<1>2. CASE outcome = "kill_failed"
  BY <1>2 DEF Acked, Exec
<1>3. CASE outcome = "not_found"
  BY <1>3 DEF Acked, Exec
<1> QED BY <1>1, <1>2, <1>3

-----------------------------------------------------------------------------
(* What a step may do to an execution.                                     *)

\* Every way an execution row changes, with what it says of its command.
ExecMove(e) ==
    \/ exec'[e] = exec[e]
    \/ /\ ~committed /\ exec[e].status = "none"
       /\ \E s \in {"failed", "queued", "running", "pending"} : exec'[e] = NewExec(s)
    \/ /\ exec[e].status \in Live
       /\ \E s \in Final : /\ exec'[e] = [exec[e] EXCEPT !.status = s]
                           /\ s = "cancelled" => \/ cmd'[e] = "cancelled"
                                                 \/ moving[e] # {} \/ scan[e] = s
    \/ /\ exec[e].status \in Live /\ cmd'[e] = "cancelled"
       /\ exec'[e] = [exec[e] EXCEPT !.status = "cancelled", !.state = "confirmed",
                                     !.prev = exec[e].status]
    \/ /\ exec[e].status \in Live
       /\ exec'[e] = [exec[e] EXCEPT !.state = "unconfirmed", !.prev = exec[e].status]
    \/ /\ exec[e].status \in Live
       /\ \E k \in Cancels : /\ target'[k] = e
                             /\ exec'[e] = [exec[e] EXCEPT !.status = "cancelling",
                                               !.state = "requested",
                                               !.prev = exec[e].status, !.by = k]
    \/ \E f \in handling : /\ f \in ScriptFrame /\ f.cmd = e
                           /\ exec'[e] = ClosedBy(exec[e], f)
    \/ /\ exec[e].status = "cancelling"
       /\ \E f \in handling : /\ f \in AckFrame /\ exec[e].by = f.cmd
                              /\ exec'[e] = Acked(exec[e], f.res)
    \/ /\ exec[e].status = "cancelling"
       /\ \E s \in Live : exec'[e] = [exec[e] EXCEPT !.status = s, !.state = "unconfirmed"]

ExecFun == exec' = [e \in Execs |-> exec'[e]]

\* A write of one row is a write of that row only.
LEMMA OneExec ==
    ASSUME TypeOK, NEW d \in Execs, NEW v, exec' = [exec EXCEPT ![d] = v]
    PROVE  ExecFun /\ exec'[d] = v /\ \A e \in Execs \ {d} : exec'[e] = exec[e]
BY DEF TypeOK, ExecFun

\* A live execution is ended, or nothing happens to it.
Ended(d, outcome) ==
    \/ UNCHANGED exec
    \/ /\ exec[d].status \in Live
       /\ exec' = [exec EXCEPT ![d] = [exec[d] EXCEPT !.status = outcome]]

\* finalizeScriptExecutionTerminal does no more.
LEMMA FinalizeEnds ==
    ASSUME TypeOK, NEW d \in Execs, NEW outcome, Finalize(d, outcome)
    PROVE  Ended(d, outcome)
BY DEF Finalize, Ended, TypeOK

\* A frame in a handler's hands is a script's or a cancel's by its command.
LEMMA FrameKinds ==
    ASSUME TypeOK, NEW f \in handling \cup frames
    PROVE  /\ f.cmd \in Execs => f \in ScriptFrame
           /\ f.cmd \in Cancels => f \in AckFrame
BY IdSets DEF TypeOK, ScriptFrame, AckFrame

\* The steps of the dispatching request.
LEMMA DispatchMoves ==
    ASSUME TypeOK, NEW d \in Execs,
           DispatchRefused(d) \/ DispatchQueued(d) \/ DispatchSent(d) \/ DispatchGated(d)
    PROVE  ExecFun /\ \A e \in Execs : ExecMove(e)
<1>1. /\ ~committed /\ exec[d].status = "none"
      /\ \E s \in {"failed", "queued", "running", "pending"} :
            exec' = [exec EXCEPT ![d] = NewExec(s)]
  BY DEF DispatchRefused, DispatchQueued, DispatchSent, DispatchGated, Undispatched
<1>2. PICK s \in {"failed", "queued", "running", "pending"} :
         exec' = [exec EXCEPT ![d] = NewExec(s)]
  BY <1>1
<1>3. ExecFun /\ exec'[d] = NewExec(s) /\ \A e \in Execs \ {d} : exec'[e] = exec[e]
  BY <1>2, OneExec
<1> QED BY <1>1, <1>3 DEF ExecMove

\* The steps that end an execution through its command.
LEMMA EndMoves ==
    ASSUME TypeOK, NEW d \in Execs,
           GateRefuse(d) \/ Expire(d) \/ CancelQueued(d) \/ FinishExec(d) \/ MoveCancel(d)
    PROVE  ExecFun /\ \A e \in Execs : ExecMove(e)
<1>0. scan[d] \in Final \cup {"none"} /\ d \in Cmds
  BY DEF TypeOK, Cmds
<1>1. PICK outcome \in Final :
         /\ Ended(d, outcome)
         /\ outcome = "cancelled" => \/ cmd'[d] = "cancelled"
                                     \/ moving[d] # {} \/ scan[d] = outcome
  <2>1. CASE GateRefuse(d)
    <3>1. Ended(d, "failed")
      BY <2>1 DEF GateRefuse, Ended, TypeOK
    <3> QED BY <3>1 DEF Final
  <2>2. CASE Expire(d)
    <3>1. Ended(d, "failed")
      BY <2>2, FinalizeEnds DEF Expire
    <3> QED BY <3>1 DEF Final
  <2>3. CASE CancelQueued(d)
    <3>1. cmd'[d] = "cancelled" /\ Ended(d, "cancelled")
      BY <1>0, <2>3, FinalizeEnds DEF CancelQueued, TypeOK
    <3> QED BY <3>1 DEF Final
  <2>4. CASE FinishExec(d)
    <3>1. scan[d] \in Final /\ Ended(d, scan[d])
      BY <1>0, <2>4, FinalizeEnds DEF FinishExec
    <3> QED BY <3>1
  <2>5. CASE MoveCancel(d)
    <3>1. moving[d] # {} /\ Ended(d, "cancelled")
      <4>1. CASE d \in moving[d]
        BY <2>5, <4>1, FinalizeEnds DEF MoveCancel
      <4>2. CASE d \notin moving[d]
        BY <2>5, <4>2 DEF MoveCancel, Ended
      <4> QED BY <4>1, <4>2
    <3> QED BY <3>1 DEF Final
  <2> QED BY <2>1, <2>2, <2>3, <2>4, <2>5
<1>2. CASE UNCHANGED exec
  BY <1>2 DEF TypeOK, ExecFun, ExecMove
<1>3. CASE /\ exec[d].status \in Live
           /\ exec' = [exec EXCEPT ![d] = [exec[d] EXCEPT !.status = outcome]]
  <2> DEFINE v == [exec[d] EXCEPT !.status = outcome]
  <2>1. ExecFun /\ exec'[d] = v /\ \A e \in Execs \ {d} : exec'[e] = exec[e]
    BY <1>3, OneExec
  <2> QED BY <1>1, <1>3, <2>1 DEF ExecMove
<1> QED BY <1>1, <1>2, <1>3 DEF Ended

\* The operator's stop, in its three outcomes, and what takes it back.
LEMMA StopMoves ==
    ASSUME TypeOK, NEW d \in Execs,
           \/ Retract(d) \/ CancelTooLate(d) \/ SweepRevert(d)
           \/ \E k \in Cancels : RequestStop(d, k)
    PROVE  ExecFun /\ \A e \in Execs : ExecMove(e)
<1>0. d \in Cmds
  BY DEF Cmds
<1>1. CASE Retract(d)
  <2> DEFINE v == [exec[d] EXCEPT !.status = "cancelled", !.state = "confirmed",
                                  !.prev = exec[d].status]
  <2>1. exec' = [exec EXCEPT ![d] = v] /\ exec[d].status \in Live /\ cmd'[d] = "cancelled"
    BY <1>0, <1>1 DEF Retract, TypeOK
  <2>2. ExecFun /\ exec'[d] = v /\ \A e \in Execs \ {d} : exec'[e] = exec[e]
    BY <2>1, OneExec
  <2> QED BY <2>1, <2>2 DEF ExecMove
<1>2. CASE CancelTooLate(d)
  <2> DEFINE v == [exec[d] EXCEPT !.state = "unconfirmed", !.prev = exec[d].status]
  <2>1. exec' = [exec EXCEPT ![d] = v] /\ exec[d].status \in Live
    BY <1>2 DEF CancelTooLate, TypeOK
  <2>2. ExecFun /\ exec'[d] = v /\ \A e \in Execs \ {d} : exec'[e] = exec[e]
    BY <2>1, OneExec
  <2> QED BY <2>1, <2>2 DEF ExecMove
<1>3. ASSUME NEW k \in Cancels, RequestStop(d, k)
      PROVE  ExecFun /\ \A e \in Execs : ExecMove(e)
  <2> DEFINE v == [exec[d] EXCEPT !.status = "cancelling", !.state = "requested",
                                  !.prev = exec[d].status, !.by = k]
  <2>1. exec' = [exec EXCEPT ![d] = v] /\ exec[d].status \in Live
    <3>1. exec' = [exec EXCEPT ![d].status = "cancelling", ![d].state = "requested",
                               ![d].prev = exec[d].status, ![d].by = k]
      BY <1>3 DEF RequestStop
    <3>2. exec[d].status \in Live /\ exec \in [Execs -> Exec]
      BY <1>3 DEF RequestStop, TypeOK
    <3> QED BY <3>1, <3>2
  <2>2. target'[k] = d
    <3>1. \/ k \in OpenCancels(d) /\ UNCHANGED target
          \/ target' = [target EXCEPT ![k] = d]
      BY <1>3 DEF RequestStop
    <3>2. target \in [Cancels -> Execs \cup {None}]
      BY DEF TypeOK
    <3> QED BY <3>1, <3>2 DEF OpenCancels
  <2>3. ExecFun /\ exec'[d] = v /\ \A e \in Execs \ {d} : exec'[e] = exec[e]
    BY <2>1, OneExec
  <2> QED BY <2>1, <2>2, <2>3 DEF ExecMove
<1>4. CASE SweepRevert(d) /\ exec[d].status = "cancelling"
  <2> DEFINE v == [exec[d] EXCEPT !.status = sweep[d].prev, !.state = "unconfirmed"]
  <2>1. exec' = [exec EXCEPT ![d] = v] /\ sweep[d] # None
    BY <1>4 DEF SweepRevert, TypeOK
  <2>2. sweep[d].prev \in Live
    BY <2>1 DEF TypeOK, Sweep
  <2>3. ExecFun /\ exec'[d] = v /\ \A e \in Execs \ {d} : exec'[e] = exec[e]
    BY <2>1, OneExec
  <2> QED BY <1>4, <2>2, <2>3 DEF ExecMove
<1>5. CASE SweepRevert(d) /\ exec[d].status # "cancelling"
  BY <1>5 DEF SweepRevert, TypeOK, ExecFun, ExecMove
<1> QED BY <1>1, <1>2, <1>3, <1>4, <1>5

\* The handlers of a script's result and of a cancel's acknowledgement.
LEMMA HandlerMoves ==
    ASSUME TypeOK, NEW f \in handling, HandleScript(f) \/ HandleAck(f)
    PROVE  ExecFun /\ \A e \in Execs : ExecMove(e)
<1>1. CASE HandleScript(f)
  <2>1. f.cmd \in Execs /\ f \in ScriptFrame
    BY <1>1, FrameKinds DEF HandleScript
  <2>2. exec' = [exec EXCEPT ![f.cmd] = ClosedBy(exec[f.cmd], f)]
    BY <1>1, <2>1 DEF HandleScript, TypeOK
  <2>3. /\ ExecFun /\ exec'[f.cmd] = ClosedBy(exec[f.cmd], f)
        /\ \A e \in Execs \ {f.cmd} : exec'[e] = exec[e]
    BY <2>1, <2>2, OneExec
  <2> QED BY <2>1, <2>3 DEF ExecMove
<1>2. CASE HandleAck(f)
  <2>1. f \in AckFrame
    BY <1>2, FrameKinds DEF HandleAck
  <2>2. /\ ExecFun
        /\ \A e \in Execs : \/ exec'[e] = exec[e]
                            \/ /\ exec[e].status = "cancelling" /\ exec[e].by = f.cmd
                               /\ exec'[e] = Acked(exec[e], f.res)
    BY <1>2 DEF HandleAck, ExecFun
  <2> QED BY <2>1, <2>2 DEF ExecMove
<1> QED BY <1>1, <1>2

\* Every step changes every execution by one of these moves.
LEMMA ExecMoves ==
    ASSUME TypeOK, [Next]_vars
    PROVE  ExecFun /\ \A e \in Execs : ExecMove(e)
<1> DEFINE Same == UNCHANGED exec
<1>0. ASSUME Same PROVE ExecFun /\ \A e \in Execs : ExecMove(e)
  BY <1>0 DEF TypeOK, ExecFun, ExecMove
<1>1. ASSUME NEW d \in Execs, \/ ReceiveScript(d) \/ Start(d) \/ Exit(d) \/ Restart(d)
                              \/ ScanExec(d) \/ SweepRead(d) \/ MoveSelect(d)
      PROVE  Same
  BY <1>1 DEF ReceiveScript, Start, Exit, Restart, ScanExec, SweepRead, MoveSelect, server
<1>2. ASSUME NEW c \in Cmds, Claim(c) \/ Release(c) \/ Lose(c)
      PROVE  Same
  BY <1>2 DEF Claim, Release, Lose, server
<1>3. ASSUME NEW c \in Cmds \ Execs, Expire(c) \/ CancelQueued(c)
      PROVE  Same
  BY <1>3 DEF Expire, CancelQueued
<1>4. ASSUME NEW k \in Cancels, ReceiveCancel(k) \/ GiveUp(k) \/ Age(k) \/ Settle(k)
      PROVE  Same
  BY <1>4 DEF ReceiveCancel, GiveUp, Age, Settle, server
<1>5. ASSUME NEW f, Ingest(f) \/ DropHandler(f)
      PROVE  Same
  BY <1>5 DEF Ingest, DropHandler
<1>6. CASE Commit \/ UNCHANGED vars
  BY <1>0, <1>6 DEF Commit, vars
<1> HIDE DEF Same
<1> QED BY <1>0, <1>1, <1>2, <1>3, <1>4, <1>5, <1>6, DispatchMoves, EndMoves, StopMoves,
           HandlerMoves DEF Next

\* The fields a move leaves behind.
LEMMA ExecFields ==
    ASSUME TypeInv, NEW e \in Execs, ExecMove(e),
           \A k \in Cancels : target[k] # None => target'[k] = target[k]
    PROVE  /\ exec'[e] \in Exec
           /\ StoppingOK(e)'
           /\ exec[e].status \in Final => exec'[e].status \in Final
           /\ exec[e].status = "cancelled" \/ (exec[e].status \in Final /\ exec[e].out) =>
                 exec'[e].status = exec[e].status
           /\ exec'[e].status = "none" => exec[e].status = "none"
<1>0. /\ exec[e] \in Exec /\ StoppingOK(e)
      /\ \A f \in handling : f.mark = None
      /\ Live \cap (Final \cup {"none", "cancelling"}) = {}
      /\ Final \cap {"none", "cancelling"} = {}
  BY DEF TypeInv, TypeOK, Unmarked, Live, Final
<1>1. CASE exec'[e] = exec[e]
  <2>1. exec[e].status = "cancelling" => target'[exec[e].by] = target[exec[e].by]
    BY <1>0, IdSets DEF StoppingOK
  <2> QED BY <1>0, <1>1, <2>1 DEF StoppingOK
<1>2. CASE /\ exec[e].status = "none"
           /\ \E s \in {"failed", "queued", "running", "pending"} : exec'[e] = NewExec(s)
  <2> PICK s \in {"failed", "queued", "running", "pending"} : exec'[e] = NewExec(s)
    BY <1>2
  <2>1. exec'[e] \in Exec /\ exec'[e].status = s
    BY NewExecFields DEF Live, Final
  <2> QED BY <1>0, <1>2, <2>1 DEF StoppingOK, Final
<1>3. ASSUME exec[e].status \in Live, NEW s \in Final,
             exec'[e] = [exec[e] EXCEPT !.status = s]
      PROVE  exec'[e] \in Exec /\ exec'[e].status \in Final
  BY <1>0, <1>3 DEF Exec
<1>4. CASE /\ exec[e].status \in Live
           /\ exec'[e] = [exec[e] EXCEPT !.status = "cancelled", !.state = "confirmed",
                                         !.prev = exec[e].status]
  <2>1. exec'[e] \in Exec /\ exec'[e].status = "cancelled"
    BY <1>0, <1>4 DEF Exec, Live, Final
  <2> QED BY <1>0, <1>4, <2>1 DEF StoppingOK, Final
<1>5. CASE /\ exec[e].status \in Live
           /\ exec'[e] = [exec[e] EXCEPT !.state = "unconfirmed", !.prev = exec[e].status]
  <2>1. exec'[e] \in Exec /\ exec'[e].status \in Live
    BY <1>0, <1>5 DEF Exec
  <2> QED BY <1>0, <1>5, <2>1 DEF StoppingOK
<1>6. ASSUME exec[e].status \in Live, NEW k \in Cancels, target'[k] = e,
             exec'[e] = [exec[e] EXCEPT !.status = "cancelling", !.state = "requested",
                                        !.prev = exec[e].status, !.by = k]
      PROVE  exec'[e] \in Exec /\ StoppingOK(e)' /\ exec'[e].status = "cancelling"
  <2>1. /\ exec'[e] \in Exec /\ exec'[e].status = "cancelling"
        /\ exec'[e].by = k /\ exec'[e].prev \in Live
    BY <1>0, <1>6 DEF Exec
  <2> QED BY <1>6, <2>1 DEF StoppingOK
<1>7. CASE \E f \in handling : /\ f \in ScriptFrame /\ f.cmd = e
                               /\ exec'[e] = ClosedBy(exec[e], f)
  <2> PICK f \in handling : f \in ScriptFrame /\ exec'[e] = ClosedBy(exec[e], f)
    BY <1>7
  <2>1. f.mark = None
    BY <1>0
  <2>2. /\ exec'[e] \in Exec
        /\ exec[e].status \in Live \cup {"cancelling"} => exec'[e].status \in Final
        /\ exec[e].status \in Final => exec'[e].status \in Final
        /\ exec[e].status = "cancelled" \/ (exec[e].status \in Final /\ exec[e].out) =>
              exec'[e].status = exec[e].status
        /\ exec[e].status = "none" => exec'[e] = exec[e]
    BY <1>0, <2>1, ClosedByFields
  <2>3. exec[e].status \in Live \cup Final \cup {"none", "cancelling"}
    BY <1>0 DEF Exec
  <2> QED BY <1>0, <2>2, <2>3 DEF StoppingOK
<1>8. CASE /\ exec[e].status = "cancelling"
           /\ \E f \in handling : f \in AckFrame /\ exec'[e] = Acked(exec[e], f.res)
  <2> PICK f \in handling : f \in AckFrame /\ exec'[e] = Acked(exec[e], f.res)
    BY <1>8
  <2>1. f.res \in {"terminated", "not_found", "kill_failed"} /\ exec[e].prev \in Live
    BY <1>0, <1>8 DEF AckFrame, StoppingOK
  <2>2. exec'[e] \in Exec /\ exec'[e].status \in Live \cup {"cancelled"}
    BY <1>0, <2>1, AckedFields
  <2> QED BY <1>0, <1>8, <2>2 DEF StoppingOK, Final, Live
<1>9. ASSUME exec[e].status = "cancelling", NEW s \in Live,
             exec'[e] = [exec[e] EXCEPT !.status = s, !.state = "unconfirmed"]
      PROVE  exec'[e] \in Exec /\ exec'[e].status \in Live
  BY <1>0, <1>9 DEF Exec
<1>10. CASE exec[e].status \in Live /\ exec'[e] \in Exec /\ exec'[e].status \in Final
  BY <1>0, <1>10 DEF StoppingOK, Final
<1>11. CASE exec[e].status = "cancelling" /\ exec'[e] \in Exec /\ exec'[e].status \in Live
  BY <1>0, <1>11 DEF StoppingOK, Final
<1>12. CASE /\ exec[e].status \in Live /\ exec'[e] \in Exec /\ StoppingOK(e)'
            /\ exec'[e].status = "cancelling"
  BY <1>0, <1>12 DEF Final
<1> QED BY <1>1, <1>2, <1>3, <1>4, <1>5, <1>6, <1>7, <1>8, <1>9, <1>10, <1>11, <1>12
           DEF ExecMove

-----------------------------------------------------------------------------
(* What a step may do to a command and its claim.                          *)

\* Every way a command row and what became of its claim change.
CmdMove(c) ==
    \/ cmd'[c] = cmd[c] /\ leg'[c] = leg[c]
    \/ /\ cmd[c] \in {"pending", "sent", "timedout"} /\ cmd'[c] \in Done
       /\ cmd'[c] = "cancelled" => cmd[c] = "pending"
       /\ leg'[c] = leg[c]
    \/ /\ c \in Execs /\ exec[c].status = "none" /\ exec'[c].status # "none"
       /\ \/ cmd'[c] = "pending" /\ leg'[c] = leg[c]
          \/ cmd'[c] \in {"sent", "failed"} /\ leg'[c] = "out"
    \/ cmd[c] = "pending" /\ cmd'[c] = "sent" /\ leg'[c] = "claimed"
    \/ leg[c] = "claimed" /\ cmd'[c] = "pending" /\ leg'[c] = "idle"
    \/ /\ leg[c] = "claimed" /\ leg'[c] = "out"
       /\ cmd'[c] = cmd[c] \/ (cmd[c] = "sent" /\ cmd'[c] = "failed")
    \/ /\ c \in Cancels /\ target[c] = None /\ target'[c] \in Execs
       /\ cmd'[c] = "pending" /\ leg'[c] = leg[c]

CmdFun == cmd' = [c \in Cmds |-> cmd'[c]] /\ leg' = [c \in Cmds |-> leg'[c]]

AllCmds == CmdFun /\ \A c \in Cmds : CmdMove(c)

\* A step that touches one command and one claim at most.
LEMMA OneCmd ==
    ASSUME TypeOK, NEW d \in Cmds,
           cmd' = cmd \/ \E v : cmd' = [cmd EXCEPT ![d] = v],
           leg' = leg \/ \E v : leg' = [leg EXCEPT ![d] = v],
           CmdMove(d)
    PROVE  AllCmds
<1>1. CmdFun
  BY DEF CmdFun, TypeOK
<1>2. \A c \in Cmds \ {d} : cmd'[c] = cmd[c] /\ leg'[c] = leg[c]
  BY DEF TypeOK
<1> QED BY <1>1, <1>2 DEF AllCmds, CmdMove

\* The steps of the request and of the claims.
LEMMA ClaimMoves ==
    ASSUME TypeOK, NEW d \in Execs,
           \/ DispatchQueued(d) \/ DispatchSent(d) \/ DispatchGated(d)
           \/ GateRefuse(d) \/ ReceiveScript(d)
    PROVE  AllCmds
<1>0. d \in Cmds
  BY DEF Cmds
<1>1. CASE DispatchQueued(d)
  <2>1. /\ exec[d].status = "none" /\ exec'[d].status = "queued"
        /\ cmd' = [cmd EXCEPT ![d] = "pending"] /\ leg' = leg
    BY <1>1 DEF DispatchQueued, Undispatched, TypeOK, NewExec
  <2>2. CmdMove(d)
    BY <1>0, <2>1 DEF CmdMove, TypeOK
  <2> QED BY <1>0, <2>1, <2>2, OneCmd
<1>2. CASE DispatchSent(d) \/ DispatchGated(d)
  <2>1. /\ exec[d].status = "none" /\ exec'[d].status # "none"
        /\ leg' = [leg EXCEPT ![d] = "out"]
    BY <1>2 DEF DispatchSent, DispatchGated, Undispatched, TypeOK, NewExec
  <2>2. PICK v \in {"sent", "failed"} : cmd' = [cmd EXCEPT ![d] = v]
    BY <1>2 DEF DispatchSent, DispatchGated
  <2>3. CmdMove(d)
    BY <1>0, <2>1, <2>2 DEF CmdMove, TypeOK
  <2> QED BY <1>0, <2>1, <2>2, <2>3, OneCmd
<1>3. CASE GateRefuse(d)
  <2>1. /\ leg[d] = "claimed" /\ cmd[d] = "sent"
        /\ cmd' = [cmd EXCEPT ![d] = "failed"] /\ leg' = [leg EXCEPT ![d] = "out"]
    BY <1>3 DEF GateRefuse
  <2>2. CmdMove(d)
    BY <1>0, <2>1 DEF CmdMove, TypeOK
  <2> QED BY <1>0, <2>1, <2>2, OneCmd
<1>4. CASE ReceiveScript(d)
  <2>1. leg[d] = "claimed" /\ cmd' = cmd /\ leg' = [leg EXCEPT ![d] = "out"]
    BY <1>4 DEF ReceiveScript, server
  <2>2. CmdMove(d)
    BY <1>0, <2>1 DEF CmdMove, TypeOK
  <2> QED BY <1>0, <2>1, <2>2, OneCmd
<1> QED BY <1>1, <1>2, <1>3, <1>4

\* The steps any command may take.
LEMMA TransportMoves ==
    ASSUME TypeOK, NEW d \in Cmds,
           Claim(d) \/ Release(d) \/ Lose(d) \/ Expire(d) \/ CancelQueued(d)
    PROVE  AllCmds
<1>1. CASE Claim(d)
  <2>1. /\ cmd[d] = "pending"
        /\ cmd' = [cmd EXCEPT ![d] = "sent"] /\ leg' = [leg EXCEPT ![d] = "claimed"]
    BY <1>1 DEF Claim
  <2>2. CmdMove(d)
    BY <2>1 DEF CmdMove, TypeOK
  <2> QED BY <2>1, <2>2, OneCmd
<1>2. CASE Release(d) /\ cmd[d] = "sent"
  <2>1. /\ leg[d] = "claimed"
        /\ cmd' = [cmd EXCEPT ![d] = "pending"] /\ leg' = [leg EXCEPT ![d] = "idle"]
    BY <1>2 DEF Release
  <2>2. CmdMove(d)
    BY <2>1 DEF CmdMove, TypeOK
  <2> QED BY <2>1, <2>2, OneCmd
<1>3. CASE (Release(d) /\ cmd[d] # "sent") \/ Lose(d)
  <2>1. leg[d] = "claimed" /\ cmd' = cmd /\ leg' = [leg EXCEPT ![d] = "out"]
    BY <1>3 DEF Release, Lose, server
  <2>2. CmdMove(d)
    BY <2>1 DEF CmdMove, TypeOK
  <2> QED BY <2>1, <2>2, OneCmd
<1>4. CASE Expire(d)
  <2>1. /\ cmd[d] \in {"pending", "sent"}
        /\ cmd' = [cmd EXCEPT ![d] = "timedout"] /\ leg' = leg
    BY <1>4 DEF Expire
  <2>2. CmdMove(d)
    BY <2>1 DEF CmdMove, TypeOK, Done
  <2> QED BY <2>1, <2>2, OneCmd
<1>5. CASE CancelQueued(d)
  <2>1. cmd[d] = "pending" /\ cmd' = [cmd EXCEPT ![d] = "cancelled"] /\ leg' = leg
    BY <1>5 DEF CancelQueued
  <2>2. CmdMove(d)
    BY <2>1 DEF CmdMove, TypeOK, Done
  <2> QED BY <2>1, <2>2, OneCmd
<1> QED BY <1>1, <1>2, <1>3, <1>4, <1>5

\* A result closes a command that is not over yet.
LEMMA IngestMoves ==
    ASSUME TypeOK, NEW f \in frames, Ingest(f)
    PROVE  AllCmds /\ f.cmd \in Cmds
<1>0. f.cmd \in Cmds
  BY DEF TypeOK, Cmds, ScriptFrame, AckFrame
<1>1. PICK v \in {"failed", "timedout", "completed"} : cmd' = [cmd EXCEPT ![f.cmd] = v]
  BY DEF Ingest
<1>2. leg' = leg /\ cmd[f.cmd] \in {"pending", "sent", "timedout"}
  BY DEF Ingest
<1>3. CmdMove(f.cmd)
  BY <1>0, <1>1, <1>2 DEF CmdMove, TypeOK, Done
<1> QED BY <1>0, <1>1, <1>2, <1>3, OneCmd

\* The stop, the sweep and the move.
LEMMA StopCmdMoves ==
    ASSUME TypeOK, NEW d \in Execs,
           \/ Retract(d) \/ SweepRevert(d) \/ MoveCancel(d)
           \/ \E k \in Cancels : RequestStop(d, k)
    PROVE  AllCmds
<1>0. d \in Cmds /\ Cancels \subseteq Cmds
  BY DEF Cmds
<1>1. CASE Retract(d)
  <2>1. cmd[d] = "pending" /\ cmd' = [cmd EXCEPT ![d] = "cancelled"] /\ leg' = leg
    BY <1>1 DEF Retract
  <2>2. CmdMove(d)
    BY <1>0, <2>1 DEF CmdMove, TypeOK, Done
  <2> QED BY <1>0, <2>1, <2>2, OneCmd
<1>2. CASE SweepRevert(d)
  <2>1. sweep[d].by \in Cancels /\ leg' = leg
    BY <1>2 DEF SweepRevert, TypeOK, Sweep
  <2>2. CASE UNCHANGED cmd
    BY <2>1, <2>2 DEF AllCmds, CmdFun, CmdMove, TypeOK
  <2>3. CASE /\ cmd[sweep[d].by] \in {"pending", "sent"}
             /\ cmd' = [cmd EXCEPT ![sweep[d].by] = "timedout"]
    <3>1. CmdMove(sweep[d].by)
      BY <1>0, <2>1, <2>3 DEF CmdMove, TypeOK, Done
    <3> QED BY <1>0, <2>1, <2>3, <3>1, OneCmd
  <2> QED BY <1>2, <2>2, <2>3 DEF SweepRevert
<1>3. CASE MoveCancel(d)
  <2>1. /\ cmd' = [c \in Cmds |-> IF c \in Queued(d) THEN "cancelled" ELSE cmd[c]]
        /\ leg' = leg
    BY <1>3 DEF MoveCancel
  <2>2. \A c \in Queued(d) : cmd[c] = "pending"
    BY DEF Queued
  <2>3. CmdFun
    BY <2>1 DEF CmdFun, TypeOK
  <2>4. ASSUME NEW c \in Cmds PROVE CmdMove(c)
    BY <2>1, <2>2 DEF CmdMove, Done
  <2> QED BY <2>3, <2>4 DEF AllCmds
<1>4. ASSUME NEW k \in Cancels, RequestStop(d, k) PROVE AllCmds
  <2>1. leg' = leg
    BY <1>4 DEF RequestStop
  <2>2. CASE UNCHANGED cmd
    BY <2>1, <2>2 DEF AllCmds, CmdFun, CmdMove, TypeOK
  <2>3. CASE /\ target[k] = None /\ target' = [target EXCEPT ![k] = d]
             /\ cmd' = [cmd EXCEPT ![k] = "pending"]
    <3>1. target'[k] = d /\ cmd'[k] = "pending"
      BY <1>0, <2>3 DEF TypeOK
    <3>2. CmdMove(k)
      BY <2>1, <2>3, <3>1 DEF CmdMove
    <3> QED BY <1>0, <2>1, <2>3, <3>2, OneCmd
  <2> QED BY <1>4, <2>2, <2>3 DEF RequestStop
<1> QED BY <1>1, <1>2, <1>3, <1>4

\* Every step changes every command by one of these moves.
LEMMA CmdMoves ==
    ASSUME TypeOK, [Next]_vars
    PROVE  AllCmds
<1> DEFINE Same == UNCHANGED <<cmd, leg>>
<1>0. ASSUME Same PROVE AllCmds
  BY <1>0 DEF TypeOK, AllCmds, CmdFun, CmdMove
<1>1. ASSUME NEW d \in Execs, \/ DispatchRefused(d) \/ Start(d) \/ Exit(d) \/ Restart(d)
                              \/ CancelTooLate(d) \/ ScanExec(d) \/ FinishExec(d)
                              \/ SweepRead(d) \/ MoveSelect(d)
      PROVE  Same
  BY <1>1 DEF DispatchRefused, Start, Exit, Restart, CancelTooLate, ScanExec, FinishExec,
              SweepRead, MoveSelect, server
<1>2. ASSUME NEW k \in Cancels, GiveUp(k) \/ Age(k) \/ Settle(k)
      PROVE  Same
  BY <1>2 DEF GiveUp, Age, Settle, server
<1>3. ASSUME NEW f, HandleScript(f) \/ HandleAck(f) \/ DropHandler(f)
      PROVE  Same
  BY <1>3 DEF HandleScript, HandleAck, DropHandler
<1>4. ASSUME NEW k \in Cancels, ReceiveCancel(k) PROVE AllCmds
  <2>1. leg[k] = "claimed" /\ cmd' = cmd /\ leg' = [leg EXCEPT ![k] = "out"] /\ k \in Cmds
    BY <1>4 DEF ReceiveCancel, server, Cmds
  <2>2. CmdMove(k)
    BY <2>1 DEF CmdMove, TypeOK
  <2> QED BY <2>1, <2>2, OneCmd
<1>5. CASE Commit \/ UNCHANGED vars
  BY <1>0, <1>5 DEF Commit, vars
<1> HIDE DEF Same
<1> QED BY <1>0, <1>1, <1>2, <1>3, <1>4, <1>5, ClaimMoves, TransportMoves, IngestMoves,
           StopCmdMoves DEF Next

-----------------------------------------------------------------------------
(* What a step may do on the device.                                       *)

\* Every way the process of an execution and the cancel recorded against it
\* change.
ProcMove(e) ==
    \/ /\ proc'[e] = proc[e]
       /\ stopper'[e] = stopper[e] \/ stopper'[e] \in Cancels
    \/ /\ leg[e] = "claimed" \/ (exec[e].status = "none" /\ exec'[e].status # "none")
       /\ leg'[e] = "out" /\ proc'[e] = "inbox" /\ stopper'[e] = stopper[e]
    \/ /\ proc[e] = "inbox" /\ stopper'[e] = stopper[e]
       /\ proc'[e] = IF stopper[e] = None THEN "running" ELSE "gone"
    \/ proc[e] = "inbox" /\ proc'[e] = "gone" /\ stopper'[e] = None
    \/ /\ proc[e] = "running" /\ proc'[e] \in {"gone", "orphans"}
       /\ stopper'[e] = stopper[e] \/ stopper'[e] = None

ProcFun == proc' = [e \in Execs |-> proc'[e]] /\ stopper' = [e \in Execs |-> stopper'[e]]

\* What a step may do to the rest of the agent: frames are never withdrawn, a
\* cancel waits only once it was received, and a new proof of a stop is given
\* to a cancel in the agent's hands whose target has stopped.
AgentMove ==
    /\ frames \subseteq frames' /\ frames' \subseteq ScriptFrame \cup AckFrame
    /\ waiting' \subseteq Cancels
    /\ \A k \in waiting' : k \in waiting \/ leg[k] = "claimed"
    /\ \A k \in Cancels : Ack(k, "terminated") \in frames' =>
          \/ Ack(k, "terminated") \in frames
          \/ /\ k \in waiting \/ leg[k] = "claimed"
             /\ target[k] \in Execs => Stopped(target[k])'
    /\ restarts' \in [Execs -> Nat]

AllProcs == ProcFun /\ AgentMove /\ \A e \in Execs : ProcMove(e)

\* A step that touches one process at most.
LEMMA OneProc ==
    ASSUME TypeOK, NEW d \in Execs,
           proc' = proc \/ \E v : proc' = [proc EXCEPT ![d] = v],
           stopper' = stopper \/ \E v : stopper' = [stopper EXCEPT ![d] = v],
           ProcMove(d), AgentMove
    PROVE  AllProcs
<1>1. ProcFun
  BY DEF ProcFun, TypeOK
<1>2. \A e \in Execs \ {d} : proc'[e] = proc[e] /\ stopper'[e] = stopper[e]
  BY DEF TypeOK
<1> QED BY <1>1, <1>2 DEF AllProcs, ProcMove

\* The two kinds of frame, and what tells an acknowledgement from the rest.
LEMMA FrameTypes ==
    /\ \A k \in Cancels, r \in {"terminated", "not_found", "kill_failed"} :
          /\ Ack(k, r) \in AckFrame
          /\ Ack(k, r).cmd = k /\ Ack(k, r).res = r /\ Ack(k, r).mark = None
    /\ \A e \in Execs, r \in {"ok", "fail", "timeout"}, m \in Cancels \cup {None} :
          /\ [cmd |-> e, res |-> r, mark |-> m] \in ScriptFrame
          /\ \A k \in Cancels : \A o : [cmd |-> e, res |-> r, mark |-> m] # Ack(k, o)
BY IdSets DEF Ack, AckFrame, ScriptFrame

\* The script reaches the device and is started or refused.
LEMMA StartMoves ==
    ASSUME TypeOK, NEW d \in Execs, DispatchSent(d) \/ ReceiveScript(d) \/ Start(d)
    PROVE  AllProcs
<1>1. CASE DispatchSent(d) \/ ReceiveScript(d)
  <2>1. /\ proc' = [proc EXCEPT ![d] = "inbox"] /\ leg' = [leg EXCEPT ![d] = "out"]
        /\ UNCHANGED <<stopper, waiting, frames, restarts>>
    BY <1>1 DEF DispatchSent, ReceiveScript
  <2>2. leg[d] = "claimed" \/ (exec[d].status = "none" /\ exec'[d].status # "none")
    BY <1>1 DEF DispatchSent, ReceiveScript, Undispatched, NewExec, TypeOK
  <2>3. d \in Cmds
    BY DEF Cmds
  <2>4. ProcMove(d)
    BY <2>1, <2>2, <2>3 DEF ProcMove, TypeOK
  <2>5. AgentMove
    BY <2>1 DEF AgentMove, TypeOK
  <2> QED BY <2>1, <2>4, <2>5, OneProc
<1>2. CASE Start(d)
  <2>0. proc[d] = "inbox" /\ UNCHANGED <<stopper, waiting, restarts>>
        /\ stopper[d] \in Cancels \cup {None}
    BY <1>2 DEF Start, TypeOK
  <2>1. /\ proc' = [proc EXCEPT ![d] = IF stopper[d] = None THEN "running" ELSE "gone"]
        /\ \/ frames' = frames
           \/ frames' = frames \cup {[cmd |-> d, res |-> "fail", mark |-> stopper[d]]}
    BY <1>2 DEF Start
  <2>2. ProcMove(d)
    BY <2>0, <2>1 DEF ProcMove, TypeOK
  <2>3. /\ frames' \subseteq ScriptFrame \cup AckFrame /\ frames \subseteq frames'
        /\ \A k \in Cancels : Ack(k, "terminated") \in frames' =>
              Ack(k, "terminated") \in frames
    BY <2>0, <2>1, FrameTypes DEF TypeOK
  <2>4. AgentMove
    BY <2>0, <2>3 DEF AgentMove, TypeOK
  <2> QED BY <2>0, <2>1, <2>2, <2>4, OneProc
<1> QED BY <1>1, <1>2

\* The process ends.  Only a contained one that is gone counts as terminated.
LEMMA ExitMoves ==
    ASSUME TypeOK, NEW d \in Execs, Exit(d)
    PROVE  AllProcs
<1>1. PICK res \in {"ok", "fail", "timeout"} :
         /\ proc[d] = "running"
         /\ \/ proc' = [proc EXCEPT ![d] = "gone"]
            \/ d \notin Contained /\ proc' = [proc EXCEPT ![d] = "orphans"]
         /\ frames' = frames \cup Grades(d)
                 \cup {[cmd |-> d, res |-> res, mark |-> stopper[d]]}
         /\ waiting' = NotWaiting(d) /\ UNCHANGED <<stopper, restarts, target>>
  BY DEF Exit, server
<1>2. stopper[d] \in Cancels \cup {None}
  BY DEF TypeOK
<1>3. waiting' \subseteq waiting /\ waiting \subseteq Cancels
  BY <1>1 DEF NotWaiting, TypeOK
<1>4. ProcMove(d)
  <2>1. proc'[d] \in {"gone", "orphans"}
    BY <1>1 DEF TypeOK
  <2> QED BY <1>1, <2>1 DEF ProcMove
<1>5. Grades(d) \subseteq AckFrame
  <2>1. \A g \in Grades(d) : \E k \in waiting :
           g = Ack(k, IF d \in Contained THEN "terminated" ELSE "kill_failed")
    BY DEF Grades
  <2> QED BY <1>3, <2>1, FrameTypes
<1>6. frames' \subseteq ScriptFrame \cup AckFrame /\ frames \subseteq frames'
  BY <1>1, <1>2, <1>5, FrameTypes DEF TypeOK
<1>7. ASSUME NEW k \in Cancels, Ack(k, "terminated") \in frames',
             Ack(k, "terminated") \notin frames
      PROVE  k \in waiting /\ (target[k] \in Execs => Stopped(target[k])')
  <2>1. Ack(k, "terminated") \in Grades(d)
    BY <1>1, <1>2, <1>7, FrameTypes
  <2>2. PICK w \in waiting :
           /\ target[w] = d
           /\ Ack(k, "terminated")
                 = Ack(w, IF d \in Contained THEN "terminated" ELSE "kill_failed")
    BY <2>1 DEF Grades
  <2>3. w = k /\ d \in Contained
    BY <1>3, <2>2 DEF Ack
  <2>4. proc'[d] = "gone"
    BY <1>1, <2>3 DEF TypeOK
  <2> QED BY <1>1, <2>2, <2>3, <2>4 DEF Stopped
<1>8. AgentMove
  BY <1>1, <1>3, <1>6, <1>7 DEF AgentMove, TypeOK
<1> QED BY <1>1, <1>4, <1>8, OneProc

\* The agent forgets what it was running.
LEMMA RestartMoves ==
    ASSUME TypeOK, NEW d \in Execs, Restart(d)
    PROVE  AllProcs
<1>1. /\ proc[d] \in {"inbox", "running"}
      /\ \/ proc' = [proc EXCEPT ![d] = "gone"]
         \/ proc[d] = "running" /\ proc' = [proc EXCEPT ![d] = "orphans"]
      /\ stopper' = [stopper EXCEPT ![d] = None]
      /\ waiting' = NotWaiting(d) /\ frames' = frames
      /\ restarts' = [restarts EXCEPT ![d] = @ + 1]
  BY DEF Restart
<1>2. /\ stopper'[d] = None
      /\ proc'[d] = "gone" \/ (proc[d] = "running" /\ proc'[d] = "orphans")
  BY <1>1 DEF TypeOK
<1>3. ProcMove(d)
  BY <1>1, <1>2 DEF ProcMove
<1>4. AgentMove
  BY <1>1 DEF AgentMove, NotWaiting, TypeOK
<1> QED BY <1>1, <1>3, <1>4, OneProc

\* The agent receives a cancel, or stops waiting for one.
LEMMA CancelMoves ==
    ASSUME TypeOK, NEW k \in Cancels, ReceiveCancel(k) \/ GiveUp(k)
    PROVE  AllProcs
<1> DEFINE e == target[k]
<1>0. /\ e \in Execs \cup {None} /\ None \notin Execs /\ k # None
      /\ frames \subseteq ScriptFrame \cup AckFrame /\ waiting \subseteq Cancels
  BY IdSets DEF TypeOK
<1>1. CASE ReceiveCancel(k)
  <2>0. leg[k] = "claimed" /\ UNCHANGED <<proc, restarts, target>>
    BY <1>1 DEF ReceiveCancel, server
  <2>1. stopper' = stopper \/ stopper' = [stopper EXCEPT ![e] = k]
    BY <1>1 DEF ReceiveCancel
  <2>2. waiting' = waiting \/ waiting' = waiting \cup {k}
    BY <1>1 DEF ReceiveCancel
  <2>3. \/ frames' = frames
        \/ frames' = frames \cup {Ack(k, "not_found")}
        \/ /\ frames' = frames \cup {Ack(k, "terminated")}
           /\ proc[e] = "inbox" /\ stopper' = [stopper EXCEPT ![e] = k]
    BY <1>1 DEF ReceiveCancel
  <2>4. frames' \subseteq ScriptFrame \cup AckFrame /\ frames \subseteq frames'
    BY <1>0, <2>3, FrameTypes
  <2>5. ASSUME NEW j \in Cancels, Ack(j, "terminated") \in frames',
               Ack(j, "terminated") \notin frames
        PROVE  leg[j] = "claimed" /\ (target[j] \in Execs => Stopped(target[j])')
    <3>1. Ack(j, "terminated") # Ack(k, "not_found")
      BY DEF Ack
    <3>2. /\ Ack(j, "terminated") = Ack(k, "terminated")
          /\ proc[e] = "inbox" /\ stopper' = [stopper EXCEPT ![e] = k]
      BY <2>3, <2>5, <3>1
    <3>3. j = k
      BY <3>2 DEF Ack
    <3>4. e \in Execs => proc'[e] = "inbox" /\ stopper'[e] = k
      BY <2>0, <3>2 DEF TypeOK
    <3> QED BY <1>0, <2>0, <3>3, <3>4 DEF Stopped
  <2>6. AgentMove
    BY <1>0, <2>0, <2>2, <2>4, <2>5 DEF AgentMove, TypeOK
  <2>7. CASE e \in Execs
    <3>1. ProcMove(e)
      BY <2>0, <2>1, <2>7 DEF ProcMove, TypeOK
    <3> QED BY <2>0, <2>1, <2>6, <2>7, <3>1, OneProc
  <2>8. CASE e = None
    <3>1. stopper' = stopper
      BY <1>0, <2>1, <2>8 DEF TypeOK
    <3> QED BY <2>0, <2>6, <3>1 DEF AllProcs, ProcFun, ProcMove, TypeOK
  <2> QED BY <1>0, <2>7, <2>8
<1>2. CASE GiveUp(k)
  <2>1. /\ waiting' = waiting \ {k} /\ frames' = frames \cup {Ack(k, "kill_failed")}
        /\ UNCHANGED <<proc, stopper, restarts>>
    BY <1>2 DEF GiveUp
  <2>2. \A j \in Cancels : Ack(j, "terminated") # Ack(k, "kill_failed")
    BY DEF Ack
  <2>3. AgentMove
    BY <1>0, <2>1, <2>2, FrameTypes DEF AgentMove, TypeOK
  <2> QED BY <2>1, <2>3 DEF AllProcs, ProcFun, ProcMove, TypeOK
<1> QED BY <1>1, <1>2

\* Every step changes the devices by one of these moves.
LEMMA ProcMoves ==
    ASSUME TypeOK, [Next]_vars
    PROVE  AllProcs
<1> DEFINE Same == UNCHANGED agent
<1>0. ASSUME Same PROVE AllProcs
  BY <1>0 DEF TypeOK, AllProcs, ProcFun, ProcMove, AgentMove, agent
<1>1. ASSUME NEW d \in Execs,
             \/ DispatchRefused(d) \/ DispatchQueued(d) \/ DispatchGated(d)
             \/ GateRefuse(d) \/ Retract(d) \/ CancelTooLate(d)
             \/ \E k \in Cancels : RequestStop(d, k)
      PROVE  Same
  BY <1>1 DEF DispatchRefused, DispatchQueued, DispatchGated, GateRefuse, Retract,
              CancelTooLate, RequestStop
<1>2. ASSUME NEW d \in Execs,
             \/ ScanExec(d) \/ FinishExec(d) \/ SweepRead(d) \/ SweepRevert(d)
             \/ MoveSelect(d) \/ MoveCancel(d)
      PROVE  Same
  BY <1>2 DEF ScanExec, FinishExec, SweepRead, SweepRevert, MoveSelect, MoveCancel
<1>3. ASSUME NEW c \in Cmds,
             Claim(c) \/ Release(c) \/ Lose(c) \/ Expire(c) \/ CancelQueued(c)
      PROVE  Same
  BY <1>3 DEF Claim, Release, Lose, Expire, CancelQueued
<1>4. ASSUME NEW k \in Cancels, Age(k) \/ Settle(k) PROVE Same
  BY <1>4 DEF Age, Settle
<1>5. ASSUME NEW f, Ingest(f) \/ HandleScript(f) \/ HandleAck(f) \/ DropHandler(f)
      PROVE  Same
  BY <1>5 DEF Ingest, HandleScript, HandleAck, DropHandler
<1>6. CASE Commit \/ UNCHANGED vars
  <2>1. Same
    BY <1>6 DEF Commit, vars, agent
  <2> QED BY <1>0, <2>1
<1> HIDE DEF Same
<1> QED BY <1>0, <1>1, <1>2, <1>3, <1>4, <1>5, <1>6, StartMoves, ExitMoves, RestartMoves,
           CancelMoves DEF Next

-----------------------------------------------------------------------------
(* The rest of the state.                                                  *)

\* What a step may do to the bookkeeping of the server.
ServerMove ==
    /\ committed' \in BOOLEAN
    /\ target' \in [Cancels -> Execs \cup {None}]
    /\ \A k \in Cancels : target[k] # None => target'[k] = target[k]
    /\ aged' \subseteq Cancels /\ settled' \subseteq Cancels
    /\ handling' \subseteq ScriptFrame \cup AckFrame
    /\ \A f \in handling' :
          f \in handling \/ (f.mark = None /\ (f.cmd \in Cancels => f \in frames))
    /\ scan' \in [Execs -> Final \cup {"none"}]
    /\ \A e \in Execs : scan'[e] \in {scan[e], "none"}
                        \/ (scan'[e] = "cancelled" => cmd'[e] = "cancelled")
    /\ sweep' \in [Execs -> Sweep \cup {None}]
    /\ moving' \in [Execs -> SUBSET Cmds]
    /\ \A e \in Execs : Moves \/ moving'[e] \in {moving[e], {}}

\* Parsing drops the marker of a result and leaves an acknowledgement alone.
LEMMA ParsedFrame ==
    ASSUME TypeOK, NEW f \in frames
    PROVE  /\ Parsed(f) \in ScriptFrame \cup AckFrame /\ Parsed(f).mark = None
           /\ Parsed(f).cmd \in Cancels => Parsed(f) = f
<1>1. CASE f \in ScriptFrame
  BY <1>1, IdSets DEF Parsed, ScriptFrame
<1>2. CASE f \in AckFrame
  BY <1>2 DEF Parsed, AckFrame
<1> QED BY <1>1, <1>2 DEF TypeOK

\* Every step moves the server's bookkeeping so.
LEMMA ServerMoves ==
    ASSUME TypeInv, [Next]_vars
    PROVE  ServerMove
<1> DEFINE Kept == UNCHANGED <<target, handling, scan, sweep, moving>>
           Clocks == /\ committed' \in BOOLEAN
                     /\ aged' \subseteq Cancels /\ settled' \subseteq Cancels
<1>t. TypeOK /\ committed \in BOOLEAN /\ aged \subseteq Cancels /\ settled \subseteq Cancels
  BY DEF TypeInv, TypeOK
<1>0. ASSUME Kept, Clocks PROVE ServerMove
  BY <1>0, <1>t DEF TypeOK, ServerMove
<1>1. ASSUME NEW d \in Execs,
             \/ DispatchRefused(d) \/ DispatchQueued(d) \/ DispatchSent(d)
             \/ DispatchGated(d) \/ GateRefuse(d) \/ ReceiveScript(d)
             \/ Start(d) \/ Exit(d) \/ Restart(d) \/ Retract(d) \/ CancelTooLate(d)
      PROVE  Kept /\ Clocks
  BY <1>1, <1>t DEF DispatchRefused, DispatchQueued, DispatchSent, DispatchGated,
     GateRefuse, ReceiveScript, Start, Exit, Restart, Retract, CancelTooLate, server
<1>2. ASSUME NEW c \in Cmds, Claim(c) \/ Release(c) \/ Lose(c) \/ Expire(c) \/ CancelQueued(c)
      PROVE  Kept /\ Clocks
  BY <1>2, <1>t DEF Claim, Release, Lose, Expire, CancelQueued, server
<1>3. ASSUME NEW k \in Cancels, ReceiveCancel(k) \/ GiveUp(k) \/ Age(k) \/ Settle(k)
      PROVE  Kept /\ Clocks
  BY <1>3, <1>t DEF ReceiveCancel, GiveUp, Age, Settle, server
<1>4. ASSUME NEW d \in Execs, NEW k \in Cancels, RequestStop(d, k) PROVE ServerMove
  <2>1. Clocks /\ UNCHANGED <<handling, scan, sweep, moving>>
    BY <1>4, <1>t DEF RequestStop
  <2>2. \/ UNCHANGED target
        \/ target[k] = None /\ target' = [target EXCEPT ![k] = d]
    BY <1>4 DEF RequestStop
  <2>3. target' \in [Cancels -> Execs \cup {None}]
        /\ \A j \in Cancels : target[j] # None => target'[j] = target[j]
    BY <1>t, <2>2 DEF TypeOK
  <2> QED BY <1>t, <2>1, <2>3 DEF TypeOK, ServerMove
<1>5. ASSUME NEW d \in Execs, ScanExec(d) PROVE ServerMove
  <2>1. Clocks /\ UNCHANGED <<cmd, target, handling, sweep, moving>>
        /\ scan' = [scan EXCEPT ![d] = ReapedStatus(d)]
    BY <1>5, <1>t DEF ScanExec
  <2>2. cmd[d] \in Done \cup {"none", "pending", "sent"}
    BY <1>t DEF TypeOK, Cmds
  <2>3. /\ ReapedStatus(d) \in Final
        /\ ReapedStatus(d) = "cancelled" => cmd[d] = "cancelled"
    BY <2>2 DEF ReapedStatus, Done, Final
  <2>4. /\ scan' \in [Execs -> Final \cup {"none"}]
        /\ \A e \in Execs : scan'[e] \in {scan[e], "none"}
                            \/ (scan'[e] = "cancelled" => cmd'[e] = "cancelled")
    BY <1>t, <2>1, <2>3 DEF TypeOK
  <2> QED BY <1>t, <2>1, <2>4 DEF TypeOK, ServerMove
<1>6. ASSUME NEW d \in Execs, FinishExec(d) PROVE ServerMove
  <2>1. Clocks /\ UNCHANGED <<target, handling, sweep, moving>>
        /\ scan' = [scan EXCEPT ![d] = "none"]
    BY <1>6, <1>t DEF FinishExec
  <2>2. /\ scan' \in [Execs -> Final \cup {"none"}]
        /\ \A e \in Execs : scan'[e] \in {scan[e], "none"}
    BY <1>t, <2>1 DEF TypeOK
  <2> QED BY <1>t, <2>1, <2>2 DEF TypeOK, ServerMove
<1>7. ASSUME NEW d \in Execs, SweepRead(d) \/ SweepRevert(d) PROVE ServerMove
  <2>1. Clocks /\ UNCHANGED <<target, handling, scan, moving>>
    BY <1>7, <1>t DEF SweepRead, SweepRevert
  <2>2. sweep' \in [Execs -> Sweep \cup {None}]
    <3>1. CASE SweepRead(d)
      <4> DEFINE s == [by |-> exec[d].by, prev |-> exec[d].prev,
                       term |-> cmd[exec[d].by] \in Done]
      <4>1. exec[d].by \in Cancels /\ exec[d].prev \in Live
        BY <3>1 DEF TypeInv, StoppingOK, SweepRead
      <4>2. (cmd[exec[d].by] \in Done) \in BOOLEAN
        OBVIOUS
      <4>3. s \in Sweep
        BY <4>1, <4>2 DEF Sweep
      <4>4. sweep' = [sweep EXCEPT ![d] = s]
        BY <3>1 DEF SweepRead
      <4> HIDE DEF s
      <4> QED BY <1>t, <4>3, <4>4 DEF TypeOK
    <3>2. CASE SweepRevert(d)
      BY <1>t, <3>2 DEF SweepRevert, TypeOK
    <3> QED BY <1>7, <3>1, <3>2
  <2> QED BY <1>t, <2>1, <2>2 DEF TypeOK, ServerMove
<1>8. ASSUME NEW d \in Execs, MoveSelect(d) \/ MoveCancel(d) PROVE ServerMove
  <2>1. Clocks /\ UNCHANGED <<target, handling, scan, sweep>>
    BY <1>8, <1>t DEF MoveSelect, MoveCancel
  <2>2. Queued(d) \subseteq Cmds
    BY DEF Queued, Cmds
  <2>3. /\ moving' \in [Execs -> SUBSET Cmds]
        /\ \A e \in Execs : Moves \/ moving'[e] \in {moving[e], {}}
    BY <1>8, <1>t, <2>2 DEF MoveSelect, MoveCancel, TypeOK
  <2> QED BY <1>t, <2>1, <2>3 DEF TypeOK, ServerMove
<1>9. ASSUME NEW f \in frames, Ingest(f) PROVE ServerMove
  <2>1. Clocks /\ UNCHANGED <<target, scan, sweep, moving>>
        /\ handling' = handling \cup {Parsed(f)}
    BY <1>9, <1>t DEF Ingest
  <2>2. /\ handling' \subseteq ScriptFrame \cup AckFrame
        /\ \A g \in handling' :
              g \in handling \/ (g.mark = None /\ (g.cmd \in Cancels => g \in frames))
    BY <1>t, <2>1, ParsedFrame DEF TypeOK
  <2> QED BY <1>t, <2>1, <2>2 DEF TypeOK, ServerMove
<1>10. ASSUME NEW f \in handling, HandleScript(f) \/ HandleAck(f) \/ DropHandler(f)
       PROVE  ServerMove
  <2>1. Clocks /\ UNCHANGED <<target, scan, sweep, moving>>
        /\ handling' = handling \ {f}
    BY <1>10, <1>t DEF HandleScript, HandleAck, DropHandler
  <2> QED BY <1>t, <2>1 DEF TypeOK, ServerMove
<1>11. CASE Commit \/ UNCHANGED vars
  <2>1. Kept /\ Clocks
    BY <1>11, <1>t DEF Commit, vars
  <2> QED BY <1>0, <2>1
<1> HIDE DEF Kept, Clocks
<1> QED BY <1>0, <1>1, <1>2, <1>3, <1>4, <1>5, <1>6, <1>7, <1>8, <1>9, <1>10, <1>11
           DEF Next

-----------------------------------------------------------------------------
(* What a step may do to the batch.                                        *)

\* The counters stand, or one slot is spent by a step that ends its execution
\* (or by a dispatch whose secret gate threw).
BatchMove ==
    \/ /\ batch' \in Batch /\ UNCHANGED slots
       /\ batch'.completed = batch.completed /\ batch'.failed = batch.failed
    \/ \E e \in Execs :
          /\ SpendMove(e)
          /\ GateFaults \/ (exec[e].status \notin Final /\ exec'[e].status \in Final)

\* A step that spends the slot of an execution it ends.
LEMMA SpendEnds ==
    ASSUME TypeOK, NEW e \in Execs, NEW b \in Batch, Spend(e, b),
           b.completed + b.failed = batch.completed + batch.failed + 1,
           GateFaults \/ (exec[e].status \notin Final /\ exec'[e].status \in Final)
    PROVE  BatchMove
<1>1. batch \in Batch
  BY DEF TypeOK, Batch
<1> QED BY <1>1, SpendMoves DEF BatchMove

\* The paths that count without looking at completion.
LEMMA CountMoves ==
    ASSUME TypeOK, NEW d \in Execs, DispatchRefused(d) \/ DispatchGated(d) \/ GateRefuse(d)
    PROVE  BatchMove
<1> DEFINE b == Counted(batch, "failed")
<1>0. batch \in Batch /\ Live \cap Final = {} /\ "none" \notin Final /\ "failed" \in Final
  BY DEF TypeOK, Batch, Live, Final
<1>1. b \in Batch /\ b.completed + b.failed = batch.completed + batch.failed + 1
  BY <1>0, CountedBatch
<1> HIDE DEF b
<1>2. CASE UNCHANGED <<batch, slots>>
  BY <1>0, <1>2 DEF BatchMove
<1>3. CASE Spend(d, b) /\ GateFaults
  BY <1>1, <1>3, SpendEnds
<1>4. CASE Spend(d, b) /\ ~GateFaults /\ ~UNCHANGED <<batch, slots>>
  <2>1. exec[d].status \notin Final /\ exec'[d].status = "failed"
    <3>1. CASE DispatchRefused(d) \/ DispatchGated(d)
      BY <1>0, <1>4, <3>1 DEF DispatchRefused, DispatchGated, Undispatched, NewExec, TypeOK
    <3>2. CASE GateRefuse(d) /\ exec[d].status \in Live
      BY <1>0, <3>2 DEF GateRefuse, TypeOK, Exec
    <3>3. CASE GateRefuse(d) /\ exec[d].status \notin Live
      BY <1>4, <3>3 DEF GateRefuse
    <3> QED BY <3>1, <3>2, <3>3
  <2> QED BY <1>0, <1>1, <1>4, <2>1, SpendEnds
<1> QED BY <1>2, <1>3, <1>4 DEF DispatchRefused, DispatchGated, GateRefuse, b

\* finalizeScriptExecutionTerminal counts what it ends.
LEMMA FinalizeCounts ==
    ASSUME TypeOK, NEW d \in Execs, NEW outcome \in Final, Finalize(d, outcome)
    PROVE  BatchMove
<1> DEFINE b == ApplyBatchCounter(batch, outcome)
<1>0. batch \in Batch /\ Live \cap Final = {}
  BY DEF TypeOK, Batch, Live, Final
<1>1. b \in Batch /\ b.completed + b.failed = batch.completed + batch.failed + 1
  BY <1>0, AppliedBatch
<1> HIDE DEF b
<1>2. CASE exec[d].status \in Live
  <2>1. exec[d].status \notin Final /\ exec'[d].status \in Final
    BY <1>0, <1>2 DEF Finalize, TypeOK, Exec
  <2>2. Spend(d, b)
    BY <1>2 DEF Finalize, b
  <2> QED BY <1>1, <2>1, <2>2, SpendEnds
<1>3. CASE exec[d].status \notin Live
  BY <1>0, <1>3 DEF Finalize, BatchMove
<1> QED BY <1>2, <1>3

\* The result handler counts what it ends.
LEMMA HandlerCounts ==
    ASSUME TypeInv, NEW f \in handling, HandleScript(f)
    PROVE  BatchMove
<1> DEFINE e == f.cmd
           b == Counted(batch, IF f.res = "ok" THEN "completed" ELSE "failed")
<1>0. /\ TypeOK /\ batch \in Batch /\ f.mark = None
      /\ (Live \cup {"cancelling"}) \cap Final = {}
  BY DEF TypeInv, Unmarked, TypeOK, Batch, Live, Final
<1>1. e \in Execs /\ f \in ScriptFrame
  BY <1>0, FrameKinds DEF HandleScript
<1>2. b \in Batch /\ b.completed + b.failed = batch.completed + batch.failed + 1
  BY <1>0, CountedBatch
<1> HIDE DEF b
<1>3. CASE exec[e].status \in Live \cup {"cancelling"}
  <2>1. exec'[e] = ClosedBy(exec[e], f) /\ exec[e] \in Exec
    BY <1>0, <1>1 DEF HandleScript, TypeOK
  <2>2. exec'[e].status \in Final /\ exec[e].status \notin Final
    BY <1>0, <1>1, <1>3, <2>1, ClosedByFields
  <2>3. Spend(e, b)
    BY <1>3 DEF HandleScript, b
  <2> QED BY <1>0, <1>1, <1>2, <2>2, <2>3, SpendEnds
<1>4. CASE exec[e].status \notin Live \cup {"cancelling"}
  BY <1>0, <1>4 DEF HandleScript, BatchMove
<1> QED BY <1>3, <1>4

\* Every step moves the batch so.
LEMMA BatchMoves ==
    ASSUME TypeInv, [Next]_vars
    PROVE  BatchMove
<1> DEFINE Same == UNCHANGED <<batch, slots>>
<1>t. TypeOK /\ batch \in Batch
  BY DEF TypeInv, TypeOK, Batch
<1>0. ASSUME Same PROVE BatchMove
  BY <1>0, <1>t DEF BatchMove
<1>1. ASSUME NEW d \in Execs,
             \/ DispatchQueued(d) \/ DispatchSent(d) \/ ReceiveScript(d)
             \/ Start(d) \/ Exit(d) \/ Restart(d) \/ Retract(d) \/ CancelTooLate(d)
             \/ \E k \in Cancels : RequestStop(d, k)
             \/ ScanExec(d) \/ SweepRead(d) \/ SweepRevert(d) \/ MoveSelect(d)
      PROVE  Same
  BY <1>1 DEF DispatchQueued, DispatchSent, ReceiveScript, Start, Exit, Restart, Retract,
     CancelTooLate, RequestStop, ScanExec, SweepRead, SweepRevert, MoveSelect, server
<1>2. ASSUME NEW c \in Cmds, Claim(c) \/ Release(c) \/ Lose(c)
      PROVE  Same
  BY <1>2 DEF Claim, Release, Lose, server
<1>3. ASSUME NEW c \in Cmds, Expire(c) \/ CancelQueued(c)
      PROVE  BatchMove
  <2>1. CASE c \in Execs
    <3>1. \E outcome \in Final : Finalize(c, outcome)
      BY <1>3, <2>1 DEF Expire, CancelQueued, Final
    <3> QED BY <1>t, <2>1, <3>1, FinalizeCounts
  <2>2. CASE c \notin Execs
    <3>1. Same
      BY <1>3, <2>2 DEF Expire, CancelQueued
    <3> QED BY <1>0, <3>1
  <2> QED BY <2>1, <2>2
<1>4. ASSUME NEW d \in Execs, FinishExec(d) \/ MoveCancel(d)
      PROVE  BatchMove
  <2>1. CASE \E outcome \in Final : Finalize(d, outcome)
    BY <1>t, <2>1, FinalizeCounts
  <2>2. CASE Same
    BY <1>0, <2>2
  <2>3. scan[d] \in Final \cup {"none"} /\ "cancelled" \in Final
    BY <1>t DEF TypeOK, Final
  <2> QED BY <1>4, <2>1, <2>2, <2>3 DEF FinishExec, MoveCancel
<1>5. ASSUME NEW k \in Cancels, ReceiveCancel(k) \/ GiveUp(k) \/ Age(k) \/ Settle(k)
      PROVE  Same
  BY <1>5 DEF ReceiveCancel, GiveUp, Age, Settle, server
<1>6. ASSUME NEW f, Ingest(f) \/ HandleAck(f) \/ DropHandler(f)
      PROVE  Same
  BY <1>6 DEF Ingest, HandleAck, DropHandler
<1>7. CASE Commit
  <2>1. batch' = [batch EXCEPT !.status = "queued"] /\ slots' = slots
    BY <1>7 DEF Commit
  <2>2. /\ [batch EXCEPT !.status = "queued"] \in Batch
        /\ [batch EXCEPT !.status = "queued"].completed = batch.completed
        /\ [batch EXCEPT !.status = "queued"].failed = batch.failed
    BY <1>t DEF Batch
  <2> QED BY <2>1, <2>2 DEF BatchMove
<1>8. CASE UNCHANGED vars
  BY <1>0, <1>8 DEF vars
<1> HIDE DEF Same
<1> QED BY <1>t, <1>0, <1>1, <1>2, <1>3, <1>4, <1>5, <1>6, <1>7, <1>8, CountMoves,
           HandlerCounts DEF Next

-----------------------------------------------------------------------------
(* Type correctness and the fate of a decided execution.                   *)

\* A fresh run is well typed.
LEMMA InitTyped == Init => TypeInv
<1> SUFFICES ASSUME Init PROVE TypeInv
  OBVIOUS
<1>1. exec \in [Execs -> Exec]
  BY DEF Init, NewExec, Exec
<1>2. TypeOK
  BY <1>1 DEF Init, TypeOK
<1> QED BY <1>2 DEF Init, TypeInv, Unmarked, StoppingOK, NewExec

\* A move of a command keeps its type.
LEMMA CmdTyped ==
    ASSUME TypeOK, AllCmds
    PROVE  /\ cmd' \in [Cmds -> Done \cup {"none", "pending", "sent"}]
           /\ leg' \in [Cmds -> {"idle", "claimed", "out"}]
<1> SUFFICES ASSUME NEW c \in Cmds
             PROVE  /\ cmd'[c] \in Done \cup {"none", "pending", "sent"}
                    /\ leg'[c] \in {"idle", "claimed", "out"}
  BY DEF AllCmds, CmdFun
<1>1. /\ cmd[c] \in Done \cup {"none", "pending", "sent"}
      /\ leg[c] \in {"idle", "claimed", "out"}
  BY DEF TypeOK
<1> QED BY <1>1 DEF AllCmds, CmdMove, Done

\* A move of a process keeps its type.
LEMMA ProcTyped ==
    ASSUME TypeOK, AllProcs
    PROVE  /\ proc' \in [Execs -> {"none", "inbox", "running", "gone", "orphans"}]
           /\ stopper' \in [Execs -> Cancels \cup {None}]
<1> SUFFICES ASSUME NEW e \in Execs
             PROVE  /\ proc'[e] \in {"none", "inbox", "running", "gone", "orphans"}
                    /\ stopper'[e] \in Cancels \cup {None}
  BY DEF AllProcs, ProcFun
<1>1. /\ proc[e] \in {"none", "inbox", "running", "gone", "orphans"}
      /\ stopper[e] \in Cancels \cup {None}
  BY DEF TypeOK
<1> QED BY <1>1 DEF AllProcs, ProcMove

\* Every step keeps the types.
LEMMA NextTyped == TypeInv /\ [Next]_vars => TypeInv'
<1> SUFFICES ASSUME TypeInv, [Next]_vars PROVE TypeInv'
  OBVIOUS
<1>t. TypeOK
  BY DEF TypeInv
<1>1. ExecFun /\ \A e \in Execs : ExecMove(e)
  BY <1>t, ExecMoves
<1>2. AllCmds /\ AllProcs /\ ServerMove /\ BatchMove
  BY <1>t, CmdMoves, ProcMoves, ServerMoves, BatchMoves
<1>3. ASSUME NEW e \in Execs PROVE exec'[e] \in Exec /\ StoppingOK(e)'
  BY <1>1, <1>2, ExecFields DEF ServerMove
<1>4. exec' \in [Execs -> Exec]
  BY <1>1, <1>3 DEF ExecFun
<1>5. batch' \in Batch /\ slots' \in [Execs -> Nat]
  BY <1>t, <1>2 DEF BatchMove, SpendMove, TypeOK
<1>6. TypeOK'
  BY <1>2, <1>4, <1>5, <1>t, CmdTyped, ProcTyped
     DEF TypeOK, ServerMove, AllProcs, AgentMove, Batch
<1>7. Unmarked'
  BY <1>2 DEF ServerMove, TypeInv, Unmarked
<1> QED BY <1>3, <1>6, <1>7 DEF TypeInv

LEMMA TypeAlways == Spec => []TypeInv
BY InitTyped, NextTyped, PTL DEF Spec

\* Every reachable state of a run is well typed, for any devices and cancels.
THEOREM RunsTyped == Spec => []TypeOK
<1>1. TypeInv => TypeOK
  BY DEF TypeInv
<1> QED BY <1>1, TypeAlways, PTL

\* No closer, revert, sweep or late frame makes a decided execution live
\* again, and neither a cancelled one nor one that holds the agent's output
\* gets another status, whatever moves, restarts and gate faults there are.
THEOREM DecisionsStay == Spec => DecidedStays
<1> DEFINE Stays == \A e \in Execs : exec[e].status \in Final =>
              /\ exec'[e].status \in Final
              /\ exec[e].status = "cancelled" \/ exec[e].out =>
                    exec'[e].status = exec[e].status
<1>1. TypeInv /\ [Next]_vars => Stays
  <2> SUFFICES ASSUME TypeInv, [Next]_vars PROVE Stays
    OBVIOUS
  <2>1. (\A e \in Execs : ExecMove(e)) /\ ServerMove
    BY ExecMoves, ServerMoves DEF TypeInv
  <2> QED BY <2>1, ExecFields DEF ServerMove
<1>2. TypeInv /\ [Next]_vars => [Stays]_vars
  BY <1>1
<1> QED BY <1>2, TypeAlways, PTL DEF Spec, DecidedStays

-----------------------------------------------------------------------------
(* Honest and credited stops.                                              *)

\* Everything a step does, in terms of the moves.
Moved ==
    /\ AllCmds /\ AllProcs /\ ServerMove
    /\ \A e \in Execs : /\ ExecMove(e) /\ exec'[e] \in Exec
                        /\ exec'[e].status = "none" => exec[e].status = "none"

LEMMA StepMoves == ASSUME TypeInv, [Next]_vars PROVE Moved
<1>1. /\ AllCmds /\ AllProcs /\ ServerMove
      /\ \A e \in Execs : ExecMove(e)
  BY ExecMoves, CmdMoves, ProcMoves, ServerMoves DEF TypeInv
<1> QED BY <1>1, ExecFields DEF Moved, ServerMove

\* What is settled about one execution stays so: where its command is, that
\* its command was taken back, and that its process has stopped.
LEMMA DeliveryStays ==
    ASSUME TypeInv, StopInv, Moved, NEW e \in Execs
    PROVE  /\ DeliveryOK(e)'
           /\ cmd[e] = "cancelled" => cmd'[e] = "cancelled"
           /\ Stopped(e) => proc'[e] = "gone" \/ (proc'[e] = "inbox" /\ stopper'[e] # None)
<1>0. /\ e \in Cmds /\ e \notin Cancels /\ None \notin Cancels
      /\ DeliveryOK(e) /\ CmdMove(e) /\ ProcMove(e)
      /\ exec'[e].status = "none" => exec[e].status = "none"
  BY IdSets DEF Cmds, StopInv, Moved, AllCmds, AllProcs
<1>1. exec[e].status = "none" => cmd[e] = "none" /\ leg[e] = "idle" /\ proc[e] = "none"
  BY <1>0 DEF DeliveryOK
<1>2. cmd[e] = "cancelled" => cmd'[e] = "cancelled"
  BY <1>0, <1>1 DEF CmdMove, DeliveryOK
<1>3. Stopped(e) => proc'[e] = "gone" \/ (proc'[e] = "inbox" /\ stopper'[e] # None)
  BY <1>0, <1>1 DEF ProcMove, DeliveryOK, Stopped
<1>4. exec'[e].status = "none" => cmd'[e] = "none"
  BY <1>0, <1>1 DEF CmdMove, DeliveryOK
<1>5. cmd'[e] \in {"none", "pending", "cancelled"} => leg'[e] = "idle"
  BY <1>0, <1>1 DEF CmdMove, DeliveryOK, Done
<1>6. leg'[e] # "out" => proc'[e] = "none"
  <2>1. leg'[e] # "out" => leg[e] # "out"
    BY <1>0, <1>1 DEF CmdMove, DeliveryOK
  <2> QED BY <1>0, <2>1 DEF ProcMove, DeliveryOK
<1> QED BY <1>2, <1>3, <1>4, <1>5, <1>6 DEF DeliveryOK

\* What is known of one cancel stays known.
LEMMA CancelStays ==
    ASSUME TypeInv, StopInv, Moved, NEW k \in Cancels
    PROVE  CancelOK(k)' /\ ProvenOK(k)'
<1>0. /\ k \in Cmds /\ k \notin Execs /\ None \notin Execs
      /\ CancelOK(k) /\ ProvenOK(k) /\ CmdMove(k) /\ AgentMove
      /\ target[k] # None => target'[k] = target[k]
      /\ target[k] \in Execs \cup {None}
  BY IdSets DEF Cmds, StopInv, Moved, AllCmds, AllProcs, ServerMove, TypeInv, TypeOK
<1>1. CancelOK(k)'
  <2>1. SUFFICES ASSUME target'[k] = None
                 PROVE  cmd'[k] = "none" /\ leg'[k] = "idle" /\ k \notin waiting'
    BY DEF CancelOK
  <2>2. target[k] = None /\ cmd[k] = "none" /\ leg[k] = "idle" /\ k \notin waiting
    BY <1>0, <2>1 DEF CancelOK
  <2>3. cmd'[k] = "none" /\ leg'[k] = "idle"
    BY <1>0, <2>1, <2>2 DEF CmdMove
  <2>4. k \notin waiting'
    BY <1>0, <2>2 DEF AgentMove
  <2> QED BY <2>3, <2>4
<1>2. ProvenOK(k)'
  <2>0. Ack(k, "terminated")' = Ack(k, "terminated")
    BY DEF Ack
  <2>1. SUFFICES ASSUME Ack(k, "terminated") \in frames'
                 PROVE  target'[k] \in Execs /\ Stopped(target[k])'
    BY <2>0 DEF ProvenOK
  <2>2. CASE Ack(k, "terminated") \in frames
    <3>1. target[k] \in Execs /\ Stopped(target[k]) /\ target'[k] = target[k]
      BY <1>0, <2>2 DEF ProvenOK
    <3> QED BY <3>1, DeliveryStays DEF Stopped
  <2>3. CASE Ack(k, "terminated") \notin frames
    <3>1. /\ k \in waiting \/ leg[k] = "claimed"
          /\ target[k] \in Execs => Stopped(target[k])'
      BY <1>0, <2>1, <2>3 DEF AgentMove
    <3>2. target[k] \in Execs /\ target'[k] = target[k]
      BY <1>0, <3>1 DEF CancelOK
    <3> QED BY <3>1, <3>2
  <2> QED BY <2>2, <2>3
<1> QED BY <1>1, <1>2

\* What is reported of one execution stays true.
LEMMA ReportStays ==
    ASSUME TypeInv, StopInv, Moved, NEW e \in Execs
    PROVE  ScanOK(e)' /\ ConfirmedOK(e)' /\ CancelledOK(e)'
<1> DEFINE Proof(k) == Ack(k, "terminated") \in frames
<1>0. /\ exec[e] \in Exec /\ StoppingOK(e) /\ \A f \in handling : f.mark = None
      /\ ScanOK(e) /\ ConfirmedOK(e) /\ CancelledOK(e) /\ ExecMove(e)
      /\ \A k \in Cancels : ProvenOK(k)
      /\ \A f \in handling : HandlingOK(f)
  BY DEF TypeInv, TypeOK, Unmarked, StopInv, Moved
<1>1. /\ cmd[e] = "cancelled" => cmd'[e] = "cancelled"
      /\ Stopped(e) => Stopped(e)'
  BY DeliveryStays DEF Stopped
<1>2. frames \subseteq frames'
  BY DEF Moved, AllProcs, AgentMove
<1>3. ScanOK(e)'
  <2>1. \/ scan'[e] \in {scan[e], "none"}
        \/ (scan'[e] = "cancelled" => cmd'[e] = "cancelled")
    BY DEF Moved, ServerMove
  <2> QED BY <1>0, <1>1, <2>1 DEF ScanOK
<1>4. ~Moves => moving[e] = {} /\ moving'[e] = {}
  <2>1. Moves \/ moving'[e] \in {moving[e], {}}
    BY DEF Moved, ServerMove
  <2> QED BY <1>0, <2>1 DEF CancelledOK
<1>5. exec'[e].state = "confirmed" =>
         \/ exec[e].state = "confirmed" /\ exec'[e].by = exec[e].by
         \/ cmd'[e] = "cancelled"
         \/ exec'[e].by \in Cancels /\ Proof(exec'[e].by)
  <2>1. CASE exec'[e] = exec[e]
    BY <2>1
  <2>2. CASE \E s \in {"failed", "queued", "running", "pending"} : exec'[e] = NewExec(s)
    BY <2>2 DEF NewExec
  <2>3. CASE \E s \in Final : exec'[e] = [exec[e] EXCEPT !.status = s]
    BY <1>0, <2>3 DEF Exec
  <2>4. CASE cmd'[e] = "cancelled"
    BY <2>4
  <2>5. CASE exec'[e] = [exec[e] EXCEPT !.state = "unconfirmed", !.prev = exec[e].status]
    BY <1>0, <2>5 DEF Exec
  <2>6. CASE \E k \in Cancels : exec'[e] = [exec[e] EXCEPT !.status = "cancelling",
                                               !.state = "requested",
                                               !.prev = exec[e].status, !.by = k]
    BY <1>0, <2>6 DEF Exec
  <2>7. CASE \E f \in handling : f \in ScriptFrame /\ exec'[e] = ClosedBy(exec[e], f)
    BY <1>0, <2>7, ClosedByFields
  <2>8. CASE /\ exec[e].status = "cancelling"
             /\ \E f \in handling : /\ f \in AckFrame /\ exec[e].by = f.cmd
                                    /\ exec'[e] = Acked(exec[e], f.res)
    <3> PICK f \in handling : /\ f \in AckFrame /\ exec[e].by = f.cmd
                              /\ exec'[e] = Acked(exec[e], f.res)
      BY <2>8
    <3>1. /\ f.cmd \in Cancels /\ f.res \in {"terminated", "not_found", "kill_failed"}
          /\ exec[e].prev \in Live /\ f.mark = None
      BY <1>0, <2>8 DEF AckFrame, StoppingOK
    <3>2. exec'[e].by = f.cmd /\ (exec'[e].state = "confirmed" => f.res = "terminated")
      BY <1>0, <3>1, AckedFields
    <3>3. f.res = "terminated" => f = Ack(f.cmd, "terminated")
      BY <3>1 DEF AckFrame, Ack
    <3>4. f \in frames
      BY <1>0, <3>1 DEF HandlingOK
    <3> QED BY <3>1, <3>2, <3>3, <3>4
  <2>9. CASE \E s \in Live : exec'[e] = [exec[e] EXCEPT !.status = s, !.state = "unconfirmed"]
    BY <1>0, <2>9 DEF Exec
  <2> QED BY <1>0, <2>1, <2>2, <2>3, <2>4, <2>5, <2>6, <2>7, <2>8, <2>9 DEF ExecMove
<1>6. ConfirmedOK(e)'
  <2>1. Ack(exec[e].by, "terminated")' = Ack(exec'[e].by, "terminated")
    BY DEF Ack
  <2> QED BY <1>0, <1>1, <1>2, <1>5, <2>1 DEF ConfirmedOK
<1>7. exec'[e].status = "cancelled" =>
         \/ exec[e].status = "cancelled"
         \/ cmd'[e] = "cancelled" \/ moving[e] # {} \/ scan[e] = "cancelled"
         \/ \E k \in Cancels : target[k] = e /\ Proof(k)
  <2>0. exec[e].status \in Live \cup Final \cup {"none", "cancelling"}
    BY <1>0 DEF Exec
  <2>1. CASE exec'[e] = exec[e]
    BY <2>1
  <2>2. CASE \E s \in {"failed", "queued", "running", "pending"} : exec'[e] = NewExec(s)
    BY <2>2 DEF NewExec
  <2>3. CASE \E s \in Final : /\ exec'[e] = [exec[e] EXCEPT !.status = s]
                              /\ s = "cancelled" => \/ cmd'[e] = "cancelled"
                                                    \/ moving[e] # {} \/ scan[e] = s
    BY <1>0, <2>3 DEF Exec
  <2>4. CASE cmd'[e] = "cancelled"
    BY <2>4
  <2>5. CASE exec'[e] = [exec[e] EXCEPT !.state = "unconfirmed", !.prev = exec[e].status]
    BY <1>0, <2>5 DEF Exec
  <2>6. CASE \E k \in Cancels : exec'[e] = [exec[e] EXCEPT !.status = "cancelling",
                                               !.state = "requested",
                                               !.prev = exec[e].status, !.by = k]
    BY <1>0, <2>6 DEF Exec
  <2>7. CASE \E f \in handling : f \in ScriptFrame /\ exec'[e] = ClosedBy(exec[e], f)
    BY <1>0, <2>7, ClosedByFields
  <2>8. CASE /\ exec[e].status = "cancelling"
             /\ \E f \in handling : /\ f \in AckFrame /\ exec[e].by = f.cmd
                                    /\ exec'[e] = Acked(exec[e], f.res)
    <3> PICK f \in handling : /\ f \in AckFrame /\ exec[e].by = f.cmd
                              /\ exec'[e] = Acked(exec[e], f.res)
      BY <2>8
    <3>1. /\ f.cmd \in Cancels /\ f.res \in {"terminated", "not_found", "kill_failed"}
          /\ exec[e].prev \in Live /\ f.mark = None /\ target[f.cmd] = e
      BY <1>0, <2>8 DEF AckFrame, StoppingOK
    <3>2. exec'[e].status = "cancelled" => f.res = "terminated"
      BY <1>0, <3>1, AckedFields DEF Live
    <3>3. f.res = "terminated" => f = Ack(f.cmd, "terminated")
      BY <3>1 DEF AckFrame, Ack
    <3>4. f \in frames
      BY <1>0, <3>1 DEF HandlingOK
    <3> QED BY <3>1, <3>2, <3>3, <3>4
  <2>9. CASE \E s \in Live : exec'[e] = [exec[e] EXCEPT !.status = s, !.state = "unconfirmed"]
    BY <1>0, <2>9 DEF Exec, Live
  <2> QED BY <1>0, <2>1, <2>2, <2>3, <2>4, <2>5, <2>6, <2>7, <2>8, <2>9 DEF ExecMove
<1>8. CancelledOK(e)'
  <2>1. SUFFICES ASSUME ~Moves, exec'[e].status = "cancelled"
                 PROVE  cmd'[e] = "cancelled" \/ Stopped(e)'
    BY <1>4 DEF CancelledOK
  <2>2. ASSUME NEW k \in Cancels, target[k] = e, Proof(k) PROVE Stopped(e)
    BY <1>0, <2>2 DEF ProvenOK
  <2> QED BY <1>0, <1>1, <1>4, <1>7, <2>1, <2>2 DEF CancelledOK, ScanOK
<1> QED BY <1>3, <1>6, <1>8

\* A fresh run has stopped nothing.
LEMMA InitStop == Init => StopInv
<1> SUFFICES ASSUME Init PROVE StopInv
  OBVIOUS
<1>1. ASSUME NEW e \in Execs
      PROVE  DeliveryOK(e) /\ ScanOK(e) /\ ConfirmedOK(e) /\ CancelledOK(e)
  <2>1. e \in Cmds /\ exec[e] = NewExec("none") /\ cmd[e] = "none" /\ leg[e] = "idle"
    BY DEF Init, Cmds
  <2>2. exec[e].status = "none" /\ exec[e].state = "none"
    BY <2>1 DEF NewExec
  <2>3. proc[e] = "none" /\ scan[e] = "none" /\ moving[e] = {}
    BY DEF Init
  <2> QED BY <2>1, <2>2, <2>3 DEF DeliveryOK, ScanOK, ConfirmedOK, CancelledOK
<1>2. ASSUME NEW k \in Cancels PROVE CancelOK(k) /\ ProvenOK(k)
  BY DEF Init, Cmds, CancelOK, ProvenOK
<1> QED BY <1>1, <1>2 DEF StopInv, Init

\* Every step keeps what is known of the stops.
LEMMA NextStop == TypeInv /\ StopInv /\ [Next]_vars => StopInv'
<1> SUFFICES ASSUME TypeInv, StopInv, [Next]_vars PROVE StopInv'
  OBVIOUS
<1>1. Moved
  BY StepMoves
<1>2. ASSUME NEW e \in Execs
      PROVE  DeliveryOK(e)' /\ ScanOK(e)' /\ ConfirmedOK(e)' /\ CancelledOK(e)'
  BY <1>1, DeliveryStays, ReportStays
<1>3. ASSUME NEW k \in Cancels PROVE CancelOK(k)' /\ ProvenOK(k)'
  BY <1>1, CancelStays
<1>4. ASSUME NEW f \in handling' PROVE HandlingOK(f)'
  <2>1. frames \subseteq frames' /\ (f \in handling \/ (f.cmd \in Cancels => f \in frames))
    BY <1>1 DEF Moved, AllProcs, AgentMove, ServerMove
  <2>2. f \in handling => HandlingOK(f)
    BY DEF StopInv
  <2> QED BY <2>1, <2>2 DEF HandlingOK
<1> QED BY <1>2, <1>3, <1>4 DEF StopInv

LEMMA StopAlways == Spec => []StopInv
BY InitStop, NextStop, TypeAlways, PTL DEF Spec

\* An execution shows a confirmed stop only if its process never existed or
\* the cancel it names was answered `terminated`, whatever acknowledgements
\* are late, doubled or meant for another cancel of the same execution.
THEOREM CreditedStops == Spec => []CreditedStop
<1>1. StopInv => CreditedStop
  BY DEF StopInv, ConfirmedOK, DeliveryOK, CreditedStop
<1> QED BY <1>1, StopAlways, PTL

\* Unless devices are moved, an execution is reported cancelled only when
\* nothing of it runs and nothing of it can start, for any number of devices,
\* stops, restarts, and late or repeated frames.  A move that has selected a
\* command a claim then takes is exactly what breaks this.
THEOREM HonestCancels == ASSUME ~Moves PROVE Spec => []HonestCancel
<1>1. ASSUME StopInv PROVE HonestCancel
  <2> SUFFICES ASSUME NEW e \in Execs, exec[e].status = "cancelled" PROVE ~MayRun(e)
    BY DEF HonestCancel
  <2>1. (cmd[e] = "cancelled" \/ Stopped(e)) /\ DeliveryOK(e)
    BY <1>1 DEF StopInv, CancelledOK
  <2> QED BY <2>1 DEF DeliveryOK, Stopped, MayRun
<1>2. StopInv => HonestCancel
  BY <1>1
<1> QED BY <1>2, StopAlways, PTL

-----------------------------------------------------------------------------
(* The counters of the batch.                                              *)

\* A fresh batch has counted no device.
LEMMA InitSlots == Init => SlotInv
<1> SUFFICES ASSUME Init PROVE SlotInv
  OBVIOUS
<1>1. Spent = {}
  BY DEF Init, Spent
<1> QED BY <1>1, FS_EmptySet DEF Init, SlotInv

\* A slot is spent only by the step that ends its execution, so never twice.
LEMMA NextSlots ==
    ASSUME ~GateFaults, TypeInv, SlotInv, [Next]_vars
    PROVE  SlotInv'
<1>1. /\ BatchMove
      /\ \A e \in Execs : exec[e].status \in Final => exec'[e].status \in Final
  <2>1. (\A e \in Execs : ExecMove(e)) /\ ServerMove
    BY ExecMoves, ServerMoves DEF TypeInv
  <2> QED BY <2>1, BatchMoves, ExecFields DEF ServerMove, TypeInv
<1>2. slots \in [Execs -> Nat] /\ batch.completed \in Nat /\ batch.failed \in Nat
  BY DEF TypeInv, TypeOK
<1>3. CASE /\ UNCHANGED slots
           /\ batch'.completed = batch.completed /\ batch'.failed = batch.failed
  <2>1. Spent' = Spent
    BY <1>3 DEF Spent
  <2> QED BY <1>1, <1>3, <2>1 DEF SlotInv
<1>4. ASSUME NEW e \in Execs, SpendMove(e),
             exec[e].status \notin Final /\ exec'[e].status \in Final
      PROVE  SlotInv'
  <2>1. slots[e] = 0 /\ slots' = [slots EXCEPT ![e] = 1]
    <3>1. slots[e] = 0
      BY <1>4 DEF SlotInv
    <3>2. slots' = [slots EXCEPT ![e] = slots[e] + 1]
      BY <1>4 DEF SpendMove
    <3> QED BY <3>1, <3>2
  <2>2. e \notin Spent /\ Spent' = Spent \cup {e}
    BY <1>2, <2>1 DEF Spent
  <2>3. IsFiniteSet(Spent)
    BY IdSets, FS_Subset DEF Spent
  <2>4. Cardinality(Spent') = Cardinality(Spent) + 1
    BY <2>2, <2>3, FS_AddElement
  <2>5. \A d \in Execs : slots'[d] = 0 \/ (slots'[d] = 1 /\ exec'[d].status \in Final)
    BY <1>1, <1>2, <1>4, <2>1 DEF SlotInv
  <2> QED BY <1>4, <2>4, <2>5 DEF SlotInv, SpendMove
<1> QED BY <1>1, <1>3, <1>4 DEF BatchMove

\* No device is counted twice in its batch and the counters never exceed the
\* devices, whoever ends the executions and in whatever order; the exception
\* is a secret gate whose lookup throws in the middle of the dispatch.
THEOREM SlotsOnce == ASSUME ~GateFaults PROVE Spec => []SlotOnce
<1>1. ASSUME TypeInv, SlotInv PROVE SlotOnce
  <2>1. Spent \subseteq Execs /\ IsFiniteSet(Execs)
    BY IdSets DEF Spent
  <2>2. Cardinality(Spent) <= Cardinality(Execs)
    BY <2>1, FS_Subset
  <2> QED BY <1>1, <2>2 DEF SlotInv, SlotOnce
<1>2. TypeInv /\ SlotInv => SlotOnce
  BY <1>1
<1>3. TypeInv /\ SlotInv /\ [Next]_vars => SlotInv'
  BY NextSlots
<1> QED BY <1>2, <1>3, InitSlots, TypeAlways, PTL DEF Spec
=============================================================================
