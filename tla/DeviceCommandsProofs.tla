------------------------ MODULE DeviceCommandsProofs ------------------------
(***************************************************************************)
(* Theorems about DeviceCommands for every set of commands, every mix of   *)
(* command types and every bound.                                          *)
(***************************************************************************)
EXTENDS DeviceCommands, TLAPS

-----------------------------------------------------------------------------
(* Lemmas about the conditional writes of one row.                         *)

\* Every write of a row yields a row.
LEMMA RowWrites ==
    ASSUME NEW r \in Row, NEW t \in Nat
    PROVE  /\ Claimed(r, t) \in Row
           /\ Released(r, t) \in Row
           /\ Rearmed(r) \in Row
           /\ \A s \in Status, mk \in Mark : Terminated(r, s, mk) \in Row
           /\ NoRow \in Row
           /\ \A u \in Nat : NewRow(u, t) \in Row
<1>1. Claimed(r, t) \in Row
  BY DEF Claimed, Row, Status, Live
<1>2. Released(r, t) \in Row
  BY DEF Released, Row, Status, Live, Null
<1>3. Rearmed(r) \in Row
  <2>1. [r EXCEPT !.status = "pending", !.executedAt = Null, !.mark = "none"] \in Row
    BY DEF Row, Status, Live, Mark, Null
  <2> QED BY <2>1 DEF Rearmed
<1>4. \A s \in Status, mk \in Mark : Terminated(r, s, mk) \in Row
  BY DEF Terminated, Row
<1>5. NoRow \in Row
  BY DEF NoRow, Row, Status, Mark, Null
<1>6. \A u \in Nat : NewRow(u, t) \in Row
  BY DEF NewRow, NoRow, Row, Status, Live, Mark, Null
<1> QED BY <1>1, <1>2, <1>3, <1>4, <1>5, <1>6

\* The fields a write leaves behind.
LEMMA RowFields ==
    ASSUME NEW r \in Row, NEW t \in Nat
    PROVE  /\ Claimed(r, t).status = "sent" /\ Claimed(r, t).mark = r.mark
           /\ Rearmed(r).status = "pending" \/ Rearmed(r) = r
           /\ \A s \in Status, mk \in Mark :
                 /\ Terminated(r, s, mk).status = s
                 /\ Terminated(r, s, mk).mark = mk
           /\ \A u \in Nat : /\ NewRow(u, t).status = "pending"
                             /\ NewRow(u, t).mark = "none"
BY DEF Claimed, Rearmed, Terminated, NewRow, NoRow, Row

\* The reaper only finds live rows due, and its verdict is a server-side
\* timeout.
LEMMA VerdictType ==
    ASSUME NEW r \in Row, NEW t \in Nat, NEW e \in Nat
    PROVE  /\ ReapVerdict(r, t, e) \in ServerTimeout \cup {"none"}
           /\ ReapVerdict(r, t, e) # "none" => r.status \in Live
BY DEF ReapVerdict, ServerTimeout, Live, Row, Status

-----------------------------------------------------------------------------
LEMMA InitTypeOK == Init => TypeOK
BY RowWrites DEF Init, TypeOK, NoRow, Row, Status, Live, Terminal, Mark, ServerTimeout,
   Outcome, Null, PC, AllRoutes, IdleTx, NotSeen, Observation, Attempt, Frame

LEMMA TypeRequest ==
    ASSUME TypeOK, NEW c \in Commands, Request(c)
    PROVE  TypeOK'
<1> USE DEF TypeOK
<1>1. ASSUME NEW r \in Routes, Enqueue(c, r) PROVE TypeOK'
  <2>1. PICK d \in {Null, now + DeliverWithin} :
           row' = [row EXCEPT ![c] = NewRow(now, d)]
    BY <1>1 DEF Enqueue, Deadlines
  <2>2. d \in Nat BY Bounds DEF Null
  <2>3. NewRow(now, d) \in Row
    BY <2>2, RowWrites DEF NoRow, Row, NewRow, Status, Live, Mark, Null
  <2>4. r \in AllRoutes BY TypeSets
  <2> QED BY <1>1, <2>1, <2>3, <2>4 DEF Enqueue, PC
<1>2. ASSUME CountInFlight(c) PROVE TypeOK'
  BY <1>2 DEF CountInFlight, AfterPush, PC
<1>3. ASSUME PushClaim(c) PROVE TypeOK'
  <2>1. Terminated(row[c], "cancelled", "cancelled") \in Row /\ Claimed(row[c], now) \in Row
    BY RowWrites DEF Status, Terminal, Mark
  <2> QED BY <1>3, <2>1 DEF PushClaim, AfterPush, PC, Attempt
<1>4. ASSUME WaitReturn(c) PROVE TypeOK'
  BY <1>4 DEF WaitReturn, PC, Row
<1>5. ASSUME WaitDeadline(c) PROVE TypeOK'
  <2>1. Terminated(row[c], "failed", "timeout") \in Row
    BY RowWrites DEF Status, Terminal, Mark, ServerTimeout
  <2> QED BY <1>5, <2>1 DEF WaitDeadline, PC
<1>6. ASSUME WaitReread(c) PROVE TypeOK'
  BY <1>6 DEF WaitReread, PC, Row
<1>7. ASSUME StopCheck(c) PROVE TypeOK'
  BY <1>7 DEF StopCheck, PC
<1>8. ASSUME Rearm(c) PROVE TypeOK'
  BY <1>8, RowWrites DEF Rearm, PC
<1> QED BY <1>1, <1>2, <1>3, <1>4, <1>5, <1>6, <1>7, <1>8 DEF Request

LEMMA TypePoll ==
    ASSUME TypeOK, NEW k \in Claimers, Poll(k)
    PROVE  TypeOK'
<1> USE DEF TypeOK
<1>1. ASSUME ClaimSelect(k) PROVE TypeOK'
  BY <1>1 DEF ClaimSelect, Candidates
<1>2. ASSUME ClaimCommit(k) PROVE TypeOK'
  <2>1. \A c \in Commands : /\ Terminated(row[c], "cancelled", "cancelled") \in Row
                            /\ Claimed(row[c], now) \in Row
    BY RowWrites DEF Status, Terminal, Mark
  <2>2. row' \in [Commands -> Row] BY <1>2, <2>1 DEF ClaimCommit
  <2>3. attempts' \subseteq Attempt BY <1>2 DEF ClaimCommit, Attempt
  <2> QED BY <1>2, <2>2, <2>3 DEF ClaimCommit, IdleTx
<1>3. ASSUME ClaimAbort(k) PROVE TypeOK'
  BY <1>3 DEF ClaimAbort, IdleTx
<1> QED BY <1>1, <1>2, <1>3 DEF Poll

LEMMA TypeDeliver ==
    ASSUME TypeOK, NEW a \in attempts, Deliver(a)
    PROVE  TypeOK'
<1> USE DEF TypeOK
<1>0. a \in Attempt /\ a.cmd \in Commands /\ a.stamp \in Nat BY DEF Attempt
<1>1. ASSUME SendOk(a) PROVE TypeOK'
  BY <1>0, <1>1 DEF SendOk, Receive, Resume, AfterPush, PC
<1>2. ASSUME Strand(a) PROVE TypeOK'
  BY <1>0, <1>2 DEF Strand, Resume, AfterPush, PC
<1>3. ASSUME SendFailed(a) PROVE TypeOK'
  <2>1. Released(row[a.cmd], a.stamp) \in Row BY <1>0, RowWrites
  <2>2. row' \in [Commands -> Row] BY <1>0, <1>3, <2>1 DEF SendFailed
  <2>3. got' \in [Commands -> Nat]
    BY <1>0, <1>3 DEF SendFailed, Receive
  <2>4. pc' \in [Commands -> PC]
    BY <1>0, <1>3 DEF SendFailed, Resume, AfterPush, PC
  <2> QED BY <1>3, <2>2, <2>3, <2>4 DEF SendFailed
<1>4. ASSUME GateRefuse(a) PROVE TypeOK'
  <2>1. Terminated(row[a.cmd], "failed", "failed") \in Row
    BY <1>0, RowWrites DEF Status, Terminal, Mark, Outcome
  <2> QED BY <1>0, <1>4, <2>1 DEF GateRefuse
<1> QED BY <1>1, <1>2, <1>3, <1>4 DEF Deliver

LEMMA TypeAgent ==
    ASSUME TypeOK, NEW c \in Commands, Agent(c)
    PROVE  TypeOK'
<1> USE DEF TypeOK
<1>1. ASSUME NEW f \in Frame, AgentReport(c, f) PROVE TypeOK'
  BY <1>1 DEF AgentReport
<1>2. ASSUME NEW f \in Frame, IngestResult(c, f) PROVE TypeOK'
  <2>1. /\ Terminated(row[c], "completed", "queue_ack") \in Row
        /\ Terminated(row[c], "failed", "timeout") \in Row
        /\ f \in Outcome => Terminated(row[c], f, f) \in Row
    BY RowWrites DEF Status, Terminal, Mark, Outcome, ServerTimeout
  <2> QED BY <1>2, <2>1 DEF IngestResult
<1> QED BY <1>1, <1>2 DEF Agent

LEMMA TypeReaper ==
    ASSUME TypeOK
    PROVE  /\ ReapScan => TypeOK'
           /\ \A c \in Commands : ReapRow(c) \/ CancelQueued(c) => TypeOK'
<1> USE DEF TypeOK
<1>1. ASSUME ReapScan PROVE TypeOK'
  <2>1. ASSUME NEW c \in Commands, ReapVerdict(row[c], now, ExecTimeout) # "none"
        PROVE  [status |-> row[c].status, executedAt |-> row[c].executedAt,
                verdict |-> ReapVerdict(row[c], now, ExecTimeout)] \in Observation
    BY <2>1, VerdictType, Bounds DEF Observation, Row
  <2> QED BY <1>1, <2>1 DEF ReapScan
<1>2. ASSUME NEW c \in Commands, ReapRow(c) PROVE TypeOK'
  <2>1. seen[c] \in Observation BY <1>2 DEF ReapRow
  <2>2. Terminated(row[c], "failed", seen[c].verdict) \in Row
    BY <2>1, RowWrites DEF Observation, Status, Terminal, Mark
  <2> QED BY <1>2, <2>2 DEF ReapRow
<1>3. ASSUME NEW c \in Commands, CancelQueued(c) PROVE TypeOK'
  <2>1. Terminated(row[c], "cancelled", "cancelled") \in Row
    BY RowWrites DEF Status, Terminal, Mark
  <2> QED BY <1>3, <2>1 DEF CancelQueued
<1> QED BY <1>1, <1>2, <1>3

LEMMA TypeStep == TypeOK /\ [Next]_vars => TypeOK'
<1> SUFFICES ASSUME TypeOK, [Next]_vars PROVE TypeOK'
  OBVIOUS
<1>1. CASE Tick BY <1>1 DEF Tick, TypeOK
<1>2. CASE UNCHANGED vars BY <1>2 DEF vars, TypeOK
<1> QED BY <1>1, <1>2, TypeRequest, TypePoll, TypeDeliver, TypeAgent, TypeReaper DEF Next

\* Every reachable state of the queue is well typed.
THEOREM TypeCorrect == Spec => []TypeOK
BY InitTypeOK, TypeStep, PTL DEF Spec

-----------------------------------------------------------------------------
(***************************************************************************)
(* The inductive invariant.  Its first part is bookkeeping that each write *)
(* relies on; HandOver is why a copy is delivered once: a claimable row    *)
(* has no copy out and no attempt in progress, and an attempt is the only  *)
(* one of its row and has not delivered yet.                               *)
(***************************************************************************)

\* A row that is not terminal stores no result, and a claim has a timestamp.
RowInv ==
    \A c \in Commands :
        /\ row[c].status \in Live \cup {"none"} => row[c].mark = "none"
        /\ row[c].status = "sent" => row[c].executedAt # Null

\* Only the desktop stop is re-armed, and nobody waits for it.
StopInv ==
    \A c \in Commands :
        /\ pc[c] = "stopping" => c \in Rearmable
        /\ c \in Rearmable => /\ route[c] = "queue"
                              /\ pc[c] \notin {"waiting", "reread"}
                              /\ told[c] = "none"

\* The reaper blames delivery only for a row it read as pending.
SeenInv ==
    \A c \in Commands :
        seen[c] # NotSeen /\ seen[c].verdict \in {"expired", "unreceived"}
            => seen[c].status = "pending"

\* Only a queued backup is acknowledged.
AckInv == \A c \in Commands : "ack" \in frames[c] => c \in QueuedBackup

Base == now # Null /\ RowInv /\ StopInv /\ SeenInv /\ AckInv

HandOver ==
    ~GhostSends =>
        \A c \in Commands \ Rearmable :
            /\ got[c] <= 1
            /\ row[c].status \in {"none", "pending"} \/ row[c].mark \in {"expired", "unreceived"}
                   => got[c] = 0 /\ \A a \in attempts : a.cmd # c
            /\ \A a \in attempts : a.cmd = c =>
                   got[c] = 0 /\ \A b \in attempts : b.cmd = c => b = a

\* An accepted result is final.
Final ==
    \A c \in Commands \ Rearmable :
        /\ accepted[c] <= 1
        /\ accepted[c] = 1 => row[c].status \in Outcome /\ row[c].mark \in Outcome

-----------------------------------------------------------------------------
\* Everything a step may do to a row.
RowMove(c) ==
    \/ row'[c] = row[c]
    \/ /\ row[c].status = "none"
       /\ \E d \in Nat : row'[c] = NewRow(now, d)
    \/ row[c].status = "pending" /\ row'[c] = Claimed(row[c], now)
    \/ /\ row[c].status = "sent"
       /\ row'[c] = [row[c] EXCEPT !.status = "pending", !.executedAt = Null]
    \/ /\ row[c].status \in Live
       /\ \/ row'[c] = Terminated(row[c], "cancelled", "cancelled")
          \/ \E mk \in ServerTimeout \cup {"failed"} :
                row'[c] = Terminated(row[c], "failed", mk)
    \/ /\ AcceptsAgentResult(row[c], c \in Diagnostic, c \in QueuedBackup)
       /\ \/ /\ c \in QueuedBackup
             /\ row'[c] = Terminated(row[c], "completed", "queue_ack")
          \/ row'[c] = Terminated(row[c], "failed", "timeout")
          \/ \E f \in Outcome : row'[c] = Terminated(row[c], f, f)
    \/ /\ c \in Rearmable
       /\ row[c].status \in Live \cup {"failed", "completed"}
       /\ row'[c] = Rearmed(row[c])

\* A step changes a row only by one of these moves.
LEMMA RowMoves ==
    ASSUME TypeOK, Base, [Next]_vars, NEW c \in Commands
    PROVE  RowMove(c)
<1> USE DEF TypeOK
<1>1. ASSUME NEW d \in Commands, Request(d) PROVE RowMove(c)
  <2>1. ASSUME NEW r \in Routes, Enqueue(d, r) PROVE RowMove(c)
    <3>1. \A x \in Deadlines(d, r) : x \in Nat BY Bounds DEF Deadlines, Null
    <3> QED BY <2>1, <3>1 DEF Enqueue, RowMove
  <2>2. ASSUME PushClaim(d) PROVE RowMove(c)
    BY <2>2 DEF PushClaim, RowMove, Live
  <2>3. ASSUME WaitDeadline(d) PROVE RowMove(c)
    BY <2>3 DEF WaitDeadline, RowMove, ServerTimeout
  <2>4. ASSUME Rearm(d) PROVE RowMove(c)
    BY <2>4 DEF Rearm, RowMove, Base, StopInv, Rearmed
  <2>5. CASE row' = row BY <2>5 DEF RowMove
  <2> QED BY <1>1, <2>1, <2>2, <2>3, <2>4, <2>5
       DEF Request, CountInFlight, WaitReturn, WaitReread, StopCheck
<1>2. ASSUME NEW k \in Claimers, Poll(k) PROVE RowMove(c)
  <2>1. CASE ClaimCommit(k)
    <3>1. \/ row'[c] = row[c]
          \/ row[c].status = "pending" /\ row'[c] = Claimed(row[c], now)
          \/ /\ row[c].status = "pending"
             /\ row'[c] = Terminated(row[c], "cancelled", "cancelled")
      BY <2>1 DEF ClaimCommit
    <3> QED BY <3>1 DEF RowMove, Live
  <2>2. CASE row' = row BY <2>2 DEF RowMove
  <2> QED BY <1>2, <2>1, <2>2 DEF Poll, ClaimSelect, ClaimAbort
<1>3. ASSUME NEW a \in attempts, Deliver(a) PROVE RowMove(c)
  <2>1. a.cmd \in Commands BY DEF Attempt
  <2>2. CASE SendFailed(a) BY <2>1, <2>2 DEF SendFailed, Released, RowMove
  <2>3. CASE GateRefuse(a) BY <2>1, <2>3 DEF GateRefuse, RowMove, Live
  <2>4. CASE row' = row BY <2>4 DEF RowMove
  <2> QED BY <1>3, <2>2, <2>3, <2>4 DEF Deliver, SendOk, Strand
<1>4. ASSUME NEW d \in Commands, Agent(d) PROVE RowMove(c)
  <2>1. ASSUME NEW f \in Frame, IngestResult(d, f) PROVE RowMove(c)
    BY <2>1 DEF IngestResult, RowMove, Base, AckInv
  <2>2. CASE row' = row BY <2>2 DEF RowMove
  <2> QED BY <1>4, <2>1, <2>2 DEF Agent, AgentReport
<1>5. ASSUME NEW d \in Commands, ReapRow(d) PROVE RowMove(c)
  <2>1. seen[d] \in Observation BY <1>5 DEF ReapRow
  <2>2. seen[d].verdict \in ServerTimeout /\ seen[d].status \in Live
    BY <2>1 DEF Observation
  <2> QED BY <1>5, <2>2 DEF ReapRow, ReapGuard, RowMove
<1>6. ASSUME NEW d \in Commands, CancelQueued(d) PROVE RowMove(c)
  BY <1>6 DEF CancelQueued, RowMove, Live
<1>7. CASE ReapScan \/ Tick \/ UNCHANGED vars
  BY <1>7 DEF ReapScan, Tick, vars, RowMove
<1> QED BY <1>1, <1>2, <1>3, <1>4, <1>5, <1>6, <1>7 DEF Next

-----------------------------------------------------------------------------
\* Who writes what: the clock, the reaper's notes, the agent's frames, the
\* count of accepted results and the answers to callers each have one writer.
LEMMA Writers ==
    ASSUME [Next]_vars
    PROVE  /\ Tick \/ UNCHANGED now
           /\ ReapScan \/ (\E d \in Commands : ReapRow(d)) \/ UNCHANGED seen
           /\ (\E d \in Commands, f \in Frame : AgentReport(d, f)) \/ UNCHANGED frames
           /\ (\E d \in Commands, f \in Frame : IngestResult(d, f)) \/ UNCHANGED accepted
           /\ (\E d \in Commands : WaitReturn(d) \/ WaitReread(d)) \/ UNCHANGED told
<1> DEFINE Others == UNCHANGED <<now, seen, frames, accepted, told>>
           Goal == /\ Tick \/ UNCHANGED now
                   /\ ReapScan \/ (\E d \in Commands : ReapRow(d)) \/ UNCHANGED seen
                   /\ \/ \E d \in Commands, f \in Frame : AgentReport(d, f)
                      \/ UNCHANGED frames
                   /\ \/ \E d \in Commands, f \in Frame : IngestResult(d, f)
                      \/ UNCHANGED accepted
                   /\ \/ \E d \in Commands : WaitReturn(d) \/ WaitReread(d)
                      \/ UNCHANGED told
<1> SUFFICES Goal OBVIOUS
<1>0. CASE Others BY <1>0
<1>1. ASSUME NEW d \in Commands, Request(d) PROVE Goal
  <2>1. ASSUME NEW r \in Routes, Enqueue(d, r) PROVE Others BY <2>1 DEF Enqueue
  <2>2. CASE CountInFlight(d) \/ PushClaim(d) \/ WaitDeadline(d) \/ StopCheck(d)
             \/ Rearm(d)
    <3>1. Others
      BY <2>2 DEF CountInFlight, PushClaim, WaitDeadline, StopCheck, Rearm
    <3> QED BY <1>0, <3>1
  <2>3. CASE WaitReturn(d) \/ WaitReread(d)
    <3>1. UNCHANGED <<now, seen, frames, accepted>>
      BY <2>3 DEF WaitReturn, WaitReread
    <3> QED BY <2>3, <3>1
  <2> QED BY <1>0, <1>1, <2>1, <2>2, <2>3 DEF Request
<1>2. ASSUME NEW k \in Claimers, Poll(k) PROVE Others
  BY <1>2 DEF Poll, ClaimSelect, ClaimCommit, ClaimAbort
<1>3. ASSUME NEW a \in attempts, Deliver(a) PROVE Others
  BY <1>3 DEF Deliver, SendOk, Strand, SendFailed, GateRefuse
<1>4. ASSUME NEW d \in Commands, Agent(d) PROVE Goal
  <2>1. ASSUME NEW f \in Frame, AgentReport(d, f) PROVE Goal
    <3>1. UNCHANGED <<now, seen, accepted, told>> BY <2>1 DEF AgentReport
    <3> QED BY <2>1, <3>1
  <2>2. ASSUME NEW f \in Frame, IngestResult(d, f) PROVE Goal
    <3>1. UNCHANGED <<now, seen, frames, told>> BY <2>2 DEF IngestResult
    <3> QED BY <2>2, <3>1
  <2> QED BY <1>4, <2>1, <2>2 DEF Agent
<1>5. ASSUME NEW d \in Commands, ReapRow(d) PROVE Goal
  <2>1. UNCHANGED <<now, frames, accepted, told>> BY <1>5 DEF ReapRow
  <2> QED BY <1>5, <2>1
<1>6. ASSUME NEW d \in Commands, CancelQueued(d) PROVE Others
  BY <1>6 DEF CancelQueued
<1>7. CASE ReapScan
  <2>1. UNCHANGED <<now, frames, accepted, told>> BY <1>7 DEF ReapScan
  <2> QED BY <1>7, <2>1
<1>8. CASE Tick
  <2>1. UNCHANGED <<seen, frames, accepted, told>> BY <1>8 DEF Tick
  <2> QED BY <1>8, <2>1
<1>9. CASE UNCHANGED vars
  <2>1. Others BY <1>9 DEF vars
  <2> QED BY <1>0, <2>1
<1> QED BY <1>0, <1>1, <1>2, <1>3, <1>4, <1>5, <1>6, <1>7, <1>8, <1>9 DEF Next

-----------------------------------------------------------------------------
\* How the moves of one row bear on the row part of the invariant.
LEMMA MoveRowInv ==
    ASSUME TypeOK, Base, NEW c \in Commands, RowMove(c)
    PROVE  /\ row'[c].status \in Live \cup {"none"} => row'[c].mark = "none"
           /\ row'[c].status = "sent" => row'[c].executedAt # Null
<1> USE DEF TypeOK, Base, RowInv, Row
<1>1. row[c] \in Row BY DEF Row
<1> DEFINE Goal == /\ row'[c].status \in Live \cup {"none"} => row'[c].mark = "none"
                   /\ row'[c].status = "sent" => row'[c].executedAt # Null
<1>2. CASE row'[c] = row[c]
  BY <1>2
<1>3. CASE \E d \in Nat : row'[c] = NewRow(now, d)
  BY <1>3 DEF NewRow, NoRow
<1>4. CASE row[c].status = "pending" /\ row'[c] = Claimed(row[c], now)
  BY <1>1, <1>4 DEF Claimed, Live
<1>5. CASE /\ row[c].status = "sent"
           /\ row'[c] = [row[c] EXCEPT !.status = "pending", !.executedAt = Null]
  BY <1>1, <1>5 DEF Live
<1>6. ASSUME NEW s \in Terminal, NEW mk, row'[c] = Terminated(row[c], s, mk) PROVE Goal
  BY <1>1, <1>6 DEF Terminated, Live, Terminal
<1>7. CASE /\ row[c].status \in Live \cup {"failed", "completed"}
           /\ row'[c] = Rearmed(row[c])
  BY <1>1, <1>7 DEF Rearmed, Live
<1> QED BY <1>2, <1>3, <1>4, <1>5, <1>6, <1>7 DEF RowMove, Terminal, Outcome

LEMMA BaseStep ==
    ASSUME TypeOK, Base, [Next]_vars
    PROVE  Base'
<1>1. (now # Null)'
  <2>1. CASE Tick BY <2>1 DEF Tick, TypeOK, Null
  <2>2. CASE UNCHANGED now BY <2>2 DEF Base
  <2> QED BY <2>1, <2>2, Writers
<1>2. RowInv' BY RowMoves, MoveRowInv DEF RowInv
<1>3. StopInv'
  <2> USE DEF TypeOK, Base, StopInv
  <2>1. ASSUME NEW d \in Commands, Request(d) PROVE StopInv'
    <3>1. ASSUME NEW r \in Routes, Enqueue(d, r) PROVE StopInv'
      BY <3>1 DEF Enqueue
    <3>2. CASE CountInFlight(d) BY <3>2 DEF CountInFlight, AfterPush
    <3>3. CASE PushClaim(d) BY <3>3 DEF PushClaim, AfterPush
    <3>4. CASE WaitReturn(d) BY <3>4 DEF WaitReturn
    <3>5. CASE WaitDeadline(d) BY <3>5 DEF WaitDeadline
    <3>6. CASE WaitReread(d) BY <3>6 DEF WaitReread
    <3>7. CASE StopCheck(d) BY <3>7 DEF StopCheck
    <3>8. CASE Rearm(d) BY <3>8 DEF Rearm
    <3> QED BY <2>1, <3>1, <3>2, <3>3, <3>4, <3>5, <3>6, <3>7, <3>8 DEF Request
  <2>2. ASSUME NEW a \in attempts, Deliver(a) PROVE StopInv'
    <3>1. a.cmd \in Commands BY DEF Attempt
    <3> QED BY <2>2, <3>1 DEF Deliver, SendOk, Strand, SendFailed, GateRefuse, Resume, AfterPush
  <2>3. CASE UNCHANGED <<pc, route, told>> BY <2>3
  <2> QED BY <2>1, <2>2, <2>3 DEF Next, vars, Poll, ClaimSelect, ClaimCommit, ClaimAbort,
          Agent, AgentReport, IngestResult, ReapScan, ReapRow, CancelQueued, Tick
<1>4. SeenInv'
  <2> USE DEF TypeOK, Base, SeenInv
  <2>1. CASE ReapScan
    <3>1. ASSUME NEW c \in Commands,
                 ReapVerdict(row[c], now, ExecTimeout) \in {"expired", "unreceived"}
          PROVE  row[c].status = "pending"
      BY <3>1 DEF ReapVerdict, RowInv, Live, Null
    <3> QED BY <2>1, <3>1 DEF ReapScan
  <2>2. ASSUME NEW d \in Commands, ReapRow(d) PROVE SeenInv'
    BY <2>2 DEF ReapRow
  <2>3. CASE UNCHANGED seen BY <2>3
  <2> QED BY <2>1, <2>2, <2>3, Writers
<1>5. AckInv'
  <2> USE DEF TypeOK, Base, AckInv
  <2>1. ASSUME NEW d \in Commands, NEW f \in Frame, AgentReport(d, f) PROVE AckInv'
    BY <2>1 DEF AgentReport
  <2>2. CASE UNCHANGED frames BY <2>2
  <2> QED BY <2>1, <2>2, Writers
<1> QED BY <1>1, <1>2, <1>3, <1>4, <1>5 DEF Base

LEMMA InitBase == Init => Base
BY DEF Init, Base, RowInv, StopInv, SeenInv, AckInv, NoRow, Null, Live, NotSeen

LEMMA BaseAlways == Spec => [](TypeOK /\ Base)
<1>1. Init => TypeOK /\ Base BY InitTypeOK, InitBase
<1>2. TypeOK /\ Base /\ [Next]_vars => TypeOK' /\ Base' BY TypeStep, BaseStep
<1> QED BY <1>1, <1>2, PTL DEF Spec

-----------------------------------------------------------------------------
(* Delivery at most once.                                                  *)

\* A step that leaves attempts and copies alone keeps HandOver: no move makes
\* a row claimable again without the attempt that claimed it.
LEMMA HandOverQuiet ==
    ASSUME TypeOK, Base, HandOver, [Next]_vars, UNCHANGED <<attempts, got>>,
           \A c \in Commands \ Rearmable :
              \/ row'[c].status \notin {"none", "pending"}
              \/ row[c].status \in {"none", "pending"},
           \A c \in Commands \ Rearmable :
              row'[c].mark \in {"expired", "unreceived"} =>
                  \/ row[c].status = "pending"
                  \/ row[c].mark \in {"expired", "unreceived"}
    PROVE  HandOver'
BY DEF HandOver

LEMMA HandOverStep ==
    ASSUME TypeOK, Base, HandOver, [Next]_vars
    PROVE  HandOver'
<1> SUFFICES ASSUME ~GhostSends PROVE HandOver'
  BY DEF HandOver
<1> USE DEF TypeOK
<1>1. ASSUME NEW d \in Commands, PushClaim(d) PROVE HandOver'
  <2>1. CASE UNCHANGED <<row, attempts>>
    BY <1>1, <2>1 DEF PushClaim, HandOver
  <2>2. CASE /\ row[d].status = "pending" /\ UNCHANGED attempts
             /\ row' = [row EXCEPT ![d] = Terminated(@, "cancelled", "cancelled")]
    <3>1. row'[d].status = "cancelled" /\ row'[d].mark = "cancelled"
      BY <2>2, RowFields DEF Status, Terminal, Mark
    <3>2. \A c \in Commands \ {d} : row'[c] = row[c]
      BY <2>2
    <3>3. got' = got
      BY <1>1 DEF PushClaim
    <3> QED BY <2>2, <3>1, <3>2, <3>3, HandOverQuiet
  <2>3. CASE /\ row[d].status = "pending"
             /\ row' = [row EXCEPT ![d] = Claimed(@, now)]
             /\ attempts' = attempts \cup {[cmd |-> d, stamp |-> now, via |-> "push"]}
    <3>1. got' = got BY <1>1 DEF PushClaim
    <3>2. row'[d].status = "sent" /\ row'[d].mark = "none"
      <4>1. row[d] \in Row /\ row'[d] = Claimed(row[d], now) BY <2>3
      <4>2. row[d].mark = "none" BY <2>3 DEF Base, RowInv, Live
      <4>3. Claimed(row[d], now).status = "sent" /\ Claimed(row[d], now).mark = row[d].mark
        BY <4>1, RowFields
      <4> QED BY <4>1, <4>2, <4>3
    <3>3. \A c \in Commands \ {d} : row'[c] = row[c] BY <2>3
    <3>4. \A c \in Commands \ Rearmable, b \in attempts' :
             b.cmd = c => \/ b \in attempts /\ c # d
                          \/ c = d /\ b = [cmd |-> d, stamp |-> now, via |-> "push"]
      BY <2>3 DEF HandOver
    <3>5. ASSUME NEW c \in Commands \ Rearmable
          PROVE  /\ got'[c] <= 1
                 /\ row'[c].status \in {"none", "pending"}
                    \/ row'[c].mark \in {"expired", "unreceived"}
                       => got'[c] = 0 /\ \A b \in attempts' : b.cmd # c
      BY <3>1, <3>2, <3>3, <3>4 DEF HandOver
    <3>6. ASSUME NEW c \in Commands \ Rearmable, NEW b \in attempts', b.cmd = c
          PROVE  got'[c] = 0 /\ \A e \in attempts' : e.cmd = c => e = b
      BY <2>3, <3>1, <3>4, <3>6 DEF HandOver
    <3> QED BY <3>5, <3>6 DEF HandOver
  <2> QED BY <1>1, <2>1, <2>2, <2>3 DEF PushClaim
<1>2. ASSUME NEW k \in Claimers, ClaimCommit(k) PROVE HandOver'
  <2> DEFINE Taken == {c \in tx[k].claim : row[c].status = "pending"}
  <2>1. attempts' = attempts \cup {[cmd |-> c, stamp |-> now, via |-> "poll"] : c \in Taken}
    BY <1>2 DEF ClaimCommit
  <2>2. got' = got BY <1>2 DEF ClaimCommit
  <2>3. ASSUME NEW c \in Commands
        PROVE  /\ c \in Taken => row[c].status = "pending"
               /\ \/ row'[c] = row[c] /\ c \notin Taken
                  \/ row'[c].status = "cancelled" /\ row'[c].mark = "cancelled"
                     /\ row[c].status = "pending"
                  \/ row'[c].status = "sent" /\ row'[c].mark = "none"
                     /\ row[c].status = "pending"
    BY <1>2, RowFields DEF ClaimCommit, Status, Terminal, Mark, Base, RowInv, Live
  <2>4. \A c \in Commands \ Rearmable, b \in attempts' :
           b.cmd = c => \/ b \in attempts /\ c \notin Taken
                        \/ c \in Taken /\ b = [cmd |-> c, stamp |-> now, via |-> "poll"]
    BY <2>1 DEF HandOver
  <2> HIDE DEF Taken
  <2>5. ASSUME NEW c \in Commands \ Rearmable
        PROVE  /\ got'[c] <= 1
               /\ row'[c].status \in {"none", "pending"}
                  \/ row'[c].mark \in {"expired", "unreceived"}
                     => got'[c] = 0 /\ \A b \in attempts' : b.cmd # c
    BY <2>2, <2>3, <2>4 DEF HandOver
  <2>6. ASSUME NEW c \in Commands \ Rearmable, NEW b \in attempts', b.cmd = c
        PROVE  got'[c] = 0 /\ \A e \in attempts' : e.cmd = c => e = b
    BY <2>2, <2>3, <2>4, <2>6 DEF HandOver
  <2> QED BY <2>5, <2>6 DEF HandOver
<1>3. ASSUME NEW a \in attempts, Deliver(a) PROVE HandOver'
  <2>0. a.cmd \in Commands BY DEF Attempt
  <2>1. CASE SendOk(a) BY <2>0, <2>1 DEF SendOk, Receive, HandOver
  <2>2. CASE Strand(a) BY <2>0, <2>2 DEF Strand, HandOver
  <2>3. CASE SendFailed(a) BY <2>0, <2>3 DEF SendFailed, HandOver, Released, Row
  <2>4. CASE GateRefuse(a) BY <2>0, <2>4 DEF GateRefuse, HandOver, Terminated, Row
  <2> QED BY <1>3, <2>1, <2>2, <2>3, <2>4 DEF Deliver
<1>4. ASSUME NEW d \in Commands, ReapRow(d) PROVE HandOver'
  <2>1. seen[d] \in Observation BY <1>4 DEF ReapRow
  <2>2. seen[d].verdict \in {"expired", "unreceived"} => seen[d].status = "pending"
    BY <1>4 DEF ReapRow, Base, SeenInv
  <2> QED BY <1>4, <2>1, <2>2, HandOverQuiet DEF ReapRow, ReapGuard, Terminated, Row, Observation
<1>5. ASSUME NEW d \in Commands, Request(d), ~PushClaim(d) PROVE HandOver'
  <2>1. ASSUME NEW r \in Routes, Enqueue(d, r) PROVE HandOver'
    <3>1. PICK x \in {Null, now + DeliverWithin} :
             row' = [row EXCEPT ![d] = NewRow(now, x)]
      BY <2>1 DEF Enqueue, Deadlines
    <3>2. NewRow(now, x).status = "pending" /\ NewRow(now, x).mark = "none"
      BY DEF NewRow, NoRow
    <3> QED BY <2>1, <3>1, <3>2, HandOverQuiet DEF Enqueue
  <2>2. CASE WaitDeadline(d)
    BY <2>2, HandOverQuiet, RowFields
       DEF WaitDeadline, Status, Terminal, Mark, ServerTimeout
  <2>3. CASE Rearm(d)
    <3>1. d \in Rearmable BY <2>3 DEF Rearm, Base, StopInv
    <3> QED BY <2>3, <3>1, HandOverQuiet DEF Rearm
  <2>4. CASE UNCHANGED <<row, attempts, got>> BY <2>4 DEF HandOver
  <2> QED BY <1>5, <2>1, <2>2, <2>3, <2>4 DEF Request, CountInFlight, WaitReturn,
          WaitReread, StopCheck
<1>6. ASSUME NEW d \in Commands, Agent(d) \/ CancelQueued(d) PROVE HandOver'
  <2>1. CASE CancelQueued(d)
    BY <2>1, HandOverQuiet, RowFields DEF CancelQueued, Status, Terminal, Mark
  <2>2. ASSUME NEW f \in Frame, IngestResult(d, f) PROVE HandOver'
    <3>1. /\ row'[d].status \in Outcome /\ row'[d].mark \in Outcome \cup {"queue_ack", "timeout"}
          /\ \A c \in Commands \ {d} : row'[c] = row[c]
      BY <2>2, RowFields DEF IngestResult, Outcome, Status, Terminal, Mark, ServerTimeout
    <3> QED BY <2>2, <3>1, HandOverQuiet DEF IngestResult, Outcome
  <2>3. CASE UNCHANGED <<row, attempts, got>> BY <2>3 DEF HandOver
  <2> QED BY <1>6, <2>1, <2>2, <2>3 DEF Agent, AgentReport
<1>7. CASE UNCHANGED <<row, attempts, got>>
  BY <1>7 DEF HandOver
<1> QED BY <1>1, <1>2, <1>3, <1>4, <1>5, <1>6, <1>7
     DEF Next, Poll, ClaimSelect, ClaimAbort, ReapScan, Tick, vars

\* For every set of commands and every interleaving of push, poll, release and
\* reaper, a command other than the desktop stop reaches the agent at most
\* once, provided a send that reports failure really failed.
THEOREM DeliveredAtMostOnce == Spec => []AtMostOnceDelivery
<1>1. Init => HandOver BY DEF Init, HandOver
<1>2. TypeOK /\ Base /\ HandOver /\ [Next]_vars => HandOver' BY HandOverStep
<1>3. HandOver => AtMostOnceDelivery BY DEF HandOver, AtMostOnceDelivery
<1> QED BY <1>1, <1>2, <1>3, BaseAlways, PTL DEF Spec

\* When the reaper writes that a command was never delivered or received, no
\* copy of it reached the agent and none ever will.
THEOREM NeverReceivedHolds == Spec => []NeverReceived
<1>1. Init => HandOver BY DEF Init, HandOver
<1>2. TypeOK /\ Base /\ HandOver /\ [Next]_vars => HandOver' BY HandOverStep
<1>3. HandOver => NeverReceived BY DEF HandOver, NeverReceived
<1> QED BY <1>1, <1>2, <1>3, BaseAlways, PTL DEF Spec

-----------------------------------------------------------------------------
(* One final result.                                                       *)

\* A row that holds a final outcome is never written again, unless it is
\* re-armed.
LEMMA FinalMove ==
    ASSUME TypeOK, Base, [Next]_vars, NEW c \in Commands \ Rearmable,
           row[c].mark \in Outcome
    PROVE  row'[c] = row[c]
<1>1. RowMove(c) BY RowMoves
<1>2. row[c].status \notin Live \cup {"none"}
  BY DEF TypeOK, Base, RowInv, Outcome
<1>3. ~AcceptsAgentResult(row[c], c \in Diagnostic, c \in QueuedBackup)
  BY <1>2 DEF AcceptsAgentResult, Outcome, ServerTimeout
<1> QED BY <1>1, <1>2, <1>3 DEF RowMove, Live

LEMMA FinalStep ==
    ASSUME TypeOK, Base, Final, [Next]_vars
    PROVE  Final'
<1> USE DEF TypeOK
<1>1. ASSUME NEW d \in Commands, NEW f \in Frame, IngestResult(d, f) PROVE Final'
  <2>1. \A c \in Commands \ {d} : row'[c] = row[c] /\ accepted'[c] = accepted[c]
    BY <1>1 DEF IngestResult
  <2>2. ASSUME d \notin Rearmable
        PROVE  /\ accepted'[d] <= 1
               /\ accepted'[d] = 1 => row'[d].status \in Outcome /\ row'[d].mark \in Outcome
    <3>1. row[d].mark \notin Outcome
      BY <1>1 DEF IngestResult, AcceptsAgentResult, Base, RowInv, Outcome, ServerTimeout
    <3>2. accepted[d] = 0
      <4>1. accepted[d] \in Nat /\ accepted[d] <= 1 BY <2>2 DEF Final
      <4>2. accepted[d] # 1 BY <2>2, <3>1 DEF Final
      <4>3. \A n \in Nat : n <= 1 /\ n # 1 => n = 0 OBVIOUS
      <4> QED BY <4>1, <4>2, <4>3
    <3>3. CASE UNCHANGED accepted BY <3>2, <3>3
    <3>4. CASE f \in Outcome
      <4>1. accepted'[d] = 1 BY <1>1, <3>2, <3>4 DEF IngestResult, Outcome
      <4>2. row'[d].status \in Outcome /\ row'[d].mark \in Outcome
        BY <1>1, <3>4, RowFields DEF IngestResult, Outcome, Status, Terminal, Mark
      <4> QED BY <4>1, <4>2
    <3> QED BY <1>1, <3>3, <3>4 DEF IngestResult
  <2> QED BY <2>1, <2>2 DEF Final
<1>2. CASE UNCHANGED accepted
  <2>1. ASSUME NEW c \in Commands \ Rearmable, accepted[c] = 1 PROVE row'[c] = row[c]
    BY <2>1, FinalMove DEF Final
  <2> QED BY <1>2, <2>1 DEF Final
<1> QED BY <1>1, <1>2, Writers

\* However result frames are duplicated, delayed or reordered around
\* server-side timeouts, and even if ghost sends made the agent run a command
\* twice, at most one result is accepted and the row keeps it.
THEOREM OneResult == Spec => []ResultOnce
<1>1. Init => Final BY DEF Init, Final
<1>2. TypeOK /\ Base /\ Final /\ [Next]_vars => Final' BY FinalStep
<1>3. Final => ResultOnce BY DEF Final, ResultOnce
<1> QED BY <1>1, <1>2, <1>3, BaseAlways, PTL DEF Spec

\* A final answer that executeCommand returned is never contradicted by the
\* row afterwards.
THEOREM AnswersStand == Spec => []AnswerStands
<1>1. Init => AnswerStands BY DEF Init, AnswerStands, Outcome
<1>2. ASSUME TypeOK, Base, AnswerStands, [Next]_vars PROVE AnswerStands'
  <2> USE DEF TypeOK
  <2>1. ASSUME NEW c \in Commands, told[c] \in Outcome PROVE row'[c] = row[c]
    <3>1. c \notin Rearmable BY <1>2, <2>1 DEF Base, StopInv, Outcome
    <3>2. row[c].mark \in Outcome BY <1>2, <2>1 DEF AnswerStands
    <3> QED BY <1>2, <3>1, <3>2, FinalMove
  <2>2. ASSUME NEW d \in Commands, WaitReturn(d) \/ WaitReread(d) PROVE AnswerStands'
    BY <1>2, <2>1, <2>2 DEF WaitReturn, WaitReread, AnswerStands
  <2>3. CASE UNCHANGED told BY <1>2, <2>1, <2>3 DEF AnswerStands
  <2> QED BY <1>2, <2>2, <2>3, Writers
<1> QED BY <1>1, <1>2, BaseAlways, PTL DEF Spec

-----------------------------------------------------------------------------
\* A row whose secret keys were stripped is never claimable again.
THEOREM ErasedStaysDown == Spec => []ErasedNotDeliverable
<1>1. Init => ErasedNotDeliverable
  BY TypeSets DEF Init, ErasedNotDeliverable, NoRow, Live
<1>2. ASSUME TypeOK, Base, ErasedNotDeliverable, [Next]_vars PROVE ErasedNotDeliverable'
  <2>1. ASSUME NEW c \in Sensitive PROVE row'[c].status \in Live => ~row'[c].erased
    <3>1. c \in Commands /\ c \notin Rearmable BY TypeSets, RearmablePlain
    <3>2. row[c] \in Row BY <1>2, <3>1 DEF TypeOK
    <3>3. RowMove(c) BY <1>2, <3>1, RowMoves
    <3>4. row[c].status \in Live => ~row[c].erased BY <1>2 DEF ErasedNotDeliverable
    <3>5. CASE row'[c].status \notin Live BY <3>5
    <3>6. CASE row'[c] = row[c] BY <3>4, <3>6
    <3>7. CASE \E d \in Nat : row'[c] = NewRow(now, d)
      BY <3>7 DEF NewRow, NoRow
    <3>8. CASE row[c].status = "pending" /\ row'[c] = Claimed(row[c], now)
      BY <3>2, <3>4, <3>8 DEF Claimed, Row, Live
    <3>9. CASE /\ row[c].status = "sent"
               /\ row'[c] = [row[c] EXCEPT !.status = "pending", !.executedAt = Null]
      BY <3>2, <3>4, <3>9 DEF Row, Live
    <3>10. \A s \in {"completed", "failed", "cancelled"} :
              \A mk : Terminated(row[c], s, mk).status \notin Live
      BY <3>2 DEF Terminated, Row, Live
    <3> QED BY <3>1, <3>3, <3>5, <3>6, <3>7, <3>8, <3>9, <3>10 DEF RowMove, Outcome
  <2> QED BY <2>1 DEF ErasedNotDeliverable
<1> QED BY <1>1, <1>2, BaseAlways, PTL DEF Spec

-----------------------------------------------------------------------------
(* The queue implements CommandPromise.                                    *)

LEMMA PromiseInit == Init => Promise!Init
BY DEF Init, Promise!Init, PhaseOf, OutcomeOf, NoRow, Promise!NoOutcome

LEMMA PromiseMove ==
    ASSUME TypeOK, Base, NEW c \in Commands, RowMove(c)
    PROVE  \/ Promise!Stay(c) \/ Promise!Submit(c) \/ Promise!Handle(c)
           \/ Promise!Provide(c) \/ Promise!Settle(c) \/ Promise!Restart(c)
<1> DEFINE p == PhaseOf(c)
           q == PhaseOf(c)'
           o == OutcomeOf(c)
           u == OutcomeOf(c)'
<1>0. row[c] \in Row BY DEF TypeOK
<1>1. SUFFICES
        \/ q = p /\ u = o
        \/ p = "absent" /\ q = "waiting" /\ u = "none"
        \/ p \in {"waiting", "inflight"} /\ q \in {"waiting", "inflight"} /\ u = "none"
        \/ p \in {"waiting", "inflight"} /\ q = "provisional" /\ u = "none"
        \/ /\ p \in {"waiting", "inflight", "provisional"} /\ q = "settled"
           /\ u \in Mark \ {"none", "queue_ack"}
        \/ c \in Rearmable /\ p # "absent" /\ q = "waiting" /\ u = "none"
  BY DEF Promise!Stay, Promise!Submit, Promise!Handle, Promise!Provide, Promise!Settle,
     Promise!Restart, Promise!Open, Promise!NoOutcome
<1>2. CASE row'[c] = row[c] BY <1>2 DEF PhaseOf, OutcomeOf
<1>3. CASE /\ row[c].status = "none"
           /\ \E d \in Nat : row'[c] = NewRow(now, d)
  BY <1>3 DEF PhaseOf, OutcomeOf, NewRow, NoRow
<1>4. CASE row[c].status = "pending" /\ row'[c] = Claimed(row[c], now)
  BY <1>0, <1>4 DEF PhaseOf, OutcomeOf, Claimed, Row
<1>5. CASE /\ row[c].status = "sent"
           /\ row'[c] = [row[c] EXCEPT !.status = "pending", !.executedAt = Null]
  BY <1>0, <1>5 DEF PhaseOf, OutcomeOf, Row
<1>6. CASE /\ row[c].status \in Live
           /\ \/ row'[c] = Terminated(row[c], "cancelled", "cancelled")
              \/ \E mk \in ServerTimeout \cup {"failed"} :
                    row'[c] = Terminated(row[c], "failed", mk)
  BY <1>0, <1>6, RowFields DEF PhaseOf, OutcomeOf, Live, Status, Terminal, Mark,
     ServerTimeout, Outcome, AcceptsAgentResult
<1>7. CASE /\ AcceptsAgentResult(row[c], c \in Diagnostic, c \in QueuedBackup)
           /\ \/ /\ c \in QueuedBackup
                 /\ row'[c] = Terminated(row[c], "completed", "queue_ack")
              \/ row'[c] = Terminated(row[c], "failed", "timeout")
              \/ \E f \in Outcome : row'[c] = Terminated(row[c], f, f)
  BY <1>0, <1>7, RowFields DEF PhaseOf, OutcomeOf, Live, Status, Terminal, Mark,
     ServerTimeout, Outcome, AcceptsAgentResult
<1>8. CASE /\ c \in Rearmable
           /\ row[c].status \in Live \cup {"failed", "completed"}
           /\ row'[c] = Rearmed(row[c])
  BY <1>0, <1>8 DEF PhaseOf, OutcomeOf, Rearmed, Live, Row
<1> QED BY <1>2, <1>3, <1>4, <1>5, <1>6, <1>7, <1>8 DEF RowMove

\* Whatever the transports, timeouts and crashes do, a command only moves as
\* CommandPromise allows: a provisional outcome gives way to one real result,
\* and a settled command stays as it is.
THEOREM Implements == Spec => KeepsPromise
<1>1. TypeOK /\ Base /\ [Next]_vars => [Promise!Next]_(Promise!promise)
  <2> SUFFICES ASSUME TypeOK, Base, [Next]_vars PROVE Promise!Next
    OBVIOUS
  <2> QED BY RowMoves, PromiseMove DEF Promise!Next
<1> QED BY <1>1, PromiseInit, BaseAlways, PTL DEF Spec, KeepsPromise, Promise!Spec
=============================================================================
