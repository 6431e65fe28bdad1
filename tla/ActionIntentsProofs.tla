------------------------ MODULE ActionIntentsProofs ------------------------
(***************************************************************************)
(* One intent, for any sets of approvers and workers, any kinds, lanes and *)
(* faults, and events served any number of times: it is well typed, its    *)
(* tool is called at most once, a call settles it, a denial holds, and its *)
(* one ending is published.                                                *)
(***************************************************************************)
EXTENDS ActionIntents, TLAPS

-----------------------------------------------------------------------------
(* The inductive invariant.                                                *)

\* A process past its claim that has not called the tool yet.
Holds(x) == rel[x].pc \in {"revalidate", "precall", "pausing", "call"}

\* Before the creation there is nothing, and nothing for the policy to do.
FreshStart ==
    intent.status = "none" =>
        /\ intent.policy = "human_required" /\ ~late
        /\ \A a \in Approvers : rows[a] = "none"

\* A deferred fan-out happens once, and nobody was asked before it.
Deferred ==
    intent.policy = "unattempted" =>
        ~late /\ \A a \in Approvers : rows[a] = "none"

\* An intent that is claimed, or whose tool was called, is past its approval;
\* only a late fan-out can cancel it.
Released ==
    (calls > 0 \/ \E x \in Procs : Holds(x)) =>
        \/ intent.status \in {"executing", "completed", "failed"}
        \/ late /\ intent.status = "cancelled"

\* One process holds the claim, and the tool has not been called yet.
OneHolder ==
    \A x, y \in Procs : Holds(x) => calls = 0 /\ (Holds(y) => x = y)

\* A request still open belongs to an intent still open or cancelled, and one
\* denied to an intent that ended.
RowsAgree ==
    late \/ \A a \in Approvers :
        /\ rows[a] = "pending" =>
              intent.status \in {"pending_approval", "cancelled"}
        /\ rows[a] \in {"denied", "reported"} =>
              intent.status \in {"rejected", "cancelled"}

IntentInv ==
    /\ TypeOK /\ FreshStart /\ Deferred /\ Released /\ OneHolder /\ RowsAgree
    /\ CalledOnce /\ EndingPublished

-----------------------------------------------------------------------------
(* Types of the parts.                                                     *)

\* A process leaves its step or is gone.
LEMMA ProcTyped ==
    ASSUME TypeOK, NEW x \in Procs, NEW v \in Proc, rel' = [rel EXCEPT ![x] = v]
    PROVE  /\ rel' \in [Procs -> Proc] /\ rel'[x] = v
           /\ \A y \in Procs \ {x} : rel'[y] = rel[y]
BY DEF TypeOK

\* A process goes on to another step.
LEMMA PcTyped ==
    ASSUME TypeOK, NEW x \in Procs,
           NEW pc \in {"idle", "claim", "refused", "revalidate", "precall",
                       "pausing", "call", "called", "attach", "record", "finish",
                       "again", "notify", "ring", "attempt", "authorize",
                       "fanout"},
           rel' = [rel EXCEPT ![x].pc = pc]
    PROVE  /\ rel' \in [Procs -> Proc] /\ rel'[x].pc = pc
           /\ \A y \in Procs \ {x} : rel'[y] = rel[y]
BY DEF TypeOK, Proc

\* It goes idle, or goes to tell the requester.
LEMMA LeaveTyped ==
    ASSUME TypeOK, NEW x \in Procs
    PROVE  /\ Idle \in Proc /\ Leave(x) \in Proc
           /\ Idle.pc = "idle" /\ Leave(x).pc \in {"idle", "notify"}
<1>1. rel[x] \in Proc
  BY DEF TypeOK
<1>2. Idle \in Proc
  BY DEF Idle, Proc, Statuses
<1> QED BY <1>1, <1>2 DEF Leave, Idle, Proc

\* The operation row is written or left.
LEMMA LedgerTyped ==
    ASSUME TypeOK
    PROVE  /\ \A o \in Operation : SetOp(o) => op' \in Operation
           /\ OperationCancelled \in Operation
           /\ DispatchFailed => op' \in Operation
           /\ \A r \in {"unknown", "failed", "succeeded"} :
                 RecordResult(r) => op' \in Operation
           /\ \A o : RecordResult(ResultOf(o)) => op' \in Operation
           /\ MarkDispatched => op' \in Operation
           /\ LedgerFails => op' \in Operation
<1>0. op \in Operation
  BY DEF TypeOK
<1>1. \A o \in Operation : SetOp(o) => op' \in Operation
  BY <1>0 DEF SetOp
<1>2. OperationCancelled \in Operation
  BY <1>0 DEF OperationCancelled, Operation
<1>3. DispatchFailed => op' \in Operation
  BY <1>0, <1>1 DEF DispatchFailed, Operation
<1>4. \A r \in {"unknown", "failed", "succeeded"} :
         RecordResult(r) => op' \in Operation
  <2> TAKE r \in {"unknown", "failed", "succeeded"}
  <2>1. [op EXCEPT !.result = r] \in Operation
    BY <1>0 DEF Operation
  <2> QED BY <1>0, <1>1, <2>1 DEF RecordResult
<1>5. \A o : ResultOf(o) \in {"unknown", "failed", "succeeded"}
  BY DEF ResultOf
<1>6. MarkDispatched => op' \in Operation
  BY <1>0, <1>1 DEF MarkDispatched, Operation
<1>7. LedgerFails => op' \in Operation
  BY <1>0 DEF LedgerFails
<1> QED BY <1>1, <1>2, <1>3, <1>4, <1>5, <1>6, <1>7

\* Nothing has been created.
LEMMA InitIntent == Init => IntentInv
<1> SUFFICES ASSUME Init PROVE IntentInv
  OBVIOUS
<1>1. TypeOK
  BY DEF Init, TypeOK, Intent, IntentKinds, Statuses, Operation, Idle, Proc
<1>2. \A x \in Procs : ~Holds(x)
  BY DEF Init, Holds, Idle
<1>3. FreshStart /\ Deferred /\ Released /\ OneHolder /\ RowsAgree
  BY <1>2 DEF Init, FreshStart, Deferred, Released, OneHolder, RowsAgree
<1>4. CalledOnce /\ EndingPublished
  BY DEF Init, CalledOnce, EndingPublished, Terminal
<1> QED BY <1>1, <1>3, <1>4 DEF IntentInv

\* A step that leaves status, policy, requests, events and calls alone and
\* claims nothing only has to keep the types.
LEMMA QuietStep ==
    ASSUME IntentInv, TypeOK',
           intent'.status = intent.status, intent'.policy = intent.policy,
           UNCHANGED <<rows, box, calls, late>>,
           \A x \in Procs : Holds(x)' => Holds(x)
    PROVE  IntentInv'
<1>1. FreshStart' /\ Deferred' /\ RowsAgree' /\ CalledOnce' /\ EndingPublished'
  BY DEF IntentInv, FreshStart, Deferred, RowsAgree, CalledOnce, EndingPublished
<1>2. Released' /\ OneHolder'
  BY DEF IntentInv, Released, OneHolder
<1> QED BY <1>1, <1>2 DEF IntentInv

\* So a step of one process that writes the operation row at most.
LEMMA ProcStep ==
    ASSUME IntentInv, NEW x \in Procs, NEW v \in Proc,
           rel' = [rel EXCEPT ![x] = v],
           v.pc \in {"revalidate", "precall", "pausing", "call"} => Holds(x),
           UNCHANGED <<intent, rows, box, calls, late>>, op' \in Operation,
           serves' \in [Events -> Nat], rung' \subseteq Classes,
           lost' \subseteq Bells
    PROVE  IntentInv'
<1>1. TypeOK
  BY DEF IntentInv
<1>2. /\ rel' \in [Procs -> Proc] /\ rel'[x] = v
      /\ \A y \in Procs \ {x} : rel'[y] = rel[y]
  BY <1>1, ProcTyped
<1>3. TypeOK'
  BY <1>1, <1>2 DEF TypeOK
<1>4. \A y \in Procs : Holds(y)' => Holds(y)
  BY <1>2 DEF Holds
<1> QED BY <1>3, <1>4, QuietStep

-----------------------------------------------------------------------------
(* Steps of the processes that leave the intent alone.                     *)

\* A job is taken, a process dies or throws, the session wakes.
LEMMA TakeKeeps ==
    ASSUME IntentInv, NEW x \in Procs,
           (\E e \in Events : Take(x, e)) \/ Crash(x) \/ Throw(x)
           \/ (x = Session /\ SessionWakes)
    PROVE  IntentInv'
<1>0. TypeOK /\ rel[x] \in Proc /\ op \in Operation
  BY DEF IntentInv, TypeOK
<1>1. ASSUME NEW e \in Events, Take(x, e) PROVE IntentInv'
  <2> DEFINE v == [rel[x] EXCEPT !.pc = EntryPoint(e),
                                 !.event = IF EntryPoint(e) = "idle"
                                           THEN None ELSE e]
  <2>1. EntryPoint(e) \in {"notify", "attempt", "claim", "idle"}
    BY DEF EntryPoint
  <2>2. v \in Proc /\ v.pc = EntryPoint(e)
    BY <1>0, <2>1 DEF Proc
  <2>3. rel' = [rel EXCEPT ![x] = v]
    BY <1>0, <1>1 DEF Take, TypeOK
  <2>4. serves' \in [Events -> Nat]
    <3>1. serves \in [Events -> Nat] /\ serves[e] + 1 \in Nat
      BY <1>0 DEF TypeOK
    <3>2. serves' = [serves EXCEPT ![e] = serves[e] + 1]
      BY <1>1 DEF Take
    <3> QED BY <3>1, <3>2
  <2> HIDE DEF v
  <2> QED BY <1>0, <1>1, <2>1, <2>2, <2>3, <2>4, ProcStep DEF Take, TypeOK
<1>2. CASE Crash(x) \/ Throw(x)
  <2>1. /\ rel' = [rel EXCEPT ![x] = Idle]
        /\ lost' = lost \cup ({rel[x].event} \cap Bells)
        /\ UNCHANGED <<intent, rows, op, box, serves, calls, rung, late>>
    BY <1>2 DEF Crash, Throw
  <2> QED BY <1>0, <2>1, LeaveTyped, ProcStep DEF TypeOK
<1>3. CASE x = Session /\ SessionWakes
  <2> DEFINE v == [rel[x] EXCEPT !.pc = "claim"]
  <2>1. v \in Proc /\ v.pc = "claim"
    BY <1>0 DEF Proc
  <2>2. rel' = [rel EXCEPT ![x] = v]
    BY <1>0, <1>3 DEF SessionWakes, TypeOK
  <2> HIDE DEF v
  <2> QED BY <1>0, <1>3, <2>1, <2>2, ProcStep DEF SessionWakes, TypeOK
<1> QED BY <1>1, <1>2, <1>3

\* The checks after a claim, the tool's return and the writes of the operation.
LEMMA ReleaseQuiet ==
    ASSUME IntentInv, NEW x \in Procs,
           \/ Refuse(x) \/ Revalidate(x) \/ PreCall(x) \/ Return(x)
           \/ AttachRef(x) \/ Record(x) \/ RecordAgain(x)
    PROVE  IntentInv'
<1>0. TypeOK /\ rel[x] \in Proc /\ op \in Operation
  BY DEF IntentInv, TypeOK
<1>1. PICK v \in Proc :
         /\ rel' = [rel EXCEPT ![x] = v]
         /\ v.pc \in {"revalidate", "precall", "pausing", "call"} => Holds(x)
  <2>1. CASE \/ Refuse(x) \/ AttachRef(x) \/ Record(x)
    <3>1. PICK pc \in {"notify", "record", "finish"} :
             rel' = [rel EXCEPT ![x].pc = pc]
      BY <2>1 DEF Refuse, AttachRef, Record
    <3>2. [rel[x] EXCEPT !.pc = pc] \in Proc
      BY <1>0 DEF Proc
    <3>3. rel' = [rel EXCEPT ![x] = [rel[x] EXCEPT !.pc = pc]]
      BY <1>0, <3>1 DEF TypeOK
    <3>4. [rel[x] EXCEPT !.pc = pc].pc = pc
      BY <1>0 DEF Proc
    <3> QED BY <3>2, <3>3, <3>4
  <2>2. CASE RecordAgain(x)
    BY <1>0, <2>2, LeaveTyped DEF RecordAgain
  <2>3. CASE Revalidate(x) \/ PreCall(x)
    <3>0. Holds(x)
      BY <2>3 DEF Revalidate, PreCall, Holds
    <3>1. PICK pc \in {"call", "precall", "finish", "record", "pausing"},
               o \in {rel[x].outcome, "stopped"} :
             rel' = [rel EXCEPT ![x] = [rel[x] EXCEPT !.pc = pc, !.outcome = o]]
      <4>1. CASE \E pc \in {"call", "precall", "pausing"} :
                    rel' = [rel EXCEPT ![x].pc = pc]
        <5> PICK pc \in {"call", "precall", "pausing"} :
                rel' = [rel EXCEPT ![x].pc = pc]
          BY <4>1
        <5>1. [rel[x] EXCEPT !.pc = pc]
                = [rel[x] EXCEPT !.pc = pc, !.outcome = rel[x].outcome]
          BY <1>0 DEF Proc
        <5>2. rel' = [rel EXCEPT ![x] = [rel[x] EXCEPT !.pc = pc]]
          BY <1>0 DEF TypeOK
        <5> QED BY <5>1, <5>2
      <4>2. CASE \E pc \in {"finish", "record"} :
                    rel' = [rel EXCEPT ![x].pc = pc, ![x].outcome = "stopped"]
        <5> PICK pc \in {"finish", "record"} :
                rel' = [rel EXCEPT ![x].pc = pc, ![x].outcome = "stopped"]
          BY <4>2
        <5> DEFINE v == [rel[x] EXCEPT !.pc = pc, !.outcome = "stopped"]
        <5>1. rel' = [rel EXCEPT ![x] = v]
          BY <1>0 DEF TypeOK
        <5> QED BY <5>1
      <4> QED BY <2>3, <4>1, <4>2 DEF Revalidate, PreCall
    <3>2. [rel[x] EXCEPT !.pc = pc, !.outcome = o] \in Proc
      BY <1>0 DEF Proc
    <3> QED BY <3>0, <3>1, <3>2
  <2>4. CASE Return(x)
    <3>1. PICK o \in {"threw", "error", "error_timeout", "timeout",
                      "unsuccessful", "ok"},
               pc \in {"finish", "record", "attach"} :
             rel' = [rel EXCEPT ![x].outcome = o, ![x].pc = pc]
      BY <2>4 DEF Return
    <3> DEFINE v == [rel[x] EXCEPT !.outcome = o, !.pc = pc]
    <3>2. v \in Proc /\ v.pc = pc
      BY <1>0 DEF Proc
    <3>3. rel' = [rel EXCEPT ![x] = v]
      BY <1>0, <3>1 DEF TypeOK
    <3> HIDE DEF v
    <3> QED BY <3>2, <3>3
  <2> QED BY <2>1, <2>2, <2>3, <2>4
<1>2. op' \in Operation
  <2>1. [op EXCEPT !.ref = TRUE] \in Operation
    BY <1>0 DEF Operation
  <2> QED BY <1>0, <2>1, LedgerTyped DEF Refuse, Revalidate, PreCall, Return,
     AttachRef, Record, RecordAgain
<1>3. UNCHANGED <<intent, rows, box, serves, calls, rung, lost, late>>
  BY DEF Refuse, Revalidate, PreCall, Return, AttachRef, Record, RecordAgain
<1> QED BY <1>0, <1>1, <1>2, <1>3, ProcStep DEF TypeOK

\* The requester is told; the policy looks at the intent.
LEMMA NotifyKeeps ==
    ASSUME IntentInv, NEW x \in Procs, Notify(x) \/ Ring(x) \/ Attempt(x)
    PROVE  IntentInv'
<1>0. TypeOK /\ rel[x] \in Proc /\ op \in Operation /\ intent.status \in Statuses
  BY DEF IntentInv, TypeOK, Intent
<1>1. CASE Notify(x)
  <2> DEFINE v == [rel[x] EXCEPT !.pc = "ring", !.saw = intent.status]
  <2>1. v \in Proc /\ v.pc = "ring"
    BY <1>0 DEF Proc
  <2>2. rel' = [rel EXCEPT ![x] = v] \/ rel' = [rel EXCEPT ![x] = Idle]
    BY <1>0, <1>1 DEF Notify, TypeOK
  <2> HIDE DEF v
  <2>3. /\ UNCHANGED <<intent, rows, op, box, serves, calls, rung, late>>
        /\ lost' \subseteq Bells
    BY <1>0, <1>1 DEF Notify, TypeOK
  <2>4. CASE rel' = [rel EXCEPT ![x] = v]
    BY <1>0, <2>1, <2>3, <2>4, ProcStep DEF TypeOK
  <2>5. CASE rel' = [rel EXCEPT ![x] = Idle]
    BY <1>0, <2>3, <2>5, LeaveTyped, ProcStep DEF TypeOK
  <2> QED BY <2>2, <2>4, <2>5
<1>2. CASE Ring(x)
  <2>1. Class(rel[x].saw) \in Classes
    BY DEF Class, Classes
  <2>2. rung' \subseteq Classes
    BY <1>0, <1>2, <2>1 DEF Ring, TypeOK
  <2> QED BY <1>0, <1>2, <2>2, LeaveTyped, ProcStep DEF Ring, TypeOK
<1>3. CASE Attempt(x)
  <2>1. CASE EndAttempt(x)
    BY <1>0, <1>3, <2>1, LeaveTyped, ProcStep DEF Attempt, EndAttempt, TypeOK
  <2>2. CASE \E pc \in {"fanout", "authorize"} : rel' = [rel EXCEPT ![x].pc = pc]
    <3> PICK pc \in {"fanout", "authorize"} : rel' = [rel EXCEPT ![x].pc = pc]
      BY <2>2
    <3> DEFINE v == [rel[x] EXCEPT !.pc = pc]
    <3>1. v \in Proc /\ v.pc = pc
      BY <1>0 DEF Proc
    <3>2. rel' = [rel EXCEPT ![x] = v]
      BY <1>0 DEF TypeOK
    <3> HIDE DEF v
    <3>3. UNCHANGED <<intent, rows, op, box, serves, calls, rung, lost, late>>
      BY <1>3 DEF Attempt
    <3>4. /\ op' \in Operation /\ serves' \in [Events -> Nat]
          /\ rung' \subseteq Classes /\ lost' \subseteq Bells
      BY <1>0, <3>3 DEF TypeOK
    <3>5. v.pc \notin {"revalidate", "precall", "pausing", "call"}
      BY <3>1
    <3> QED BY <3>1, <3>2, <3>3, <3>4, <3>5, ProcStep
  <2> QED BY <1>3, <2>1, <2>2 DEF Attempt
<1> QED BY <1>1, <1>2, <1>3

-----------------------------------------------------------------------------
(* Steps of an intent that is not claimed.                                 *)

Open == intent.status \in {"none", "pending_approval", "approved"}

\* Nobody holds the claim of an open intent, and its tool was not called.
LEMMA OpenUncalled ==
    ASSUME IntentInv, Open PROVE calls = 0 /\ \A x \in Procs : ~Holds(x)
BY DEF IntentInv, TypeOK, Released, Open

\* What a step from an open status has to show.
LEMMA OpenStep ==
    ASSUME IntentInv, Open, TypeOK', UNCHANGED <<calls, late>>,
           \A x \in Procs : Holds(x)' => Holds(x),
           NEW es, box' = box \cup es,
           intent'.status \in Terminal => intent'.status \in es,
           es \cap Terminal \subseteq {intent'.status},
           FreshStart', Deferred', RowsAgree'
    PROVE  IntentInv'
<1>1. calls' = 0 /\ \A x \in Procs : ~Holds(x)'
  BY OpenUncalled
<1>2. Released' /\ OneHolder' /\ CalledOnce'
  BY <1>1 DEF Released, OneHolder, CalledOnce
<1>3. EndingPublished'
  BY DEF IntentInv, EndingPublished, Open, Terminal
<1> QED BY <1>2, <1>3 DEF IntentInv

\* Ending the open requests keeps their types and adds no denial.
LEMMA SiblingsTyped ==
    ASSUME TypeOK, NEW except
    PROVE  /\ ExpireSiblings(except) \in
                 [Approvers -> {"none", "pending", "approved", "denied",
                                "reported", "expired"}]
           /\ \A a \in Approvers :
                 /\ ExpireSiblings(except)[a] = "pending" => a \in except
                 /\ ExpireSiblings(except)[a] \in {rows[a], "expired"}
                 /\ rows[a] = "none" => ExpireSiblings(except)[a] = "none"
BY DEF TypeOK, ExpireSiblings

\* The creation, in any lane.
LEMMA CreateKeeps ==
    ASSUME IntentInv, NEW k \in Kinds, NEW m \in Modes,
           NEW pool \in SUBSET Approvers, Create(k, m, pool)
    PROVE  IntentInv'
<1> DEFINE lane == m \in {"ticket_autonomy", "script_reviewer"}
           empty == m = "human" /\ pool = {}
           es == {"created"} \cup (IF lane THEN {"approved"} ELSE {})
                   \cup (IF empty THEN {"cancelled"} ELSE {})
<1>0. TypeOK /\ intent \in Intent /\ op \in Operation /\ rel[Trigger] \in Proc
      /\ Trigger \in Procs /\ FreshStart /\ intent.status = "none" /\ Open
  BY DEF IntentInv, TypeOK, Procs, Create, Open
<1>k. k \in IntentKinds /\ m \in CreationModes
  BY Parameters
<1>1. PICK u \in BOOLEAN, s \in BOOLEAN :
         /\ u => m \in {"policy", "script_reviewer"}
         /\ m = "human" \/ pool = {}
         /\ intent' =
              [intent EXCEPT
                 !.status = IF lane THEN "approved"
                            ELSE IF empty THEN "cancelled"
                            ELSE "pending_approval",
                 !.kind = k,
                 !.supervised = s,
                 !.via = IF lane THEN m ELSE "none",
                 !.policy = IF u THEN "unattempted" ELSE "human_required",
                 !.lease = IF lane THEN "live" ELSE "none"]
         /\ rows' = FanoutRows(pool)
         /\ op' = IF k = "task"
                  THEN [op EXCEPT !.dispatch = IF empty
                                               THEN "cancelled" ELSE "reserved",
                                  !.stopAsked = empty]
                  ELSE op
         /\ box' = box \cup es
         /\ rel' = IF u THEN [rel EXCEPT ![Trigger].pc = "attempt"] ELSE rel
         /\ UNCHANGED <<serves, calls, rung, lost, late>>
  BY DEF Create, Publish
<1>2. intent' \in Intent
      /\ intent'.status = (IF lane THEN "approved"
                            ELSE IF empty THEN "cancelled"
                            ELSE "pending_approval")
      /\ intent'.policy = (IF u THEN "unattempted" ELSE "human_required")
  <2> DEFINE st == IF lane THEN "approved"
                   ELSE IF empty THEN "cancelled" ELSE "pending_approval"
             via == IF lane THEN m ELSE "none"
             pol == IF u THEN "unattempted" ELSE "human_required"
             lease == IF lane THEN "live" ELSE "none"
  <2>1. /\ st \in Statuses /\ lease \in {"none", "live", "over"}
        /\ via \in {"none", "human", "policy", "ticket_autonomy",
                    "script_reviewer"}
        /\ pol \in {"unattempted", "authorized", "human_required"}
    BY DEF Statuses, Terminal
  <2>2. intent' = [intent EXCEPT !.status = st, !.kind = k, !.supervised = s,
                                 !.via = via, !.policy = pol, !.lease = lease]
    BY <1>1
  <2> HIDE DEF st, via, pol, lease
  <2>3. intent' \in Intent /\ intent'.status = st /\ intent'.policy = pol
    BY <1>0, <1>k, <2>1, <2>2 DEF Intent
  <2> QED BY <2>3 DEF st, pol
<1>3. op' \in Operation
  <2>1. CASE empty
    BY <1>0, <1>1, <2>1 DEF Operation
  <2>2. CASE ~empty
    BY <1>0, <1>1, <2>2 DEF Operation
  <2> QED BY <2>1, <2>2
<1>4. rel' \in [Procs -> Proc] /\ \A x \in Procs : Holds(x)' => Holds(x)
  <2>1. CASE u
    BY <1>0, <1>1, <2>1, PcTyped DEF Holds
  <2>2. CASE ~u
    BY <1>0, <1>1, <2>2 DEF Holds, TypeOK
  <2> QED BY <2>1, <2>2
<1>5. /\ rows' \in [Approvers -> {"none", "pending", "approved", "denied",
                                  "reported", "expired"}]
      /\ \A a \in Approvers : rows'[a] = IF a \in pool THEN "pending" ELSE "none"
  BY <1>0, <1>1 DEF FanoutRows, FreshStart, TypeOK
<1>6. es \subseteq Events
  BY DEF Events, Terminal
<1>7. TypeOK'
  BY <1>0, <1>1, <1>2, <1>3, <1>4, <1>5, <1>6 DEF TypeOK
<1>8. FreshStart' /\ Deferred' /\ RowsAgree'
  BY <1>0, <1>1, <1>2, <1>5 DEF FreshStart, Deferred, RowsAgree
<1>9. /\ intent'.status \in Terminal => intent'.status \in es
      /\ es \cap Terminal \subseteq {intent'.status}
  BY <1>1, <1>2 DEF Terminal
<1> HIDE DEF es
<1> QED BY <1>0, <1>1, <1>4, <1>7, <1>8, <1>9, OpenStep

\* An approver's verdict or report: it decides an intent that waits, and is
\* only noted on one that does not.
LEMMA VerdictKeeps ==
    ASSUME IntentInv, NEW a \in Approvers,
           Report(a) \/ \E v \in {"approved", "rejected"} : Decide(a, v)
    PROVE  IntentInv'
<1>0. /\ TypeOK /\ intent \in Intent /\ rows[a] = "pending"
      /\ intent.policy # "unattempted" /\ intent.status # "none"
  BY DEF IntentInv, TypeOK, Report, Decide, Deferred, FreshStart
<1>1. UNCHANGED <<op, serves, rel, calls, rung, lost, late>>
  BY DEF Report, Decide
<1>2. \A x \in Procs : Holds(x)' => Holds(x)
  BY <1>1 DEF Holds
<1>3. CASE intent.status = "pending_approval"
  <2>1. PICK v \in {"approved", "rejected"},
             w \in {"approved", "denied", "reported"} :
           /\ intent'.status = v /\ intent'.policy = intent.policy
           /\ intent' \in Intent /\ box' = box \cup {v}
           /\ rows' = [ExpireSiblings({a}) EXCEPT ![a] = w]
           /\ w # "approved" => v = "rejected"
    <3>1. CASE Report(a)
      BY <1>0, <1>3, <3>1 DEF Report, Publish, Intent, Statuses, Terminal
    <3>2. ASSUME NEW v \in {"approved", "rejected"}, Decide(a, v)
          PROVE  /\ intent' = DecidedBy(v) /\ box' = box \cup {v}
                 /\ rows' = [ExpireSiblings({a}) EXCEPT
                               ![a] = IF v = "approved" THEN "approved"
                                                        ELSE "denied"]
      BY <1>3, <3>2 DEF Decide, Publish
    <3>3. ASSUME NEW v \in {"approved", "rejected"}
          PROVE  /\ DecidedBy(v) \in Intent /\ DecidedBy(v).status = v
                 /\ DecidedBy(v).policy = intent.policy
      BY <1>0 DEF DecidedBy, Intent, Statuses, Terminal
    <3> QED BY <3>1, <3>2, <3>3
  <2>2. /\ rows' \in [Approvers -> {"none", "pending", "approved", "denied",
                                    "reported", "expired"}]
        /\ rows'[a] = w
        /\ \A b \in Approvers \ {a} : /\ rows'[b] # "pending"
                                       /\ rows'[b] \in {rows[b], "expired"}
    BY <1>0, <2>1, SiblingsTyped
  <2>3. {v} \subseteq Events
    BY DEF Events, Terminal
  <2>4. TypeOK'
    BY <1>0, <1>1, <2>1, <2>2, <2>3 DEF TypeOK
  <2>5. FreshStart' /\ Deferred'
    BY <1>0, <2>1 DEF FreshStart, Deferred
  <2>6. RowsAgree'
    BY <1>1, <1>3, <2>1, <2>2 DEF IntentInv, RowsAgree
  <2>7. /\ intent'.status \in Terminal => intent'.status \in {v}
        /\ {v} \cap Terminal \subseteq {intent'.status} /\ Open
    BY <1>3, <2>1 DEF Open
  <2> QED BY <1>1, <1>2, <2>1, <2>4, <2>5, <2>6, <2>7, OpenStep
<1>4. CASE intent.status # "pending_approval"
  <2>1. PICK w \in {"approved", "denied", "reported"} :
           rows' = [rows EXCEPT ![a] = w] /\ UNCHANGED <<intent, box>>
    BY <1>4 DEF Report, Decide
  <2>2. TypeOK'
    BY <1>0, <1>1, <2>1 DEF TypeOK
  <2>3. late \/ intent.status = "cancelled"
    BY <1>0, <1>4 DEF IntentInv, RowsAgree
  <2>4. FreshStart' /\ Deferred' /\ RowsAgree'
    BY <1>0, <1>1, <2>1, <2>3 DEF IntentInv, FreshStart, Deferred, RowsAgree, TypeOK
  <2>5. Released' /\ OneHolder' /\ CalledOnce' /\ EndingPublished'
    BY <1>1, <1>2, <2>1 DEF IntentInv, Released, OneHolder, CalledOnce,
       EndingPublished
  <2> QED BY <2>2, <2>4, <2>5 DEF IntentInv
<1> QED BY <1>3, <1>4

\* A denial for the proposal, a cancellation before the claim, an expiry.
LEMMA CloseKeeps ==
    ASSUME IntentInv, DenyForProposal \/ CancelIntent \/ ExpireReap
    PROVE  IntentInv'
<1>0. TypeOK /\ intent \in Intent /\ op \in Operation
  BY DEF IntentInv, TypeOK
<1>1. UNCHANGED <<serves, rel, calls, rung, lost, late>>
  BY DEF DenyForProposal, CancelIntent, ExpireReap
<1>2. \A x \in Procs : Holds(x)' => Holds(x)
  BY <1>1 DEF Holds
<1>3. CASE Open
  <2>1. PICK to \in {"rejected", "cancelled", "expired"} :
           /\ intent' = [intent EXCEPT !.status = to] /\ box' = box \cup {to}
           /\ to # "cancelled" => rows' = ExpireSiblings({})
           /\ to = "cancelled" => rows' = rows
    BY <1>3 DEF DenyForProposal, CancelIntent, ExpireReap, Publish, Open
  <2>2. /\ intent' \in Intent /\ intent'.status = to
        /\ intent'.policy = intent.policy
    BY <1>0, <2>1 DEF Intent, Statuses, Terminal
  <2>3. op' \in Operation
    BY <1>0, <1>3, LedgerTyped DEF DenyForProposal, CancelIntent, ExpireReap, Open
  <2>4. /\ rows' \in [Approvers -> {"none", "pending", "approved", "denied",
                                    "reported", "expired"}]
        /\ \A a \in Approvers : /\ rows'[a] = "pending" => to = "cancelled"
                                /\ rows'[a] \in {rows[a], "expired"}
                                /\ rows[a] = "none" => rows'[a] = "none"
    BY <1>0, <2>1, SiblingsTyped DEF TypeOK
  <2>5. {to} \subseteq Events /\ {to} \subseteq Terminal
    BY DEF Events, Terminal
  <2>6. TypeOK'
    BY <1>0, <1>1, <2>1, <2>2, <2>3, <2>4, <2>5 DEF TypeOK
  <2>7. FreshStart' /\ Deferred'
    BY <1>1, <2>2, <2>4 DEF IntentInv, FreshStart, Deferred
  <2>8. RowsAgree'
    BY <1>1, <1>3, <2>2, <2>4 DEF IntentInv, RowsAgree, Open
  <2> QED BY <1>1, <1>2, <1>3, <2>1, <2>2, <2>5, <2>6, <2>7, <2>8, OpenStep
<1>4. CASE ~Open
  <2>1. SetOp([op EXCEPT !.stopAsked = TRUE]) /\ UNCHANGED <<intent, box, rows>>
    BY <1>4 DEF DenyForProposal, CancelIntent, ExpireReap, ExpireDue, Open
  <2>2. [op EXCEPT !.stopAsked = TRUE] \in Operation
    BY <1>0 DEF Operation
  <2>3. TypeOK'
    BY <1>0, <1>1, <2>1, <2>2, LedgerTyped DEF TypeOK
  <2> QED BY <1>1, <1>2, <2>1, <2>3, QuietStep
<1> QED BY <1>3, <1>4

\* The clocks.
LEMMA ClocksKeep ==
    ASSUME IntentInv, Clocks PROVE IntentInv'
<1>0. TypeOK /\ intent \in Intent
  BY DEF IntentInv, TypeOK
<1>1. UNCHANGED <<rows, op, box, serves, rel, calls, rung, lost, late>>
  BY DEF Clocks, WindowEnds, LeaseEnds, ExecAges
<1>2. /\ intent' \in Intent /\ intent'.status = intent.status
      /\ intent'.policy = intent.policy
  BY <1>0 DEF Clocks, WindowEnds, LeaseEnds, ExecAges, Intent
<1>3. TypeOK' /\ \A x \in Procs : Holds(x)' => Holds(x)
  BY <1>0, <1>1, <1>2 DEF TypeOK, Holds
<1> QED BY <1>1, <1>2, <1>3, QuietStep

-----------------------------------------------------------------------------
(* Steps of the release.                                                   *)

\* An intent that executes ends, by its release or by the reaper, and says so.
LEMMA EndStep ==
    ASSUME IntentInv, TypeOK', intent.status = "executing",
           NEW to \in {"completed", "failed"},
           intent' = [intent EXCEPT !.status = to], box' = box \cup {to},
           UNCHANGED <<rows, calls, late>>,
           \A x \in Procs : Holds(x)' => Holds(x)
    PROVE  IntentInv'
<1>1. intent'.status = to /\ intent'.policy = intent.policy
  BY DEF IntentInv, TypeOK, Intent
<1>2. FreshStart' /\ Deferred' /\ CalledOnce'
  BY <1>1 DEF IntentInv, FreshStart, Deferred, CalledOnce
<1>3. Released' /\ OneHolder'
  BY <1>1 DEF IntentInv, Released, OneHolder
<1>4. RowsAgree'
  BY <1>1 DEF IntentInv, RowsAgree
<1>5. EndingPublished'
  BY <1>1 DEF IntentInv, EndingPublished, Terminal
<1> QED BY <1>2, <1>3, <1>4, <1>5 DEF IntentInv

\* The stale reaper, whose commit may fail.
LEMMA StaleReapKeeps ==
    ASSUME IntentInv, StaleReap PROVE IntentInv'
<1>0. TypeOK /\ intent \in Intent
  BY DEF IntentInv, TypeOK
<1>1. UNCHANGED <<rows, serves, rel, calls, rung, lost, late>>
      /\ op' \in Operation
  BY <1>0, LedgerTyped DEF StaleReap
<1>2. \A x \in Procs : Holds(x)' => Holds(x)
  BY <1>1 DEF Holds
<1>3. CASE UNCHANGED <<intent, box>>
  BY <1>0, <1>1, <1>2, <1>3, QuietStep DEF TypeOK
<1>4. CASE intent' = [intent EXCEPT !.status = "failed"] /\ Publish({"failed"})
  <2>1. intent' \in Intent /\ box' = box \cup {"failed"}
        /\ {"failed"} \subseteq Events
    BY <1>0, <1>4 DEF Publish, Intent, Statuses, Terminal, Events
  <2>2. TypeOK'
    BY <1>0, <1>1, <2>1 DEF TypeOK
  <2> QED BY <1>1, <1>2, <1>4, <2>1, <2>2, EndStep DEF StaleReap
<1> QED BY <1>3, <1>4 DEF StaleReap

\* The reconciler, which writes a result at most.
LEMMA ReconcileKeeps ==
    ASSUME IntentInv, Reconcile PROVE IntentInv'
<1>0. TypeOK
  BY DEF IntentInv
<1>1. /\ UNCHANGED <<intent, rows, box, serves, rel, calls, rung, lost, late>>
      /\ op' \in Operation
  BY <1>0, LedgerTyped DEF Reconcile
<1>2. TypeOK' /\ \A x \in Procs : Holds(x)' => Holds(x)
  BY <1>0, <1>1 DEF TypeOK, Holds
<1> QED BY <1>1, <1>2, QuietStep

\* The release ends the intent, or finds it ended.
LEMMA FinishKeeps ==
    ASSUME IntentInv, NEW x \in Procs, Finish(x) PROVE IntentInv'
<1> DEFINE to == Ending(rel[x].outcome)
<1>0. TypeOK /\ intent \in Intent /\ rel[x] \in Proc /\ op \in Operation
  BY DEF IntentInv, TypeOK
<1>1. to \in {"completed", "failed"}
  BY DEF Ending
<1>2. PICK v \in Proc : /\ rel' = [rel EXCEPT ![x] = v]
                        /\ v.pc \in {"again", "idle", "notify"}
  <2>1. CASE rel' = [rel EXCEPT ![x] = Leave(x)]
    BY <1>0, <2>1, LeaveTyped
  <2>2. CASE rel' = [rel EXCEPT ![x] = [rel[x] EXCEPT !.pc = "again"]]
    <3>1. /\ [rel[x] EXCEPT !.pc = "again"] \in Proc
          /\ [rel[x] EXCEPT !.pc = "again"].pc = "again"
      BY <1>0 DEF Proc
    <3> QED BY <2>2, <3>1
  <2>3. CASE rel' = [rel EXCEPT ![x] =
                       IF to = "completed" /\ intent.kind = "task"
                       THEN [rel[x] EXCEPT !.pc = "again"] ELSE Leave(x)]
    BY <2>1, <2>2, <2>3
  <2> QED BY <2>1, <2>3 DEF Finish
<1>3. UNCHANGED <<rows, op, serves, calls, rung, lost, late>>
  BY DEF Finish
<1>4. CASE intent.status = "executing"
  <2>1. intent' = [intent EXCEPT !.status = to] /\ box' = box \cup {to}
    BY <1>4 DEF Finish, Publish
  <2>2. intent' \in Intent /\ {to} \subseteq Events
    BY <1>0, <1>1, <2>1 DEF Intent, Statuses, Terminal, Events
  <2>3. rel' \in [Procs -> Proc] /\ \A y \in Procs : Holds(y)' => Holds(y)
    BY <1>0, <1>2, ProcTyped DEF Holds
  <2>4. TypeOK'
    BY <1>0, <1>3, <2>1, <2>2, <2>3 DEF TypeOK
  <2> HIDE DEF to
  <2> QED BY <1>1, <1>3, <1>4, <2>1, <2>3, <2>4, EndStep
<1>5. CASE intent.status # "executing"
  <2>1. UNCHANGED <<intent, box>>
    BY <1>5 DEF Finish
  <2> QED BY <1>0, <1>2, <1>3, <2>1, ProcStep DEF TypeOK
<1> QED BY <1>4, <1>5

\* The claim: nobody holds an approved intent.
LEMMA ClaimKeeps ==
    ASSUME IntentInv, NEW x \in Procs, Claim(x) PROVE IntentInv'
<1>0. TypeOK /\ intent \in Intent /\ rel[x] \in Proc /\ op \in Operation
  BY DEF IntentInv, TypeOK
<1>1. UNCHANGED <<rows, box, serves, calls, rung, lost, late>>
  BY DEF Claim
<1>2. CASE /\ Claimable /\ MarkDispatched
           /\ intent' = [intent EXCEPT !.status = "executing", !.stale = FALSE]
           /\ rel' = [rel EXCEPT ![x].pc = "revalidate"]
  <2>1. Open /\ intent.status = "approved"
    BY <1>2 DEF Claimable, Open
  <2>2. calls = 0 /\ \A y \in Procs : ~Holds(y)
    BY <2>1, OpenUncalled
  <2>3. /\ intent' \in Intent /\ intent'.status = "executing"
        /\ intent'.policy = intent.policy
    BY <1>0, <1>2 DEF Intent, Statuses
  <2>4. rel' \in [Procs -> Proc] /\ \A y \in Procs : Holds(y)' => y = x
    BY <1>0, <1>2, <2>2, PcTyped DEF Holds
  <2>5. TypeOK'
    BY <1>0, <1>1, <1>2, <2>3, <2>4, LedgerTyped DEF TypeOK
  <2>6. FreshStart' /\ Deferred' /\ CalledOnce'
    BY <1>1, <2>3 DEF IntentInv, FreshStart, Deferred, CalledOnce
  <2>7. Released' /\ OneHolder'
    BY <1>1, <2>2, <2>3, <2>4 DEF Released, OneHolder
  <2>8. RowsAgree'
    BY <1>1, <2>1, <2>3 DEF IntentInv, RowsAgree
  <2>9. EndingPublished'
    BY <1>1, <2>1, <2>3 DEF IntentInv, EndingPublished, Terminal
  <2> QED BY <2>5, <2>6, <2>7, <2>8, <2>9 DEF IntentInv
<1>3. CASE rel' = [rel EXCEPT ![x] = Leave(x)] /\ UNCHANGED <<intent, op>>
  BY <1>0, <1>1, <1>3, LeaveTyped, ProcStep DEF TypeOK
<1>4. CASE rel' = [rel EXCEPT ![x].pc = "refused"] /\ UNCHANGED <<intent, op>>
  <2> DEFINE v == [rel[x] EXCEPT !.pc = "refused"]
  <2>1. v \in Proc /\ v.pc = "refused"
    BY <1>0 DEF Proc
  <2>2. rel' = [rel EXCEPT ![x] = v]
    BY <1>0, <1>4 DEF TypeOK
  <2> HIDE DEF v
  <2> QED BY <1>0, <1>1, <1>4, <2>1, <2>2, ProcStep DEF TypeOK
<1> QED BY <1>2, <1>3, <1>4 DEF Claim

\* A pause hands the claim back before anything was called.
LEMMA PauseKeeps ==
    ASSUME IntentInv, NEW x \in Procs, Pause(x) PROVE IntentInv'
<1>0. TypeOK /\ intent \in Intent /\ rel[x] \in Proc /\ op \in Operation
      /\ Holds(x)
  BY DEF IntentInv, TypeOK, Pause, Holds
<1>1. /\ UNCHANGED <<rows, box, serves, calls, rung, lost, late>>
      /\ rel' = [rel EXCEPT ![x].pc = "notify"]
  BY DEF Pause
<1>2. rel' \in [Procs -> Proc] /\ rel'[x].pc = "notify"
      /\ \A y \in Procs \ {x} : rel'[y] = rel[y]
  BY <1>0, <1>1, PcTyped
<1>3. calls = 0 /\ \A y \in Procs : ~Holds(y)'
  BY <1>0, <1>2 DEF IntentInv, OneHolder, Holds
<1>4. CASE intent.status = "executing"
  <2>1. /\ intent' = [intent EXCEPT !.status = "approved"]
        /\ SetOp([op EXCEPT !.dispatch = "reserved"])
    BY <1>4 DEF Pause
  <2>2. /\ intent' \in Intent /\ intent'.status = "approved"
        /\ intent'.policy = intent.policy
    BY <1>0, <2>1 DEF Intent, Statuses
  <2>3. [op EXCEPT !.dispatch = "reserved"] \in Operation
    BY <1>0 DEF Operation
  <2>4. TypeOK'
    BY <1>0, <1>1, <1>2, <2>1, <2>2, <2>3, LedgerTyped DEF TypeOK
  <2>5. FreshStart' /\ Deferred' /\ CalledOnce'
    BY <1>1, <2>2 DEF IntentInv, FreshStart, Deferred, CalledOnce
  <2>6. Released' /\ OneHolder'
    BY <1>1, <1>3 DEF Released, OneHolder
  <2>7. RowsAgree'
    BY <1>1, <1>4, <2>2 DEF IntentInv, RowsAgree
  <2>8. EndingPublished'
    BY <1>1, <1>4, <2>2 DEF IntentInv, EndingPublished, Terminal
  <2> QED BY <2>4, <2>5, <2>6, <2>7, <2>8 DEF IntentInv
<1>5. CASE intent.status # "executing"
  <2>1. UNCHANGED <<intent, op>>
    BY <1>5 DEF Pause
  <2>2. TypeOK'
    BY <1>0, <1>1, <1>2, <2>1 DEF TypeOK
  <2> QED BY <1>1, <1>3, <2>1, <2>2, QuietStep
<1> QED BY <1>4, <1>5

\* The call: the one holder gives its claim for it.
LEMMA CallKeeps ==
    ASSUME IntentInv, NEW x \in Procs, Call(x) PROVE IntentInv'
<1>0. TypeOK /\ rel[x] \in Proc /\ op \in Operation /\ Holds(x)
  BY DEF IntentInv, TypeOK, Call, Holds
<1>1. UNCHANGED <<intent, rows, op, box, serves, rung, lost, late>>
  BY DEF Call
<1>2. CASE calls' = calls + 1 /\ rel' = [rel EXCEPT ![x].pc = "called"]
  <2>1. rel' \in [Procs -> Proc] /\ rel'[x].pc = "called"
        /\ \A y \in Procs \ {x} : rel'[y] = rel[y]
    BY <1>0, <1>2, PcTyped
  <2>2. calls' = 1 /\ \A y \in Procs : ~Holds(y)'
    BY <1>0, <1>2, <2>1 DEF IntentInv, OneHolder, Holds
  <2>3. TypeOK'
    BY <1>0, <1>1, <2>1, <2>2 DEF TypeOK
  <2>4. Released' /\ OneHolder' /\ CalledOnce'
    BY <1>0, <1>1, <2>2 DEF IntentInv, Released, OneHolder, CalledOnce
  <2>5. FreshStart' /\ Deferred' /\ RowsAgree' /\ EndingPublished'
    BY <1>1 DEF IntentInv, FreshStart, Deferred, RowsAgree, EndingPublished
  <2> QED BY <2>3, <2>4, <2>5 DEF IntentInv
<1>3. CASE /\ rel' = [rel EXCEPT ![x].pc = "record", ![x].outcome = "stopped"]
           /\ UNCHANGED calls
  <2> DEFINE v == [rel[x] EXCEPT !.pc = "record", !.outcome = "stopped"]
  <2>1. v \in Proc /\ v.pc = "record"
    BY <1>0 DEF Proc
  <2>2. rel' = [rel EXCEPT ![x] = v]
    BY <1>0, <1>3 DEF TypeOK
  <2> HIDE DEF v
  <2> QED BY <1>0, <1>1, <1>3, <2>1, <2>2, ProcStep DEF TypeOK
<1> QED BY <1>2, <1>3 DEF Call

-----------------------------------------------------------------------------
(* The policy.                                                             *)

\* An authorisation finds the intent waiting and nobody asked.
LEMMA AuthorizeKeeps ==
    ASSUME IntentInv, NEW x \in Procs, Authorize(x) PROVE IntentInv'
<1>0. TypeOK /\ intent \in Intent /\ rel[x] \in Proc /\ op \in Operation
  BY DEF IntentInv, TypeOK
<1>1. UNCHANGED <<rows, op, serves, calls, rung, lost, late>>
  BY DEF Authorize
<1>2. CASE rel' = [rel EXCEPT ![x].pc = "fanout"] /\ UNCHANGED <<intent, box>>
  <2> DEFINE v == [rel[x] EXCEPT !.pc = "fanout"]
  <2>1. v \in Proc /\ v.pc = "fanout"
    BY <1>0 DEF Proc
  <2>2. rel' = [rel EXCEPT ![x] = v]
    BY <1>0, <1>2 DEF TypeOK
  <2> HIDE DEF v
  <2> QED BY <1>0, <1>1, <1>2, <2>1, <2>2, ProcStep DEF TypeOK
<1>3. CASE EndAttempt(x) /\ UNCHANGED <<intent, box>>
  BY <1>0, <1>1, <1>3, LeaveTyped, ProcStep DEF EndAttempt, TypeOK
<1>4. CASE /\ intent.status = "pending_approval" /\ intent.policy = "unattempted"
           /\ intent' = [intent EXCEPT !.status = "approved",
                                       !.policy = "authorized",
                                       !.via = "policy", !.lease = "live"]
           /\ Publish({"approved"}) /\ EndAttempt(x)
  <2>1. /\ intent' \in Intent /\ intent'.status = "approved"
        /\ intent'.policy = "authorized"
    BY <1>0, <1>4 DEF Intent, Statuses
  <2>2. rel' \in [Procs -> Proc] /\ \A y \in Procs : Holds(y)' => Holds(y)
    BY <1>0, <1>4, LeaveTyped, ProcTyped DEF EndAttempt, Holds
  <2>3. box' = box \cup {"approved"} /\ {"approved"} \subseteq Events
    BY <1>4 DEF Publish, Events
  <2>4. TypeOK'
    BY <1>0, <1>1, <2>1, <2>2, <2>3 DEF TypeOK
  <2>5. FreshStart' /\ Deferred' /\ RowsAgree'
    BY <1>1, <1>4, <2>1 DEF IntentInv, FreshStart, Deferred, RowsAgree
  <2>6. Open /\ "approved" \notin Terminal
    BY <1>4 DEF Open, Terminal
  <2> QED BY <1>1, <2>1, <2>2, <2>3, <2>4, <2>5, <2>6, OpenStep
<1> QED BY <1>2, <1>3, <1>4 DEF Authorize

\* The deferred fan-out compares the policy's state only, so it may come late.
LEMMA FanoutKeeps ==
    ASSUME IntentInv, NEW x \in Procs, Fanout(x) PROVE IntentInv'
<1>0. TypeOK /\ intent \in Intent /\ rel[x] \in Proc /\ op \in Operation
  BY DEF IntentInv, TypeOK
<1>1. EndAttempt(x) /\ UNCHANGED <<serves, calls, rung, lost>>
  BY DEF Fanout
<1>2. rel' \in [Procs -> Proc] /\ \A y \in Procs : Holds(y)' => Holds(y)
  BY <1>0, <1>1, LeaveTyped, ProcTyped DEF EndAttempt, Holds
<1>3. CASE UNCHANGED <<intent, rows, op, box, late>>
  BY <1>0, <1>1, <1>3, LeaveTyped, ProcStep DEF EndAttempt, TypeOK
<1>4. ASSUME intent.policy = "unattempted", NEW pool \in SUBSET Approvers,
             intent' = [intent EXCEPT !.policy = "human_required",
                                      !.status = FanoutStatus(pool)],
             rows' = FanoutRows(pool),
             IF pool = {} THEN SetOp(OperationCancelled) ELSE op' = op,
             Publish(IF pool = {} THEN {"cancelled"} ELSE {}),
             late' = (intent.status # "pending_approval")
      PROVE  IntentInv'
  <2>1. /\ intent' \in Intent /\ intent'.status = FanoutStatus(pool)
        /\ intent'.policy = "human_required"
    BY <1>0, <1>4 DEF Intent, FanoutStatus, Statuses, Terminal
  <2>2. ~late /\ intent.status # "none" /\ late' \in BOOLEAN
        /\ \A a \in Approvers : rows[a] = "none"
    BY <1>4 DEF IntentInv, Deferred, FreshStart
  <2>3. /\ rows' \in [Approvers -> {"none", "pending", "approved", "denied",
                                    "reported", "expired"}]
        /\ \A a \in Approvers : rows'[a] = IF a \in pool THEN "pending" ELSE "none"
    BY <1>0, <1>4, <2>2 DEF FanoutRows, TypeOK
  <2>4. op' \in Operation
    BY <1>0, <1>4, LedgerTyped
  <2>5. box' = box \cup (IF pool = {} THEN {"cancelled"} ELSE {})
        /\ box' \subseteq Events
    BY <1>0, <1>4 DEF Publish, Events, Terminal, TypeOK
  <2>6. TypeOK'
    BY <1>0, <1>1, <1>2, <2>1, <2>2, <2>3, <2>4, <2>5 DEF TypeOK
  <2>7. FreshStart' /\ Deferred'
    BY <2>1, <2>2 DEF FreshStart, Deferred, FanoutStatus
  <2>8. Released' /\ OneHolder' /\ CalledOnce'
    BY <1>1, <1>2, <1>4, <2>1, <2>2 DEF IntentInv, Released, OneHolder, CalledOnce,
       FanoutStatus
  <2>9. RowsAgree'
    BY <1>4, <2>1, <2>3 DEF RowsAgree, FanoutStatus
  <2>10. EndingPublished'
    <3>1. intent'.status \in Terminal => intent'.status \in box'
      BY <2>1, <2>5 DEF IntentInv, EndingPublished, FanoutStatus, Terminal
    <3>2. late' \/ intent.status = "pending_approval"
      BY <1>4
    <3>3. intent.status = "pending_approval" => Terminal \cap box = {}
      BY <2>2 DEF IntentInv, EndingPublished, Terminal
    <3>4. \A e \in Terminal \cap box' : e = intent'.status \/ late'
      BY <2>1, <2>5, <3>2, <3>3 DEF FanoutStatus, Terminal
    <3> QED BY <3>1, <3>4 DEF EndingPublished
  <2> QED BY <2>6, <2>7, <2>8, <2>9, <2>10 DEF IntentInv
<1> QED BY <1>3, <1>4 DEF Fanout

-----------------------------------------------------------------------------
(* The theorems.                                                           *)

\* Every step keeps the invariant.
LEMMA NextIntent == IntentInv /\ [Next]_vars => IntentInv'
<1> SUFFICES ASSUME IntentInv, [Next]_vars PROVE IntentInv'
  OBVIOUS
<1>0. Session \in Procs /\ Trigger \in Procs /\ Workers \subseteq Procs
  BY DEF Procs
<1>1. CASE Users
  BY <1>1, CreateKeeps, VerdictKeeps, CloseKeeps DEF Users
<1>2. CASE Clocks \/ Reapers
  BY <1>2, ClocksKeep, CloseKeeps, StaleReapKeeps, ReconcileKeeps DEF Reapers
<1>3. ASSUME NEW x \in Procs, WorkerRelease(x) PROVE IntentInv'
  BY <1>3, ClaimKeeps, ReleaseQuiet, CallKeeps, FinishKeeps, PauseKeeps
     DEF WorkerRelease, Release
<1>4. ASSUME NEW x \in Procs, Decision(x) PROVE IntentInv'
  BY <1>4, NotifyKeeps, AuthorizeKeeps, FanoutKeeps DEF Decision
<1>5. CASE SessionWakes \/ Faulty
  BY <1>0, <1>5, TakeKeeps DEF Faulty
<1>6. ASSUME NEW w \in Workers, Worker(w) \/ \E e \in Events : Take(w, e)
      PROVE  IntentInv'
  BY <1>0, <1>3, <1>4, <1>6, NotifyKeeps, TakeKeeps DEF Worker
<1>7. CASE Release(Session)
  BY <1>0, <1>3, <1>7 DEF WorkerRelease
<1>8. CASE UNCHANGED vars
  BY <1>8 DEF vars, IntentInv, TypeOK, FreshStart, Deferred, Released, OneHolder,
     RowsAgree, CalledOnce, EndingPublished, Holds
<1> QED BY <1>0, <1>1, <1>2, <1>4, <1>5, <1>6, <1>7, <1>8 DEF Next

\* The invariant holds throughout.
LEMMA IntentInvariant == Spec => []IntentInv
BY InitIntent, NextIntent, PTL DEF Spec

\* Every reachable state of an intent and of those who serve it is well typed.
THEOREM IntentTyped == Spec => []TypeOK
<1>1. IntentInv => TypeOK
  BY DEF IntentInv
<1> QED BY <1>1, IntentInvariant, PTL

\* However often an approval is delivered, whoever crashes, and however often
\* the kill switch pauses a release, the tool is called at most once.
THEOREM ToolCalledOnce == Spec => []CalledOnce
<1>1. IntentInv => CalledOnce
  BY DEF IntentInv
<1> QED BY <1>1, IntentInvariant, PTL

\* An intent whose tool was called is executing, completed or failed, unless
\* the deferred fan-out came late.
THEOREM CallsSettle == Spec => []CallSettles
<1>1. IntentInv => CallSettles
  BY DEF IntentInv, Released, CallSettles
<1> QED BY <1>1, IntentInvariant, PTL

\* A denied or reported request and a call of the tool never coexist, unless
\* the deferred fan-out came late.
THEOREM DenialsHold == Spec => []DenialHolds
<1>1. IntentInv => DenialHolds
  BY DEF IntentInv, Released, RowsAgree, DenialHolds
<1> QED BY <1>1, IntentInvariant, PTL

\* An intent ends once and the outbox has the event of that ending, written
\* in the same transaction, unless the deferred fan-out came late.
THEOREM EndingsPublished == Spec => []EndingPublished
<1>1. IntentInv => EndingPublished
  BY DEF IntentInv
<1> QED BY <1>1, IntentInvariant, PTL

-----------------------------------------------------------------------------
(* Where nothing is left to the policy, nothing comes late.                *)

\* The policy has nothing to decide, and no fan-out was deferred.
InTime == intent.policy # "unattempted" /\ ~late

\* A call of the tool excludes a denial and leaves one of three statuses, with
\* no exception.
CallFinal ==
    calls > 0 => /\ intent.status \in {"executing", "completed", "failed"}
                 /\ \A a \in Approvers : rows[a] \notin {"denied", "reported"}

\* Only the lanes of the policy and of the script reviewer defer a fan-out.
LEMMA NextInTime ==
    ASSUME Modes \cap {"policy", "script_reviewer"} = {}
    PROVE  IntentInv /\ InTime /\ [Next]_vars => InTime'
<1> SUFFICES ASSUME IntentInv, InTime, [Next]_vars PROVE InTime'
  OBVIOUS
<1> DEFINE Same == late' = late /\ intent'.policy = intent.policy
<1>0. intent \in Intent
  BY DEF IntentInv, TypeOK
<1>1. ASSUME NEW k \in Kinds, NEW m \in Modes, NEW pool \in SUBSET Approvers,
             Create(k, m, pool)
      PROVE  InTime'
  <2>1. m \notin {"policy", "script_reviewer"}
    OBVIOUS
  <2>2. PICK u \in BOOLEAN :
           /\ u => m \in {"policy", "script_reviewer"}
           /\ intent'.policy = IF u THEN "unattempted" ELSE "human_required"
    BY <1>0, <1>1 DEF Create, Intent
  <2>3. late' = late
    BY <1>1 DEF Create
  <2> QED BY <2>1, <2>2, <2>3 DEF InTime
<1>2. ASSUME NEW a \in Approvers,
             Report(a) \/ \E v \in {"approved", "rejected"} : Decide(a, v)
      PROVE  Same
  <2>1. \A v : DecidedBy(v).policy = intent.policy
    BY <1>0 DEF DecidedBy, Intent
  <2>2. late' = late
    BY <1>2 DEF Report, Decide
  <2>3. CASE Report(a)
    BY <1>0, <2>2, <2>3 DEF Report, Intent
  <2>4. CASE \E v \in {"approved", "rejected"} : Decide(a, v)
    BY <2>1, <2>2, <2>4 DEF Decide
  <2> QED BY <1>2, <2>3, <2>4
<1>3. ASSUME DenyForProposal \/ CancelIntent \/ Clocks \/ Reapers PROVE Same
  <2>1. ASSUME DenyForProposal \/ CancelIntent PROVE Same
    BY <1>0, <2>1 DEF DenyForProposal, CancelIntent, Intent
  <2>2. ASSUME Clocks PROVE Same
    BY <1>0, <2>2 DEF Clocks, WindowEnds, LeaseEnds, ExecAges, Intent
  <2>3. ASSUME Reapers PROVE Same
    BY <1>0, <2>3 DEF Reapers, ExpireReap, StaleReap, Reconcile, Intent
  <2> QED BY <1>3, <2>1, <2>2, <2>3
<1>4. ASSUME NEW x, WorkerRelease(x) PROVE Same
  <2>1. late' = late
    BY <1>4 DEF WorkerRelease, Release, Claim, Revalidate, Call, Return, Finish,
       Refuse, PreCall, Pause, AttachRef, Record, RecordAgain
  <2>2. ASSUME Claim(x) \/ Pause(x) \/ Finish(x) PROVE intent'.policy = intent.policy
    BY <1>0, <2>2 DEF Claim, Pause, Finish, Intent
  <2>3. ASSUME ~(Claim(x) \/ Pause(x) \/ Finish(x)) PROVE intent' = intent
    BY <1>4, <2>3 DEF WorkerRelease, Release, Revalidate, Call, Return, Refuse,
       PreCall, AttachRef, Record, RecordAgain
  <2> QED BY <2>1, <2>2, <2>3
<1>5. ASSUME NEW x, Decision(x) PROVE Same
  <2>1. intent.policy # "unattempted"
    BY DEF InTime
  <2>2. UNCHANGED <<intent, late>>
    BY <1>5, <2>1 DEF Decision, Attempt, Authorize, Fanout
  <2> QED BY <2>2
<1>6. ASSUME SessionWakes \/ Faulty PROVE Same
  BY <1>6 DEF SessionWakes, Faulty, Crash, Throw
<1>7. ASSUME NEW w, Notify(w) \/ Ring(w) \/ \E e \in Events : Take(w, e)
      PROVE  Same
  BY <1>7 DEF Notify, Ring, Take
<1>8. ASSUME UNCHANGED vars PROVE Same
  BY <1>8 DEF vars
<1>9. Same => InTime'
  BY DEF InTime
<1> HIDE DEF Same
<1>10. CASE Users
  BY <1>1, <1>2, <1>3, <1>9, <1>10 DEF Users
<1>11. ASSUME NEW w \in Workers, Worker(w) \/ \E e \in Events : Take(w, e)
       PROVE  Same
  BY <1>4, <1>5, <1>7, <1>11 DEF Worker
<1>12. Release(Session) => Same
  BY <1>4 DEF WorkerRelease
<1> QED BY <1>3, <1>5, <1>6, <1>8, <1>9, <1>10, <1>11, <1>12 DEF Next

\* Where intents go to people, or are a ticket's, the late fan-out that the
\* other theorems except cannot happen: a call and a denial never coexist.
THEOREM CallsFinal ==
    ASSUME Modes \cap {"policy", "script_reviewer"} = {}
    PROVE  Spec => []CallFinal
<1>1. Init => InTime
  BY DEF Init, InTime
<1>2. IntentInv /\ InTime => CallFinal
  BY DEF IntentInv, InTime, Released, RowsAgree, CallFinal
<1> QED BY <1>1, <1>2, NextInTime, IntentInvariant, PTL DEF Spec
============================================================================
