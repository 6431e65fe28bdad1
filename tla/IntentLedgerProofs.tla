------------------------- MODULE IntentLedgerProofs -------------------------
(***************************************************************************)
(* What the operation row of a task-linked intent says, for any sets of    *)
(* approvers and workers, any kinds, lanes and deliveries: a row that says *)
(* nothing was sent is right, whatever fails; and a success that came back *)
(* from the tool is on the row before the release goes on, unless a write  *)
(* of the row itself fails.                                                *)
(***************************************************************************)
EXTENDS ActionIntentsProofs

-----------------------------------------------------------------------------
(* The inductive invariants, on top of IntentInv.                          *)

\* The intent is claimed or its tool was called.
Busy == calls > 0 \/ \E x \in Procs : Holds(x)

\* Only a task has an operation, from its creation on; and the operation of a
\* claimed intent is neither reserved nor cancelled.
SentInv ==
    /\ intent.status = "none" \/ intent.kind # "task" => op.dispatch = "none"
    /\ Busy /\ ~late => op.dispatch \notin {"reserved", "cancelled"}

\* What a call of the tool comes back with.
Real == {"threw", "error", "error_timeout", "timeout", "unsuccessful", "ok"}

Before == {"idle", "claim", "refused", "attempt", "authorize", "fanout"}
Holding == {"revalidate", "precall", "pausing", "call"}
Unreferred == {"called", "attach"}
Unrecorded == Unreferred \cup {"record"}
Recorded == {"finish", "again", "notify", "ring"}

\* The process whose call it was, until it has left.
Caller(x) == rel[x].pc \in Unreferred \/ rel[x].outcome \in Real

\* One process at most has called the tool.  Until it has attached a reference
\* to what came back there is none, and nobody has written more than `unknown`;
\* until it has recorded a success, the reconciler has not written a failure.
OutcomeInv ==
    /\ \A x \in Procs : rel[x].outcome \in Real =>
          rel[x].pc \in {"attach", "record"} \cup Recorded
    /\ \A x, y \in Procs : Caller(x) => calls > 0 /\ (Caller(y) => x = y)
    /\ calls = 0 \/ (\E x \in Procs : Caller(x) /\ rel[x].pc \in Unreferred) =>
          ~op.ref /\ op.result \in {"pending", "unknown"}
    /\ \A x \in Procs : rel[x].outcome = "ok" /\ rel[x].pc = "record" =>
          op.result # "failed"
    /\ OutcomeKept

-----------------------------------------------------------------------------
(* Writes of the operation row, field by field.                            *)

\* The row is left as dispatched as it was, or its dispatch is given up.
DispatchMove ==
    \/ op'.dispatch = op.dispatch
    \/ /\ op.dispatch \in {"reserved", "dispatched"}
       /\ op'.dispatch = "dispatch_failed"

\* Neither the result nor the reference is written.
SameResult == op'.result = op.result /\ op'.ref = op.ref

\* Each write changes one field; a result only grows in rank.
LEMMA OpFields ==
    ASSUME TypeOK
    PROVE  /\ DispatchFailed => DispatchMove /\ SameResult
           /\ LedgerFails => op' = op
           /\ SetOp([op EXCEPT !.ref = TRUE]) =>
                 op'.dispatch = op.dispatch /\ op'.result = op.result
           /\ SetOp([op EXCEPT !.stopAsked = TRUE]) =>
                 op'.dispatch = op.dispatch /\ SameResult
           /\ \A d : SetOp([op EXCEPT !.dispatch = d]) => SameResult
           /\ SetOp(OperationCancelled) => SameResult
<1>0. op \in Operation
  BY DEF TypeOK
<1> USE DEF SameResult
<1>1. DispatchFailed => DispatchMove /\ SameResult
  BY <1>0 DEF DispatchFailed, DispatchMove, SetOp, Operation
<1>2. LedgerFails => op' = op
  BY DEF LedgerFails
<1>3. SetOp([op EXCEPT !.ref = TRUE]) =>
         op'.dispatch = op.dispatch /\ op'.result = op.result
  BY <1>0 DEF SetOp, Operation
<1>4. SetOp([op EXCEPT !.stopAsked = TRUE]) =>
         op'.dispatch = op.dispatch /\ SameResult
  BY <1>0 DEF SetOp, Operation
<1>5. \A d : SetOp([op EXCEPT !.dispatch = d]) => SameResult
  BY <1>0 DEF SetOp, Operation
<1>6. SetOp(OperationCancelled) => SameResult
  BY <1>0 DEF SetOp, OperationCancelled, Operation
<1> QED BY <1>1, <1>2, <1>3, <1>4, <1>5, <1>6

\* What writing a result does: nothing, or that result over a weaker one.
LEMMA ResultFields ==
    ASSUME TypeOK, NEW r \in {"unknown", "failed", "succeeded"}, RecordResult(r)
    PROVE  /\ op'.dispatch = op.dispatch /\ op'.ref = op.ref
           /\ \/ op'.result = op.result
              \/ /\ op'.result = r
                 /\ op.result = "pending" \/ (op.result = "unknown" /\ r # "unknown")
           /\ (/\ intent.kind = "task" /\ r = "succeeded"
               /\ op.result \in {"pending", "unknown"}) => op'.result = "succeeded"
<1>0. op \in Operation /\ op.result \in {"pending", "unknown", "failed", "succeeded"}
  BY DEF TypeOK, Operation
<1>1. /\ Rank("pending") = 0 /\ Rank("unknown") = 1
      /\ Rank("failed") = 2 /\ Rank("succeeded") = 2
  BY DEF Rank
<1>2. op' = op \/ op' = [op EXCEPT !.result = r]
  BY DEF RecordResult, SetOp
<1>3. /\ op'.dispatch = op.dispatch /\ op'.ref = op.ref
      /\ op'.result \in {op.result, r}
  BY <1>0, <1>2 DEF Operation
<1>4. op' # op => Rank(op.result) < Rank(r)
  BY DEF RecordResult, SetOp
<1>5. Rank(op.result) < Rank(r) /\ intent.kind = "task" => op'.result = r
  BY <1>0 DEF RecordResult, SetOp, Operation
<1>6. Rank(op.result) < Rank(r) =>
         op.result = "pending" \/ (op.result = "unknown" /\ r # "unknown")
  BY <1>0, <1>1
<1>7. r = "succeeded" /\ op.result \in {"pending", "unknown"} =>
         Rank(op.result) < Rank(r)
  BY <1>0, <1>1
<1> QED BY <1>3, <1>4, <1>5, <1>6, <1>7

-----------------------------------------------------------------------------
(* The steps, as what they do to the row, the processes and the calls.     *)

\* No process is touched, and neither what was sent nor what came back.
Outside ==
    /\ rel' = rel /\ calls' = calls /\ late' = late
    /\ op'.dispatch = op.dispatch /\ SameResult
    /\ intent'.kind = intent.kind
    /\ intent'.status = "none" => intent.status = "none"

\* Decisions and clocks, the end of an open intent and a request to stop.
LEMMA OutsideSteps ==
    ASSUME TypeOK,
           \/ \E a \in Approvers : Report(a) \/ (\E v \in {"approved", "rejected"} :
                                                    Decide(a, v))
           \/ DenyForProposal \/ Clocks \/ ExpireReap
    PROVE  Outside
<1>0. intent \in Intent
  BY DEF TypeOK
<1>1. UNCHANGED <<op, rel, calls, late>>
  BY DEF Report, Decide, DenyForProposal, Clocks, WindowEnds, LeaseEnds,
     ExecAges, ExpireReap
<1>2. /\ intent'.kind = intent.kind
      /\ intent'.status = "none" => intent.status = "none"
  <2>1. CASE \E a \in Approvers : Report(a)
    BY <1>0, <2>1 DEF Report, Intent
  <2>2. ASSUME NEW a \in Approvers, NEW v \in {"approved", "rejected"}, Decide(a, v)
        PROVE  /\ intent'.kind = intent.kind
               /\ intent'.status = "none" => intent.status = "none"
    <3>1. DecidedBy(v).kind = intent.kind /\ DecidedBy(v).status = v
      BY <1>0 DEF DecidedBy, Intent
    <3>2. intent' = DecidedBy(v) \/ intent' = intent
      BY <2>2 DEF Decide
    <3> QED BY <3>1, <3>2
  <2>3. CASE Clocks
    BY <1>0, <2>3 DEF Clocks, WindowEnds, LeaseEnds, ExecAges, Intent
  <2>4. CASE DenyForProposal \/ ExpireReap
    BY <1>0, <2>4 DEF DenyForProposal, ExpireReap, Intent
  <2> QED BY <2>1, <2>2, <2>3, <2>4
<1> QED BY <1>1, <1>2 DEF Outside, SameResult

\* One process takes a step to pc, with outcome o; nobody else does.
Goes(x, pc, o) ==
    /\ rel'[x].pc = pc /\ rel'[x].outcome = o
    /\ \A y \in Procs \ {x} : rel'[y] = rel[y]

\* It leaves the release.
Leaves(x) == Goes(x, "idle", "none") \/ Goes(x, "notify", rel[x].outcome)

\* The ways to write a process that the actions use.
LEMMA GoesOn ==
    ASSUME TypeOK, NEW x \in Procs
    PROVE  /\ \A pc : rel' = [rel EXCEPT ![x].pc = pc] =>
                        Goes(x, pc, rel[x].outcome)
           /\ \A pc : rel' = [rel EXCEPT ![x] = [rel[x] EXCEPT !.pc = pc]] =>
                        Goes(x, pc, rel[x].outcome)
           /\ \A pc, e : rel' = [rel EXCEPT ![x].pc = pc, ![x].event = e] =>
                           Goes(x, pc, rel[x].outcome)
           /\ \A pc, s : rel' = [rel EXCEPT ![x].pc = pc, ![x].saw = s] =>
                           Goes(x, pc, rel[x].outcome)
           /\ \A pc, o : (\/ rel' = [rel EXCEPT ![x].pc = pc, ![x].outcome = o]
                          \/ rel' = [rel EXCEPT ![x].outcome = o, ![x].pc = pc])
                            => Goes(x, pc, o)
           /\ rel' = [rel EXCEPT ![x] = Idle] => Goes(x, "idle", "none")
           /\ rel' = [rel EXCEPT ![x] = Leave(x)] => Leaves(x)
<1>0. rel[x] \in Proc /\ rel \in [Procs -> Proc]
  BY DEF TypeOK
<1>1. \A pc : rel' = [rel EXCEPT ![x].pc = pc] => Goes(x, pc, rel[x].outcome)
  BY <1>0 DEF Goes, Proc
<1>2. \A pc : rel' = [rel EXCEPT ![x] = [rel[x] EXCEPT !.pc = pc]] =>
              Goes(x, pc, rel[x].outcome)
  BY <1>0 DEF Goes, Proc
<1>3. \A pc, e : rel' = [rel EXCEPT ![x].pc = pc, ![x].event = e] =>
                 Goes(x, pc, rel[x].outcome)
  BY <1>0 DEF Goes, Proc
<1>4. \A pc, s : rel' = [rel EXCEPT ![x].pc = pc, ![x].saw = s] =>
                 Goes(x, pc, rel[x].outcome)
  BY <1>0 DEF Goes, Proc
<1>5. \A pc, o : (\/ rel' = [rel EXCEPT ![x].pc = pc, ![x].outcome = o]
                 \/ rel' = [rel EXCEPT ![x].outcome = o, ![x].pc = pc])
                   => Goes(x, pc, o)
  BY <1>0 DEF Goes, Proc
<1>6. rel' = [rel EXCEPT ![x] = Idle] => Goes(x, "idle", "none")
  BY <1>0 DEF Goes, Idle
<1>7. rel' = [rel EXCEPT ![x] = Leave(x)] => Leaves(x)
  BY <1>2, <1>6 DEF Leave, Leaves
<1> QED BY <1>1, <1>2, <1>3, <1>4, <1>5, <1>6, <1>7

\* A process outside the release and the row: it takes a job, dies or throws,
\* tells the requester, or decides for the policy.
Aside(x) ==
    \/ \E e \in Events : Take(x, e)
    \/ Crash(x) \/ Throw(x) \/ (x = Session /\ SessionWakes)
    \/ Notify(x) \/ Ring(x) \/ Attempt(x) \/ Authorize(x)

\* It goes idle, or takes up a job or the policy's decision, or tells.
LEMMA AsideSteps ==
    ASSUME TypeOK, NEW x \in Procs, Aside(x)
    PROVE  /\ op' = op /\ calls' = calls /\ late' = late
           /\ intent'.kind = intent.kind
           /\ intent'.status = "none" => intent.status = "none"
           /\ \/ Goes(x, "idle", "none")
              \/ /\ rel[x].pc \in Before
                 /\ \E pc \in Before \cup {"notify"} : Goes(x, pc, rel[x].outcome)
              \/ rel[x].pc = "notify" /\ Goes(x, "ring", rel[x].outcome)
<1>0. intent \in Intent
  BY DEF TypeOK
<1>1. op' = op /\ calls' = calls /\ late' = late
  BY DEF Aside, Take, Crash, Throw, SessionWakes, Notify, Ring, Attempt, Authorize
<1>2. /\ intent'.kind = intent.kind
      /\ intent'.status = "none" => intent.status = "none"
  <2>1. CASE Authorize(x)
    BY <1>0, <2>1 DEF Authorize, Intent
  <2>2. CASE ~Authorize(x)
    BY <2>2 DEF Aside, Take, Crash, Throw, SessionWakes, Notify, Ring, Attempt
  <2> QED BY <2>1, <2>2
<1> DEFINE Move == \/ Goes(x, "idle", "none")
                   \/ /\ rel[x].pc \in Before
                      /\ \E pc \in Before \cup {"notify"} :
                            Goes(x, pc, rel[x].outcome)
                   \/ rel[x].pc = "notify" /\ Goes(x, "ring", rel[x].outcome)
<1>3. ASSUME NEW e \in Events, Take(x, e) PROVE Move
  <2>1. EntryPoint(e) \in {"notify", "attempt", "claim", "idle"}
    BY DEF EntryPoint
  <2>2. Goes(x, EntryPoint(e), rel[x].outcome) /\ rel[x].pc = "idle"
    BY <1>3, GoesOn DEF Take
  <2> QED BY <2>1, <2>2 DEF Before
<1>4. ASSUME Crash(x) \/ Throw(x) \/ Ring(x) PROVE Move
  BY <1>4, GoesOn DEF Crash, Throw, Ring
<1>5. ASSUME x = Session /\ SessionWakes PROVE Move
  BY <1>5, GoesOn DEF SessionWakes, Before
<1>6. ASSUME Notify(x) PROVE Move
  BY <1>6, GoesOn DEF Notify
<1>7. ASSUME Attempt(x) \/ Authorize(x) PROVE Move
  <2>1. rel[x].pc \in Before
    BY <1>7 DEF Attempt, Authorize, Before
  <2>2. \/ rel' = [rel EXCEPT ![x] = Idle]
        \/ \E pc \in {"fanout", "authorize"} : rel' = [rel EXCEPT ![x].pc = pc]
    BY <1>7 DEF Attempt, Authorize, EndAttempt
  <2> QED BY <2>1, <2>2, GoesOn DEF Before
<1>8. Move
  <2> HIDE DEF Move
  <2> QED BY <1>3, <1>4, <1>5, <1>6, <1>7 DEF Aside
<1> QED BY <1>1, <1>2, <1>8

-----------------------------------------------------------------------------
(* Nothing was sent.                                                       *)

\* A step that claims and calls nothing and leaves the row as dispatched as it
\* was, or gives its dispatch up.
SentFacts ==
    /\ Busy' => Busy
    /\ late' = late /\ intent'.kind = intent.kind
    /\ intent'.status = "none" => intent.status = "none"
    /\ DispatchMove

\* Such a step keeps the invariant.
LEMMA SentStep ==
    ASSUME SentInv, SentFacts PROVE SentInv'
BY DEF SentInv, SentFacts, DispatchMove

\* A process that goes on without a claim makes nothing busy.
LEMMA NotBusier ==
    ASSUME NEW x \in Procs, NEW pc, NEW o, Goes(x, pc, o), calls' = calls,
           pc \in Holding => Holds(x)
    PROVE  Busy' => Busy
<1>1. \A y \in Procs : Holds(y)' => Holds(y)
  BY DEF Goes, Holds, Holding
<1> QED BY <1>1 DEF Busy

\* Steps outside the release.
LEMMA SentAside ==
    ASSUME TypeOK,
           Outside \/ \E x \in Procs : Aside(x)
    PROVE  SentFacts
<1>1. CASE Outside
  BY <1>1 DEF Outside, SentFacts, Busy, Holds, DispatchMove
<1>2. ASSUME NEW x \in Procs, Aside(x) PROVE SentFacts
  <2>1. PICK pc \in Before \cup {"notify", "ring"}, o \in {"none", rel[x].outcome} :
           Goes(x, pc, o)
    BY <1>2, AsideSteps DEF Before
  <2>2. pc \notin Holding
    BY DEF Before, Holding
  <2>3. /\ op' = op /\ calls' = calls /\ late' = late
        /\ intent'.kind = intent.kind
        /\ intent'.status = "none" => intent.status = "none"
    BY <1>2, AsideSteps
  <2>4. Busy' => Busy
    BY <2>1, <2>2, <2>3, NotBusier
  <2> QED BY <2>3, <2>4 DEF SentFacts, DispatchMove
<1> QED BY <1>1, <1>2

\* The steps of a release that keep its claim or lose it, and what they write.
LEMMA SentRelease ==
    ASSUME TypeOK, NEW x \in Procs,
           \/ Refuse(x) \/ Revalidate(x) \/ PreCall(x) \/ Return(x)
           \/ AttachRef(x) \/ Record(x) \/ RecordAgain(x) \/ Finish(x)
    PROVE  SentFacts
<1>0. intent \in Intent
  BY DEF TypeOK
<1>1. calls' = calls /\ late' = late
  BY DEF Refuse, Revalidate, PreCall, Return, AttachRef, Record, RecordAgain, Finish
<1>2. intent'.kind = intent.kind /\ (intent'.status = "none" => intent.status = "none")
  <2>1. ASSUME Finish(x)
        PROVE  intent'.kind = intent.kind
               /\ (intent'.status = "none" => intent.status = "none")
    <3>1. Ending(rel[x].outcome) # "none"
      BY DEF Ending
    <3>2. \/ intent' = [intent EXCEPT !.status = Ending(rel[x].outcome)]
          \/ intent' = intent
      BY <2>1 DEF Finish
    <3> QED BY <1>0, <3>1, <3>2 DEF Intent
  <2>2. ASSUME ~Finish(x) PROVE intent' = intent
    BY <2>2 DEF Refuse, Revalidate, PreCall, Return, AttachRef, Record, RecordAgain
  <2> QED BY <2>1, <2>2
<1>3. DispatchMove
  <2>1. \A o : ResultOf(o) \in {"unknown", "failed", "succeeded"}
    BY DEF ResultOf
  <2>2. ASSUME \/ DispatchFailed \/ LedgerFails \/ op' = op
               \/ SetOp([op EXCEPT !.ref = TRUE])
               \/ \E o : RecordResult(ResultOf(o))
        PROVE  DispatchMove
    BY <2>1, <2>2, OpFields, ResultFields DEF DispatchMove
  <2>3. \/ DispatchFailed \/ LedgerFails \/ op' = op
        \/ SetOp([op EXCEPT !.ref = TRUE])
        \/ \E o : RecordResult(ResultOf(o))
    BY DEF Refuse, Revalidate, PreCall, Return, AttachRef, Record, RecordAgain, Finish
  <2> QED BY <2>2, <2>3
<1>4. Busy' => Busy
  <2>1. CASE Revalidate(x) \/ PreCall(x)
    <3>1. Holds(x)
      BY <2>1 DEF Revalidate, PreCall, Holds
    <3> QED BY <1>1, <3>1 DEF Busy, Holds, Procs
  <2>2. CASE \/ Refuse(x) \/ Return(x) \/ AttachRef(x) \/ Record(x)
             \/ RecordAgain(x) \/ Finish(x)
    <3>1. \E pc \in {"notify", "finish", "record", "attach", "again", "idle"} :
             \E o : Goes(x, pc, o)
      <4>1. ASSUME rel' = [rel EXCEPT ![x] = Leave(x)]
            PROVE  \E pc \in {"notify", "idle"} : \E o : Goes(x, pc, o)
        BY <4>1, GoesOn DEF Leaves
      <4>2. CASE Refuse(x) \/ AttachRef(x) \/ Record(x)
        BY <4>2, GoesOn DEF Refuse, AttachRef, Record
      <4>3. CASE Return(x)
        <5>1. PICK o \in Real, pc \in {"finish", "record", "attach"} :
                 rel' = [rel EXCEPT ![x].outcome = o, ![x].pc = pc]
          BY <4>3 DEF Return, Real
        <5>2. Goes(x, pc, o)
          BY <5>1, GoesOn
        <5> QED BY <5>2
      <4>4. CASE RecordAgain(x)
        BY <4>1, <4>4 DEF RecordAgain
      <4>5. CASE Finish(x)
        <5>1. \/ rel' = [rel EXCEPT ![x] = Leave(x)]
              \/ rel' = [rel EXCEPT ![x] = [rel[x] EXCEPT !.pc = "again"]]
          BY <4>5 DEF Finish
        <5> QED BY <4>1, <5>1, GoesOn
      <4> QED BY <2>2, <4>2, <4>3, <4>4, <4>5
    <3> QED BY <1>1, <3>1, NotBusier DEF Holding
  <2> QED BY <2>1, <2>2
<1> QED BY <1>1, <1>2, <1>3, <1>4 DEF SentFacts

\* The creation makes the operation of a task; nothing was claimed before it.
LEMMA SentCreate ==
    ASSUME IntentInv, SentInv, NEW k \in Kinds, NEW m \in Modes,
           NEW pool \in SUBSET Approvers, Create(k, m, pool)
    PROVE  SentInv'
<1>0. TypeOK /\ intent \in Intent /\ op \in Operation /\ Trigger \in Procs
  BY DEF IntentInv, TypeOK, Procs
<1>1. Open /\ op.dispatch = "none"
  BY DEF Create, Open, SentInv
<1>2. calls = 0 /\ \A x \in Procs : ~Holds(x)
  BY <1>1, OpenUncalled
<1>3. calls' = 0 /\ (k # "task" => op' = op)
  BY <1>2 DEF Create
<1>4. intent'.kind = k /\ intent'.status # "none"
  BY <1>0 DEF Create, Intent
<1>5. rel' = rel \/ Goes(Trigger, "attempt", rel[Trigger].outcome)
  BY <1>0, GoesOn DEF Create
<1>6. \A x \in Procs : ~Holds(x)'
  BY <1>2, <1>5 DEF Holds, Goes
<1> QED BY <1>1, <1>3, <1>4, <1>6 DEF SentInv, Busy

\* A cancellation finds nothing claimed, or only asks to stop.
LEMMA SentCancel ==
    ASSUME IntentInv, SentInv, CancelIntent PROVE SentInv'
<1>0. TypeOK /\ intent \in Intent /\ op \in Operation
  BY DEF IntentInv, TypeOK
<1>1. UNCHANGED <<rel, calls, late>>
  BY DEF CancelIntent
<1>2. CASE /\ intent.status \in {"pending_approval", "approved"}
           /\ intent' = [intent EXCEPT !.status = "cancelled"]
           /\ SetOp(OperationCancelled)
  <2>1. calls' = 0 /\ \A x \in Procs : ~Holds(x)'
    BY <1>1, <1>2, OpenUncalled DEF Open, Holds
  <2>2. intent'.kind = intent.kind /\ intent'.status # "none"
    BY <1>0, <1>2 DEF Intent
  <2>3. intent.kind # "task" => op' = op
    BY <1>2 DEF SetOp
  <2> QED BY <2>1, <2>2, <2>3 DEF SentInv, Busy
<1>3. CASE SetOp([op EXCEPT !.stopAsked = TRUE]) /\ UNCHANGED intent
  <2>1. Outside
    BY <1>0, <1>1, <1>3, OpFields DEF Outside
  <2> QED BY <1>0, <2>1, SentAside, SentStep
<1> QED BY <1>2, <1>3 DEF CancelIntent

\* The claim marks the operation dispatched, and is refused without it.
LEMMA SentClaim ==
    ASSUME IntentInv, SentInv, NEW x \in Procs, Claim(x) PROVE SentInv'
<1>0. TypeOK /\ intent \in Intent /\ op \in Operation
  BY DEF IntentInv, TypeOK
<1>1. UNCHANGED <<calls, late>>
  BY DEF Claim
<1>2. CASE /\ MarkDispatched
           /\ intent' = [intent EXCEPT !.status = "executing", !.stale = FALSE]
  <2>1. intent'.kind = intent.kind /\ intent'.status # "none"
    BY <1>0, <1>2 DEF Intent
  <2>2. intent.kind = "task" => op'.dispatch = "dispatched"
    BY <1>0, <1>2 DEF MarkDispatched, SetOp, Operation
  <2>3. intent.kind # "task" => op' = op
    BY <1>2 DEF MarkDispatched, SetOp
  <2> QED BY <2>1, <2>2, <2>3 DEF SentInv
<1>3. CASE /\ \/ rel' = [rel EXCEPT ![x] = Leave(x)]
              \/ rel' = [rel EXCEPT ![x].pc = "refused"]
           /\ UNCHANGED <<intent, op>>
  <2>1. \E pc \in {"idle", "notify", "refused"} : \E o : Goes(x, pc, o)
    BY <1>0, <1>3, GoesOn DEF Leaves
  <2>2. Busy' => Busy
    BY <1>1, <2>1, NotBusier DEF Holding
  <2>3. SentFacts
    BY <1>1, <1>3, <2>2 DEF SentFacts, DispatchMove
  <2> QED BY <2>3, SentStep
<1> QED BY <1>2, <1>3 DEF Claim

\* A pause makes the operation reserved again, and nobody is left with a claim.
LEMMA SentPause ==
    ASSUME IntentInv, SentInv, NEW x \in Procs, Pause(x) PROVE SentInv'
<1>0. TypeOK /\ intent \in Intent /\ op \in Operation /\ Holds(x)
  BY DEF IntentInv, TypeOK, Pause, Holds
<1>1. UNCHANGED <<calls, late>> /\ Goes(x, "notify", rel[x].outcome)
  BY <1>0, GoesOn DEF Pause
<1>2. calls' = 0 /\ \A y \in Procs : ~Holds(y)'
  BY <1>0, <1>1 DEF IntentInv, OneHolder, Holds, Goes
<1>3. /\ intent'.kind = intent.kind
      /\ intent'.status = "none" => intent.status = "none"
  BY <1>0 DEF Pause, Intent
<1>4. intent.kind # "task" \/ intent.status = "none" => op' = op
  BY DEF Pause, SetOp
<1> QED BY <1>2, <1>3, <1>4 DEF SentInv, Busy

\* The call gives the claim for it.
LEMMA SentCall ==
    ASSUME IntentInv, SentInv, NEW x \in Procs, Call(x) PROVE SentInv'
<1>1. Busy /\ UNCHANGED <<intent, op, late>>
  BY DEF Call, Busy, Holds
<1> QED BY <1>1 DEF SentInv

\* The deferred fan-out comes in time, with nothing claimed, or is late.
LEMMA SentFanout ==
    ASSUME IntentInv, SentInv, NEW x \in Procs, Fanout(x) PROVE SentInv'
<1>0. TypeOK /\ intent \in Intent /\ op \in Operation
  BY DEF IntentInv, TypeOK
<1>1. Goes(x, "idle", "none") /\ calls' = calls
  BY <1>0, GoesOn DEF Fanout, EndAttempt
<1>2. Busy' => Busy
  BY <1>1, NotBusier DEF Holding
<1>3. CASE UNCHANGED <<intent, op, late>>
  BY <1>2, <1>3, SentStep DEF SentFacts, DispatchMove
<1>4. ASSUME intent.policy = "unattempted", NEW pool \in SUBSET Approvers,
             intent' = [intent EXCEPT !.policy = "human_required",
                                      !.status = FanoutStatus(pool)],
             IF pool = {} THEN SetOp(OperationCancelled) ELSE op' = op,
             late' = (intent.status # "pending_approval")
      PROVE  SentInv'
  <2>1. /\ intent'.kind = intent.kind
        /\ intent'.status = "none" => intent.status = "none"
    BY <1>0, <1>4 DEF Intent, FanoutStatus
  <2>2. intent.status # "none" /\ (intent.kind # "task" => op' = op)
    BY <1>4 DEF IntentInv, FreshStart, SetOp
  <2>3. ~late' => ~Busy
    <3>1. late' \/ intent.status = "pending_approval"
      BY <1>4
    <3>2. intent.status = "pending_approval" => calls = 0 /\ \A y \in Procs : ~Holds(y)
      BY OpenUncalled DEF Open
    <3> QED BY <3>1, <3>2 DEF Busy
  <2> QED BY <1>2, <2>1, <2>2, <2>3 DEF SentInv
<1> QED BY <1>3, <1>4 DEF Fanout

\* The reaper of stale executions writes a result and an ending only, and the
\* reconciler a result.
LEMMA SentStale ==
    ASSUME TypeOK, SentInv, StaleReap \/ Reconcile PROVE SentInv'
<1>0. intent \in Intent
  BY DEF TypeOK
<1>1. UNCHANGED <<rel, calls, late>>
  BY DEF StaleReap, Reconcile
<1>2. op'.dispatch = op.dispatch
  BY OpFields, ResultFields DEF StaleReap, Reconcile
<1>3. /\ intent'.kind = intent.kind
      /\ intent'.status = "none" => intent.status = "none"
  BY <1>0 DEF StaleReap, Reconcile, Intent
<1> QED BY <1>1, <1>2, <1>3, SentStep DEF SentFacts, Busy, Holds, DispatchMove

\* Every step keeps the invariant.
LEMMA NextSent == IntentInv /\ SentInv /\ [Next]_vars => SentInv'
<1> SUFFICES ASSUME IntentInv, SentInv, [Next]_vars PROVE SentInv'
  OBVIOUS
<1>0. TypeOK /\ Session \in Procs /\ Trigger \in Procs /\ Workers \subseteq Procs
  BY DEF IntentInv, Procs
<1>1. CASE Users
  BY <1>0, <1>1, OutsideSteps, SentAside, SentStep, SentCreate, SentCancel DEF Users
<1>2. CASE Clocks \/ Reapers
  BY <1>0, <1>2, OutsideSteps, SentAside, SentStep, SentStale DEF Reapers
<1>3. ASSUME NEW x \in Procs, WorkerRelease(x) PROVE SentInv'
  BY <1>0, <1>3, SentRelease, SentStep, SentClaim, SentCall, SentPause
     DEF WorkerRelease, Release
<1>4. ASSUME NEW x \in Procs, Aside(x) PROVE SentInv'
  BY <1>0, <1>4, SentAside, SentStep
<1>5. ASSUME NEW x \in Procs, Decision(x) PROVE SentInv'
  BY <1>4, <1>5, SentFanout DEF Decision, Aside
<1>6. CASE SessionWakes \/ Faulty
  BY <1>0, <1>4, <1>6 DEF Faulty, Aside
<1>7. ASSUME NEW w \in Workers, Worker(w) \/ \E e \in Events : Take(w, e)
      PROVE  SentInv'
  BY <1>0, <1>3, <1>4, <1>5, <1>7 DEF Worker, Aside
<1>8. CASE Release(Session)
  BY <1>0, <1>3, <1>8 DEF WorkerRelease
<1>9. CASE UNCHANGED vars
  BY <1>9 DEF vars, SentInv, Busy, Holds
<1> QED BY <1>0, <1>1, <1>2, <1>5, <1>6, <1>7, <1>8, <1>9 DEF Next

\* An operation row that says reserved or cancelled is right: the tool was not
\* called, whatever crashed, threw, was delivered twice, paused or failed to be
\* written, unless the deferred fan-out came late.
THEOREM RowSaysUnsent == Spec => []NothingSent
<1>1. Init => SentInv
  BY DEF Init, SentInv, Busy, Holds, Idle
<1>2. SentInv /\ IntentInv => NothingSent
  BY DEF SentInv, IntentInv, TypeOK, Busy, NothingSent
<1> QED BY <1>1, <1>2, NextSent, IntentInvariant, PTL DEF Spec

-----------------------------------------------------------------------------
(* The outcome is kept.                                                    *)

\* What a step does to a process that is a caller after it: nothing, or it was
\* the caller before and goes on with what came back; it leaves its recording
\* with a success only when the row has it.
CallerMove(x) ==
    Caller(x)' =>
        \/ rel'[x] = rel[x]
        \/ /\ rel[x].pc = "called" /\ rel'[x].outcome \in Real
           /\ \/ rel'[x].pc = "attach"
              \/ rel'[x].pc = "record" /\ rel'[x].outcome # "ok"
              \/ rel'[x].pc = "finish" /\ intent.kind # "task"
        \/ /\ rel[x].outcome \in Real /\ rel'[x].outcome = rel[x].outcome
           /\ \/ rel[x].pc = "attach" /\ rel'[x].pc = "record"
              \/ rel[x].pc \in Recorded /\ rel'[x].pc \in Recorded
              \/ /\ rel[x].pc = "record" /\ rel'[x].pc = "finish"
                 /\ intent.kind = "task" /\ rel[x].outcome = "ok" =>
                       op'.result = "succeeded"

\* A result is written by the caller as it leaves its recording, by the
\* reconciler for a command referred to, or is the unknown of somebody else
\* over nothing.
ResultMove ==
    \/ op'.result = op.result
    \/ op.result = "pending" /\ op'.result = "unknown"
    \/ \E x \in Procs : /\ Caller(x) /\ rel'[x].pc \notin Unrecorded
                        /\ op.result \in {"pending", "unknown"}
    \/ /\ op.ref /\ op.result \in {"pending", "unknown"} /\ rel' = rel
       /\ op'.result = "failed" => \A x \in Procs : rel[x].outcome # "ok"

\* A reference is attached by the caller.
RefMove ==
    \/ op'.ref = op.ref
    \/ \E x \in Procs : Caller(x) /\ rel'[x].pc = "record"

OutcomeFacts ==
    /\ \A x \in Procs : CallerMove(x)
    /\ calls' = calls /\ intent'.kind = intent.kind /\ ResultMove /\ RefMove

\* Such a step keeps the invariant.
LEMMA OutcomeStep ==
    ASSUME OutcomeInv, OutcomeFacts PROVE OutcomeInv'
<1>1. ASSUME NEW x \in Procs, Caller(x)' PROVE Caller(x) /\ calls' > 0
  <2>1. Caller(x)
    BY <1>1 DEF OutcomeFacts, CallerMove, Caller, Unreferred
  <2> QED BY <2>1 DEF OutcomeInv, OutcomeFacts
<1>2. \A x \in Procs : rel'[x].outcome \in Real =>
         rel'[x].pc \in {"attach", "record"} \cup Recorded
  <2> SUFFICES ASSUME NEW x \in Procs, rel'[x].outcome \in Real
               PROVE  rel'[x].pc \in {"attach", "record"} \cup Recorded
    OBVIOUS
  <2>1. Caller(x)' /\ CallerMove(x)
    BY DEF Caller, OutcomeFacts, Unreferred
  <2>2. rel[x].outcome \in Real => rel[x].pc \in {"attach", "record"} \cup Recorded
    BY DEF OutcomeInv
  <2> QED BY <2>1, <2>2 DEF CallerMove, Recorded
<1>3. \A x, y \in Procs : Caller(x)' => calls' > 0 /\ (Caller(y)' => x = y)
  BY <1>1 DEF OutcomeInv
<1>4. ASSUME \/ calls' = 0
             \/ \E x \in Procs : Caller(x)' /\ rel'[x].pc \in Unreferred
      PROVE  ~op'.ref /\ op'.result \in {"pending", "unknown"}
  <2>1. CASE calls' = 0
    <3>1. ~op.ref /\ op.result \in {"pending", "unknown"}
      BY <2>1 DEF OutcomeInv, OutcomeFacts
    <3>2. \A x \in Procs : ~Caller(x)
      BY <2>1 DEF OutcomeInv, OutcomeFacts
    <3> QED BY <3>1, <3>2 DEF OutcomeFacts, ResultMove, RefMove
  <2>2. ASSUME NEW x \in Procs, Caller(x)', rel'[x].pc \in Unreferred
        PROVE  ~op'.ref /\ op'.result \in {"pending", "unknown"}
    <3>1. Caller(x) /\ CallerMove(x)
      BY <1>1, <2>2 DEF OutcomeFacts
    <3>2. rel[x].pc \in Unreferred
      BY <2>2, <3>1 DEF CallerMove, Unreferred, Recorded
    <3>3. ~op.ref /\ op.result \in {"pending", "unknown"}
      BY <3>1, <3>2 DEF OutcomeInv
    <3>4. \A y \in Procs : Caller(y) => y = x
      BY <3>1 DEF OutcomeInv
    <3>5. rel'[x].pc \in Unrecorded /\ rel'[x].pc # "record"
      BY <2>2 DEF Unreferred, Unrecorded
    <3> QED BY <3>3, <3>4, <3>5 DEF OutcomeFacts, ResultMove, RefMove
  <2> QED BY <1>4, <2>1, <2>2
<1>s. ASSUME NEW x \in Procs, rel'[x].outcome = "ok", rel'[x].pc = "record"
      PROVE  op'.result # "failed"
  <2>1. Caller(x)' /\ Caller(x) /\ CallerMove(x)
    BY <1>s, <1>1 DEF Caller, Real, OutcomeFacts, Unreferred
  <2>2. \/ rel[x].outcome = "ok" /\ rel[x].pc = "record"
        \/ rel[x].pc = "attach"
    BY <1>s, <2>1 DEF CallerMove, Recorded
  <2>3. op.result # "failed"
    BY <2>1, <2>2 DEF OutcomeInv, Unreferred
  <2>4. \A y \in Procs : Caller(y) => y = x
    BY <2>1 DEF OutcomeInv
  <2>5. rel'[x].pc \in Unrecorded
    BY <1>s DEF Unrecorded
  <2> QED BY <1>s, <2>3, <2>4, <2>5 DEF OutcomeFacts, ResultMove
<1>5. ASSUME NEW x \in Procs, intent'.kind = "task", rel'[x].outcome = "ok",
             rel'[x].pc \in Recorded
      PROVE  op'.result = "succeeded"
  <2>1. Caller(x)' /\ CallerMove(x) /\ intent.kind = "task"
    BY <1>5 DEF Caller, Real, OutcomeFacts, Unreferred
  <2>2. CASE rel[x].outcome = "ok" /\ rel[x].pc \in Recorded
    <3>1. op.result = "succeeded"
      BY <2>1, <2>2 DEF OutcomeInv, OutcomeKept, Recorded
    <3> QED BY <3>1 DEF OutcomeFacts, ResultMove
  <2>3. CASE ~(rel[x].outcome = "ok" /\ rel[x].pc \in Recorded)
    BY <1>5, <2>1, <2>3 DEF CallerMove, Recorded
  <2> QED BY <2>2, <2>3
<1>6. OutcomeKept'
  BY <1>5 DEF OutcomeKept, Recorded
<1> HIDE DEF OutcomeFacts
<1> QED BY <1>2, <1>3, <1>4, <1>s, <1>6 DEF OutcomeInv

\* A process before or past its recording goes on with the outcome it had.
LEMMA MovesOn ==
    ASSUME OutcomeInv, NEW x \in Procs, NEW pc, NEW o, Goes(x, pc, o),
           pc \notin Unreferred,
           \/ o \notin Real
           \/ o = rel[x].outcome /\ rel[x].pc \notin {"attach", "record"}
              /\ (rel[x].pc \in Recorded => pc \in Recorded)
    PROVE  \A y \in Procs : CallerMove(y)
<1>1. \A y \in Procs \ {x} : CallerMove(y)
  BY DEF Goes, CallerMove
<1>2. CallerMove(x)
  BY DEF OutcomeInv, Goes, CallerMove, Caller, Unreferred
<1> QED BY <1>1, <1>2

\* Steps outside the release.
LEMMA OutcomeAside ==
    ASSUME IntentInv, OutcomeInv, Outside \/ \E x \in Procs : Aside(x)
    PROVE  OutcomeFacts
<1>0. TypeOK
  BY DEF IntentInv
<1>1. CASE Outside
  BY <1>1 DEF Outside, SameResult, OutcomeFacts, CallerMove, ResultMove, RefMove
<1>2. ASSUME NEW x \in Procs, Aside(x) PROVE OutcomeFacts
  <2>1. /\ op' = op /\ calls' = calls /\ intent'.kind = intent.kind
        /\ \/ Goes(x, "idle", "none")
           \/ /\ rel[x].pc \in Before
              /\ \E pc \in Before \cup {"notify"} : Goes(x, pc, rel[x].outcome)
           \/ rel[x].pc = "notify" /\ Goes(x, "ring", rel[x].outcome)
    BY <1>0, <1>2, AsideSteps
  <2>2. \A y \in Procs : CallerMove(y)
    <3>1. CASE Goes(x, "idle", "none")
      BY <3>1, MovesOn DEF Real, Unreferred
    <3>2. ASSUME NEW pc \in Before \cup {"notify"}, Goes(x, pc, rel[x].outcome),
                 rel[x].pc \in Before
          PROVE  \A y \in Procs : CallerMove(y)
      BY <3>2, MovesOn DEF Before, Recorded, Unreferred
    <3>3. CASE rel[x].pc = "notify" /\ Goes(x, "ring", rel[x].outcome)
      BY <3>3, MovesOn DEF Recorded, Unreferred
    <3> QED BY <2>1, <3>1, <3>2, <3>3
  <2> QED BY <2>1, <2>2 DEF OutcomeFacts, ResultMove, RefMove
<1> QED BY <1>1, <1>2

\* Steps that write neither a result nor the outcome of a call.
LEMMA OutcomeQuiet ==
    ASSUME IntentInv, OutcomeInv, NEW x \in Procs,
           \/ Claim(x) \/ Refuse(x) \/ Revalidate(x) \/ PreCall(x) \/ Pause(x)
           \/ Finish(x) \/ Fanout(x)
    PROVE  OutcomeFacts
<1>0. TypeOK /\ intent \in Intent
  BY DEF IntentInv, TypeOK
<1>1. calls' = calls
  BY DEF Claim, Refuse, Revalidate, PreCall, Pause, Finish, Fanout
<1>2. intent'.kind = intent.kind
  BY <1>0 DEF Claim, Refuse, Revalidate, PreCall, Pause, Finish, Fanout, Intent
<1>3. SameResult
  <2>1. op' = op => SameResult
    BY DEF SameResult
  <2> QED BY <1>0, <2>1, OpFields DEF Claim, MarkDispatched, Refuse, Revalidate,
     PreCall, Pause, Finish, Fanout
<1> DEFINE Moves == \A y \in Procs : CallerMove(y)
<1>l. ASSUME Leaves(x), rel[x].pc \in {"claim", "finish"} PROVE Moves
  BY <1>l, MovesOn DEF Leaves, Recorded, Real, Unreferred
<1>4. ASSUME Claim(x) PROVE Moves
  <2>1. rel[x].pc = "claim"
    BY <1>4 DEF Claim
  <2>2. Leaves(x) \/ \E pc \in {"revalidate", "refused"} : Goes(x, pc, rel[x].outcome)
    BY <1>0, <1>4, GoesOn DEF Claim
  <2> QED BY <1>l, <2>1, <2>2, MovesOn DEF Recorded, Unreferred
<1>5. ASSUME Refuse(x) \/ PreCall(x) \/ Pause(x) PROVE Moves
  <2>1. rel[x].pc \in {"refused", "precall", "pausing"}
    BY <1>5 DEF Refuse, PreCall, Pause
  <2>2. \E pc \in {"notify", "call", "pausing"} : Goes(x, pc, rel[x].outcome)
    BY <1>0, <1>5, GoesOn DEF Refuse, PreCall, Pause
  <2> QED BY <2>1, <2>2, MovesOn DEF Recorded, Unreferred
<1>6. ASSUME Revalidate(x) PROVE Moves
  <2>1. rel[x].pc = "revalidate"
    BY <1>6 DEF Revalidate
  <2>2. \/ \E pc \in {"call", "precall", "pausing"} : rel' = [rel EXCEPT ![x].pc = pc]
        \/ \E pc \in {"finish", "record"} :
              rel' = [rel EXCEPT ![x].pc = pc, ![x].outcome = "stopped"]
    BY <1>6 DEF Revalidate
  <2>3. \/ \E pc \in {"call", "precall", "pausing"} : Goes(x, pc, rel[x].outcome)
        \/ \E pc \in {"finish", "record"} : Goes(x, pc, "stopped")
    BY <1>0, <2>2, GoesOn
  <2> QED BY <2>1, <2>3, MovesOn DEF Recorded, Real, Unreferred
<1>7. ASSUME Finish(x) PROVE Moves
  <2>1. rel[x].pc = "finish"
    BY <1>7 DEF Finish
  <2>2. \/ rel' = [rel EXCEPT ![x] = Leave(x)]
        \/ rel' = [rel EXCEPT ![x] = [rel[x] EXCEPT !.pc = "again"]]
    BY <1>7 DEF Finish
  <2>3. Leaves(x) \/ Goes(x, "again", rel[x].outcome)
    BY <1>0, <2>2, GoesOn
  <2> QED BY <1>l, <2>1, <2>3, MovesOn DEF Recorded, Unreferred
<1>8. ASSUME Fanout(x) PROVE Moves
  <2>1. Goes(x, "idle", "none")
    BY <1>0, <1>8, GoesOn DEF Fanout, EndAttempt
  <2> QED BY <2>1, MovesOn DEF Real, Unreferred
<1>9. Moves
  <2> HIDE DEF Moves
  <2> QED BY <1>4, <1>5, <1>6, <1>7, <1>8
<1> QED BY <1>1, <1>2, <1>3, <1>9 DEF OutcomeFacts, ResultMove, RefMove, SameResult

\* The call returns, and its reference is attached.
LEMMA OutcomeReturn ==
    ASSUME IntentInv, OutcomeInv, NEW x \in Procs, Return(x) \/ AttachRef(x)
    PROVE  OutcomeFacts
<1>0. TypeOK
  BY DEF IntentInv
<1>1. UNCHANGED <<intent, calls>>
  BY DEF Return, AttachRef
<1>2. op'.result = op.result
  BY <1>0, OpFields DEF Return, AttachRef
<1>3. CASE Return(x)
  <2>1. PICK o \in Real, pc \in {"finish", "record", "attach"} :
           /\ rel' = [rel EXCEPT ![x].outcome = o, ![x].pc = pc]
           /\ pc = "finish" => intent.kind # "task"
           /\ pc = "record" => o # "ok"
    BY <1>3 DEF Return, Real
  <2>2. Goes(x, pc, o) /\ rel[x].pc = "called"
    BY <1>0, <1>3, <2>1, GoesOn DEF Return
  <2>3. \A y \in Procs : CallerMove(y)
    BY <2>1, <2>2 DEF Goes, CallerMove
  <2>4. op' = op
    BY <1>3 DEF Return
  <2> QED BY <1>1, <2>3, <2>4 DEF OutcomeFacts, ResultMove, RefMove
<1>4. CASE AttachRef(x)
  <2>1. Goes(x, "record", rel[x].outcome) /\ rel[x].pc = "attach"
    BY <1>0, <1>4, GoesOn DEF AttachRef
  <2>2. \A y \in Procs : CallerMove(y)
    BY <2>1 DEF Goes, CallerMove, Caller, Unreferred
  <2>3. RefMove
    <3>1. CASE op' = op
      BY <3>1 DEF RefMove
    <3>2. CASE op' # op
      <4>1. Caller(x) /\ rel'[x].pc = "record"
        BY <1>4, <2>1, <3>2 DEF AttachRef, SetOp, Goes, Caller, Unreferred
      <4> QED BY <4>1 DEF RefMove
    <3> QED BY <3>1, <3>2
  <2> QED BY <1>1, <1>2, <2>2, <2>3 DEF OutcomeFacts, ResultMove
<1> QED BY <1>3, <1>4

\* What a process writes of its outcome: of a success, success.
LEMMA ResultOfOutcome ==
    /\ \A o : ResultOf(o) \in {"unknown", "failed", "succeeded"}
    /\ ResultOf("ok") = "succeeded"
    /\ \A o : o \notin Real => ResultOf(o) = "unknown"
BY DEF ResultOf, Real

\* The outcome is recorded, if the row can be written.
LEMMA OutcomeRecord ==
    ASSUME IntentInv, OutcomeInv, NEW x \in Procs, "ledger" \notin Faults, Record(x)
    PROVE  OutcomeFacts
<1>0. TypeOK
  BY DEF IntentInv
<1>1. UNCHANGED <<intent, calls>> /\ rel[x].pc = "record"
  BY DEF Record
<1>2. Goes(x, "finish", rel[x].outcome)
  BY <1>0, GoesOn DEF Record
<1>3. \/ rel[x].outcome = "stopped" /\ DispatchFailed
      \/ RecordResult(ResultOf(rel[x].outcome))
  BY DEF Record, LedgerFails
<1>4. CASE rel[x].outcome \notin Real
  <2>1. \A y \in Procs : CallerMove(y)
    BY <1>2, <1>4, MovesOn DEF Unreferred
  <2>2. /\ op'.result = op.result \/ (op.result = "pending" /\ op'.result = "unknown")
        /\ op'.ref = op.ref
    BY <1>0, <1>3, <1>4, OpFields, ResultFields, ResultOfOutcome DEF SameResult
  <2> QED BY <1>1, <2>1, <2>2 DEF OutcomeFacts, ResultMove, RefMove
<1>5. CASE rel[x].outcome \in Real
  <2>0. Caller(x) /\ RecordResult(ResultOf(rel[x].outcome))
    BY <1>3, <1>5 DEF Caller, Real, Unreferred
  <2>1. /\ op'.ref = op.ref
        /\ op'.result = op.result \/ op.result \in {"pending", "unknown"}
    BY <1>0, <2>0, ResultFields, ResultOfOutcome
  <2>2. ASSUME intent.kind = "task", rel[x].outcome = "ok"
        PROVE  op'.result = "succeeded"
    <3>1. op.result \in {"pending", "unknown", "succeeded"}
      BY <1>0, <1>1, <2>2 DEF OutcomeInv, TypeOK, Operation
    <3> QED BY <1>0, <2>0, <2>1, <2>2, <3>1, ResultFields, ResultOfOutcome
  <2>3. \A y \in Procs : CallerMove(y)
    BY <1>1, <1>2, <1>5, <2>2 DEF Goes, CallerMove
  <2>4. rel'[x].pc \notin Unrecorded
    BY <1>2 DEF Goes, Unrecorded, Unreferred
  <2> QED BY <1>1, <2>0, <2>1, <2>3, <2>4 DEF OutcomeFacts, ResultMove, RefMove
<1> QED BY <1>4, <1>5

\* A completion that lost its race writes the outcome again, over a weaker one.
LEMMA OutcomeAgain ==
    ASSUME IntentInv, OutcomeInv, NEW x \in Procs, RecordAgain(x) PROVE OutcomeFacts
<1>0. TypeOK
  BY DEF IntentInv
<1>1. UNCHANGED <<intent, calls>> /\ rel[x].pc = "again" /\ Leaves(x)
  BY <1>0, GoesOn DEF RecordAgain
<1>2. \A y \in Procs : CallerMove(y)
  BY <1>1, MovesOn DEF Leaves, Recorded, Real, Unreferred
<1>3. rel'[x].pc \notin Unrecorded
  BY <1>1 DEF Leaves, Goes, Unrecorded, Unreferred
<1>4. op' = op \/ RecordResult(ResultOf(rel[x].outcome))
  BY DEF RecordAgain, LedgerFails
<1>5. ResultMove
  <2>1. CASE op'.result = op.result
    BY <2>1 DEF ResultMove
  <2>2. CASE op'.result # op.result /\ rel[x].outcome \notin Real
    BY <1>0, <1>4, <2>2, ResultFields, ResultOfOutcome DEF ResultMove
  <2>3. CASE op'.result # op.result /\ rel[x].outcome \in Real
    <3>1. op.result \in {"pending", "unknown"}
      BY <1>0, <1>4, <2>3, ResultFields, ResultOfOutcome
    <3> QED BY <1>3, <2>3, <3>1 DEF ResultMove, Caller, Unreferred
  <2> QED BY <2>1, <2>2, <2>3
<1>6. RefMove
  BY <1>0, <1>4, ResultFields, ResultOfOutcome DEF RefMove
<1> QED BY <1>1, <1>2, <1>5, <1>6 DEF OutcomeFacts

\* The reconciler: no process is touched, and what it writes does not
\* contradict a success that came back.
LEMMA OutcomeReconcile ==
    ASSUME IntentInv, Reconcile PROVE OutcomeFacts
<1>0. TypeOK
  BY DEF IntentInv
<1>1. UNCHANGED <<intent, rel, calls>>
  BY DEF Reconcile
<1>2. PICK r \in {"unknown", "failed", "succeeded"} :
         /\ r = "failed" => \A x \in Procs : rel[x].outcome # "ok"
         /\ RecordResult(r)
  BY DEF Reconcile
<1>3. op.ref /\ op.result \in {"pending", "unknown"}
  BY DEF Reconcile
<1>4. op'.ref = op.ref /\ op'.result \in {op.result, r}
  BY <1>0, <1>2, ResultFields
<1> QED BY <1>1, <1>2, <1>3, <1>4 DEF OutcomeFacts, CallerMove, ResultMove, RefMove

\* A cancellation and the reaper of stale executions: no process is touched,
\* and only an unknown is written, over nothing.
LEMMA OutcomeEnds ==
    ASSUME IntentInv, CancelIntent \/ StaleReap PROVE OutcomeFacts
<1>0. TypeOK /\ intent \in Intent
  BY DEF IntentInv, TypeOK
<1>1. UNCHANGED <<rel, calls>>
  BY DEF CancelIntent, StaleReap
<1>2. intent'.kind = intent.kind
  BY <1>0 DEF CancelIntent, StaleReap, Intent
<1>3. /\ op'.result = op.result \/ (op.result = "pending" /\ op'.result = "unknown")
      /\ op'.ref = op.ref
  <2>1. CASE CancelIntent
    BY <1>0, <2>1, OpFields DEF CancelIntent, SameResult
  <2>2. CASE StaleReap
    BY <1>0, <2>2, OpFields, ResultFields DEF StaleReap
  <2> QED BY <2>1, <2>2
<1> QED BY <1>1, <1>2, <1>3 DEF OutcomeFacts, CallerMove, ResultMove, RefMove

\* At the creation nobody has called anything.
LEMMA OutcomeCreate ==
    ASSUME IntentInv, OutcomeInv, NEW k \in Kinds, NEW m \in Modes,
           NEW pool \in SUBSET Approvers, Create(k, m, pool)
    PROVE  OutcomeInv'
<1>0. TypeOK /\ op \in Operation /\ Trigger \in Procs /\ Open
  BY DEF IntentInv, TypeOK, Procs, Create, Open
<1>1. calls = 0 /\ calls' = 0
  BY <1>0, OpenUncalled DEF Create
<1>2. \A x \in Procs : ~Caller(x)
  BY <1>1 DEF OutcomeInv
<1>3. rel' = rel \/ Goes(Trigger, "attempt", rel[Trigger].outcome)
  BY <1>0, GoesOn DEF Create
<1>4. \A x \in Procs : ~Caller(x)'
  BY <1>0, <1>2, <1>3 DEF Goes, Caller, Unreferred
<1>5. op'.result = op.result /\ op.result \in {"pending", "unknown"}
      /\ op'.ref = op.ref /\ ~op.ref
  BY <1>0, <1>1 DEF Create, Operation, OutcomeInv
<1>6. \A x \in Procs : rel'[x].outcome \notin Real
  BY <1>4 DEF Caller, Unreferred
<1>7. OutcomeKept'
  BY <1>6 DEF OutcomeKept, Real
<1> QED BY <1>4, <1>5, <1>6, <1>7 DEF OutcomeInv

\* The holder of the claim becomes the one caller, or stops before.
LEMMA OutcomeCall ==
    ASSUME IntentInv, OutcomeInv, NEW x \in Procs, Call(x) PROVE OutcomeInv'
<1>0. TypeOK /\ rel[x].pc = "call" /\ Holds(x)
  BY DEF IntentInv, Call, Holds
<1>1. UNCHANGED <<intent, op>>
  BY DEF Call
<1>2. calls = 0
  BY <1>0 DEF IntentInv, OneHolder
<1>3. \A y \in Procs : ~Caller(y)
  BY <1>2 DEF OutcomeInv
<1>4. CASE calls' = calls + 1 /\ rel' = [rel EXCEPT ![x].pc = "called"]
  <2>1. Goes(x, "called", rel[x].outcome)
    BY <1>0, <1>4, GoesOn
  <2>2. \A y \in Procs : rel'[y].outcome \notin Real /\ (Caller(y)' => y = x)
    BY <1>3, <2>1 DEF Goes, Caller, Unreferred
  <2>3. op'.result \in {"pending", "unknown"} /\ ~op'.ref
    BY <1>1, <1>2 DEF OutcomeInv
  <2>4. OutcomeKept'
    BY <2>2 DEF OutcomeKept, Real
  <2>5. calls' > 0
    BY <1>2, <1>4
  <2> QED BY <2>2, <2>3, <2>4, <2>5 DEF OutcomeInv
<1>5. CASE /\ rel' = [rel EXCEPT ![x].pc = "record", ![x].outcome = "stopped"]
           /\ UNCHANGED calls
  <2>1. Goes(x, "record", "stopped")
    BY <1>0, <1>5, GoesOn
  <2>2. \A y \in Procs : CallerMove(y)
    BY <2>1, MovesOn DEF Real, Unreferred
  <2>3. OutcomeFacts
    BY <1>1, <1>5, <2>2 DEF OutcomeFacts, ResultMove, RefMove
  <2> QED BY <2>3, OutcomeStep
<1> QED BY <1>4, <1>5 DEF Call

\* Every step keeps the invariant while the row can be written.
LEMMA NextOutcome ==
    ASSUME "ledger" \notin Faults
    PROVE  IntentInv /\ OutcomeInv /\ [Next]_vars => OutcomeInv'
<1> SUFFICES ASSUME IntentInv, OutcomeInv, [Next]_vars PROVE OutcomeInv'
  OBVIOUS
<1>0. TypeOK /\ Session \in Procs /\ Trigger \in Procs /\ Workers \subseteq Procs
  BY DEF IntentInv, Procs
<1>1. CASE Users
  BY <1>0, <1>1, OutsideSteps, OutcomeAside, OutcomeStep, OutcomeCreate, OutcomeEnds
     DEF Users
<1>2. CASE Clocks \/ Reapers
  BY <1>0, <1>2, OutsideSteps, OutcomeAside, OutcomeStep, OutcomeEnds,
     OutcomeReconcile DEF Reapers
<1>3. ASSUME NEW x \in Procs, WorkerRelease(x) PROVE OutcomeInv'
  BY <1>3, OutcomeQuiet, OutcomeReturn, OutcomeRecord, OutcomeAgain, OutcomeStep,
     OutcomeCall DEF WorkerRelease, Release
<1>4. ASSUME NEW x \in Procs, Aside(x) PROVE OutcomeInv'
  BY <1>4, OutcomeAside, OutcomeStep
<1>5. ASSUME NEW x \in Procs, Decision(x) PROVE OutcomeInv'
  BY <1>4, <1>5, OutcomeQuiet, OutcomeStep DEF Decision, Aside
<1>6. CASE SessionWakes \/ Faulty
  BY <1>0, <1>4, <1>6 DEF Faulty, Aside
<1>7. ASSUME NEW w \in Workers, Worker(w) \/ \E e \in Events : Take(w, e)
      PROVE  OutcomeInv'
  BY <1>0, <1>3, <1>4, <1>5, <1>7 DEF Worker, Aside
<1>8. CASE Release(Session)
  BY <1>0, <1>3, <1>8 DEF WorkerRelease
<1>9. CASE UNCHANGED vars
  BY <1>9 DEF vars, OutcomeInv, OutcomeKept, Caller, Unreferred
<1> QED BY <1>0, <1>1, <1>2, <1>5, <1>6, <1>7, <1>8, <1>9 DEF Next

\* A success that came back from the tool is on the operation row before the
\* release tries to end the intent and stays there, whoever else writes it; a
\* write of the row that fails is swallowed, so the hypothesis is needed.
THEOREM SuccessRecorded ==
    ASSUME "ledger" \notin Faults
    PROVE  Spec => []OutcomeKept
<1>1. Init => OutcomeInv
  BY DEF Init, OutcomeInv, OutcomeKept, Caller, Idle, Real, Unreferred
<1>2. OutcomeInv => OutcomeKept
  BY DEF OutcomeInv
<1> QED BY <1>1, <1>2, NextOutcome, IntentInvariant, PTL DEF Spec
=============================================================================
