------------------------- MODULE IntentOutboxProofs -------------------------
(***************************************************************************)
(* What the outbox promises, for any number of rows and publishers and any *)
(* budgets: it is well typed, no row is lost, and a job is served again    *)
(* only for a lost lock or an eviction.                                    *)
(***************************************************************************)
EXTENDS IntentOutbox, TLAPS

-----------------------------------------------------------------------------
(* Type correctness.                                                       *)

\* The initial outbox is empty and well typed.
LEMMA InitTyped == Init => TypeOK
BY OutboxParameters DEF Init, TypeOK, IdleRun, NoJob

\* A claim takes a row one attempt further, and at most one past the limit.
LEMMA ScanTyped ==
    ASSUME TypeOK, NEW p \in Publishers, Scan(p)
    PROVE  TypeOK'
<1>1. PICK claim \in SUBSET Due :
         /\ pub' = [pub EXCEPT ![p] = [pc |-> "adding", todo |-> claim,
                                       added |-> {}]]
         /\ row' = [r \in Rows |-> IF r \in claim
                                   THEN [row[r] EXCEPT !.tries = @ + 1]
                                   ELSE row[r]]
  BY DEF Scan
<1>2. row' \in [Rows -> [state: {"none", "due", "published", "gone"},
                         tries: 0..(MaxPublishAttempts + 1)]]
  <2> SUFFICES ASSUME NEW r \in Rows
               PROVE  row'[r] \in [state: {"none", "due", "published", "gone"},
                                   tries: 0..(MaxPublishAttempts + 1)]
    BY <1>1
  <2>1. CASE r \in claim
    <3>1. r \in Due
      BY <2>1
    <3> QED BY <1>1, <2>1, <3>1, OutboxParameters DEF Due, TypeOK
  <2>2. CASE r \notin claim
    BY <1>1, <2>2 DEF TypeOK
  <2> QED BY <2>1, <2>2
<1>3. pub' \in [Publishers -> [pc: {"idle", "adding", "marking"},
                               todo: SUBSET Rows, added: SUBSET Rows]]
  <2>1. claim \subseteq Rows
    BY DEF Due
  <2> QED BY <1>1, <2>1 DEF TypeOK
<1> QED BY <1>2, <1>3 DEF Scan, TypeOK

\* One row of the publisher's loop keeps the types.
LEMMA AddTyped ==
    ASSUME TypeOK, NEW p \in Publishers, Add(p)
    PROVE  TypeOK'
<1> PICK r \in pub[p].todo :
        \/ /\ QueueAdd(r)
           /\ pub' = [pub EXCEPT ![p].todo = @ \ {r}, ![p].added = @ \cup {r}]
           /\ queued' = queued \cup {r}
        \/ AddRefused(p, r) /\ UNCHANGED <<job, queued>>
  BY DEF Add
<1>1. r \in Rows
  BY DEF TypeOK
<1>2. job' \in [Rows -> [state: {"none", "waiting", "active", "lapsed", "done",
                                 "thrown", "given_up"},
                         stalls: 0..MaxStalled]]
  <2>1. CASE job' = job
    BY <2>1 DEF TypeOK
  <2>2. CASE job' = [job EXCEPT ![r] = NewJob]
    BY <1>1, <2>2, OutboxParameters DEF NewJob, TypeOK
  <2> QED BY <2>1, <2>2 DEF QueueAdd
<1>3. pub' \in [Publishers -> [pc: {"idle", "adding", "marking"},
                               todo: SUBSET Rows, added: SUBSET Rows]]
  <2>1. pub[p] \in [pc: {"idle", "adding", "marking"}, todo: SUBSET Rows,
                    added: SUBSET Rows]
    BY DEF TypeOK
  <2>2. CASE pub' = [pub EXCEPT ![p].todo = @ \ {r}, ![p].added = @ \cup {r}]
    BY <1>1, <2>1, <2>2 DEF TypeOK
  <2>3. CASE AddRefused(p, r)
    BY <1>1, <2>1, <2>3 DEF AddRefused, TypeOK
  <2> QED BY <2>2, <2>3
<1>4. queued' \subseteq Rows
  BY <1>1 DEF TypeOK
<1> QED BY <1>2, <1>3, <1>4 DEF Add, TypeOK

\* Every step keeps the types.
LEMMA NextTyped == TypeOK /\ [Next]_vars => TypeOK'
<1> SUFFICES ASSUME TypeOK, [Next]_vars PROVE TypeOK'
  OBVIOUS
<1>1. ASSUME NEW r \in Rows, Write(r) PROVE TypeOK'
  BY <1>1 DEF Write, TypeOK
<1>2. ASSUME NEW r \in Rows, Prune(r) PROVE TypeOK'
  BY <1>2 DEF Prune, TypeOK
<1>3. ASSUME NEW p \in Publishers, EndLoop(p) PROVE TypeOK'
  BY <1>3 DEF EndLoop, IdleRun, TypeOK
<1>4. ASSUME NEW p \in Publishers, Mark(p) PROVE TypeOK'
  <2>1. row' \in [Rows -> [state: {"none", "due", "published", "gone"},
                           tries: 0..(MaxPublishAttempts + 1)]]
    <3> SUFFICES ASSUME NEW r \in Rows
                 PROVE  row'[r] \in [state: {"none", "due", "published", "gone"},
                                     tries: 0..(MaxPublishAttempts + 1)]
      BY <1>4 DEF Mark
    <3>1. row[r] \in [state: {"none", "due", "published", "gone"},
                      tries: 0..(MaxPublishAttempts + 1)]
      BY DEF TypeOK
    <3>2. row'[r] = row[r] \/ row'[r] = [row[r] EXCEPT !.state = "published"]
      BY <1>4 DEF Mark
    <3> QED BY <3>1, <3>2
  <2>2. pub' \in [Publishers -> [pc: {"idle", "adding", "marking"},
                                 todo: SUBSET Rows, added: SUBSET Rows]]
    BY <1>4 DEF Mark, IdleRun, TypeOK
  <2> QED BY <1>4, <2>1, <2>2 DEF Mark, TypeOK
<1>5. ASSUME NEW p \in Publishers, PublisherDies(p) PROVE TypeOK'
  BY <1>5 DEF PublisherDies, IdleRun, TypeOK
<1>6. ASSUME NEW j \in Rows, Start(j) PROVE TypeOK'
  BY <1>6 DEF Start, TypeOK
<1>7. ASSUME NEW j \in Rows, End(j) \/ Throws(j) PROVE TypeOK'
  <2>1. ASSUME End(j) PROVE TypeOK'
    BY <2>1 DEF End, TypeOK
  <2>2. ASSUME Throws(j) PROVE TypeOK'
    BY <2>2 DEF Throws, TypeOK
  <2> QED BY <1>7, <2>1, <2>2
<1>8. ASSUME NEW j \in Rows, LockLost(j) PROVE TypeOK'
  BY <1>8 DEF LockLost, TypeOK
<1>9. ASSUME NEW j \in Rows, StalledCheck(j) PROVE TypeOK'
  <2>1. CASE job[j].stalls < MaxStalled
    BY <1>9, <2>1, OutboxParameters DEF StalledCheck, TypeOK
  <2>2. CASE ~(job[j].stalls < MaxStalled)
    <3>1. /\ job' = [job EXCEPT ![j].state = "given_up"]
          /\ ended' = ended \cup {j}
          /\ UNCHANGED <<row, pub, queued, served, evicted>>
      BY <1>9, <2>2 DEF StalledCheck
    <3> QED BY <3>1 DEF TypeOK
  <2> QED BY <2>1, <2>2
<1>10. ASSUME NEW j \in Rows, Evict(j) PROVE TypeOK'
  BY <1>10, OutboxParameters DEF Evict, NoJob, TypeOK
<1>11. CASE UNCHANGED vars
  BY <1>11 DEF vars, TypeOK
<1> QED
  BY <1>1, <1>2, <1>3, <1>4, <1>5, <1>6, <1>7, <1>8, <1>9, <1>10, <1>11,
     ScanTyped, AddTyped DEF Next, Publisher

\* Every reachable state of the publisher and its queue is well typed: in
\* particular the attempts of a row stop one past MAX_PUBLISH_ATTEMPTS.
THEOREM OutboxTyped == Spec => []TypeOK
BY InitTyped, NextTyped, PTL DEF Spec

-----------------------------------------------------------------------------
(* No row is lost.                                                         *)

\* What a run of the publisher will mark has had its job in the queue.
AddedQueued == \A p \in Publishers : pub[p].added \subseteq queued

KeptInv == TypeOK /\ AddedQueued /\ NoRowLost

\* Nothing is published, pruned or about to be marked at first.
LEMMA InitKept == Init => KeptInv
BY InitTyped DEF Init, KeptInv, AddedQueued, NoRowLost, IdleRun

\* Every step keeps the invariant: the queue's memory only grows.
LEMMA NextKept == KeptInv /\ [Next]_vars => KeptInv'
<1> SUFFICES ASSUME KeptInv, [Next]_vars PROVE AddedQueued' /\ NoRowLost'
  BY NextTyped DEF KeptInv
<1> USE DEF KeptInv
<1>1. ASSUME NEW r \in Rows, Write(r) PROVE AddedQueued' /\ NoRowLost'
  BY <1>1 DEF Write, AddedQueued, NoRowLost, TypeOK
<1>2. ASSUME NEW r \in Rows, Prune(r) PROVE AddedQueued' /\ NoRowLost'
  BY <1>2 DEF Prune, Prunable, Stuck, AddedQueued, NoRowLost, TypeOK
<1>3. ASSUME NEW p \in Publishers, EndLoop(p) PROVE AddedQueued' /\ NoRowLost'
  BY <1>3 DEF EndLoop, IdleRun, AddedQueued, NoRowLost, TypeOK
<1>4. ASSUME NEW p \in Publishers, Mark(p) PROVE AddedQueued' /\ NoRowLost'
  BY <1>4 DEF Mark, IdleRun, AddedQueued, NoRowLost, TypeOK
<1>5. ASSUME NEW p \in Publishers, PublisherDies(p)
      PROVE  AddedQueued' /\ NoRowLost'
  BY <1>5 DEF PublisherDies, IdleRun, AddedQueued, NoRowLost, TypeOK
<1>6. ASSUME NEW p \in Publishers, Scan(p) PROVE AddedQueued' /\ NoRowLost'
  <2>1. AddedQueued'
    BY <1>6 DEF Scan, AddedQueued, TypeOK
  <2>2. NoRowLost'
    <3>1. /\ \A r \in Rows : \/ row'[r] = row[r]
                             \/ row'[r].state = row[r].state /\ row[r].state = "due"
          /\ queued' = queued
      BY <1>6 DEF Scan, Due, TypeOK
    <3> QED BY <3>1 DEF NoRowLost
  <2> QED BY <2>1, <2>2
<1>7. ASSUME NEW p \in Publishers, Add(p) PROVE AddedQueued' /\ NoRowLost'
  <2>1. AddedQueued'
    <3>1. PICK r \in pub[p].todo :
             /\ queued \subseteq queued'
             /\ \/ /\ pub' = [pub EXCEPT ![p].todo = @ \ {r}, ![p].added = @ \cup {r}]
                   /\ r \in queued'
                \/ pub' = [pub EXCEPT ![p].todo = @ \ {r}]
      BY <1>7 DEF Add, AddRefused
    <3>2. \A q \in Publishers : pub'[q].added \subseteq pub[q].added \cup queued'
      BY <3>1 DEF TypeOK
    <3> QED BY <3>1, <3>2 DEF AddedQueued
  <2>2. NoRowLost'
    BY <1>7 DEF Add, AddRefused, NoRowLost, TypeOK
  <2> QED BY <2>1, <2>2
<1>8. ASSUME NEW j \in Rows,
             \/ Start(j) \/ End(j) \/ Throws(j) \/ LockLost(j)
             \/ StalledCheck(j) \/ Evict(j)
      PROVE  AddedQueued' /\ NoRowLost'
  BY <1>8 DEF Start, End, Throws, LockLost, StalledCheck, Evict, AddedQueued,
     NoRowLost
<1>9. CASE UNCHANGED vars
  BY <1>9 DEF vars, AddedQueued, NoRowLost
<1> QED
  BY <1>1, <1>2, <1>3, <1>4, <1>5, <1>6, <1>7, <1>8, <1>9 DEF Next, Publisher

\* No crash of the publisher, refused add, overlapping run or pruning loses
\* an outbox row whose attempts are not spent.
THEOREM RowsKept == Spec => []NoRowLost
<1>1. KeptInv => NoRowLost
  BY DEF KeptInv
<1> QED BY <1>1, InitKept, NextKept, PTL DEF Spec

-----------------------------------------------------------------------------
(* Servings.                                                               *)

\* The servings that the lives of a job before its present one may have had.
PastServings(j) == (MaxStalled + 1) * evicted[j]

\* A job in its present life was served once per stall, and once more when
\* it has been taken.
ServingsCounted ==
    \A j \in Rows :
        served[j] <= PastServings(j) + job[j].stalls
                     + (IF job[j].state \in {"none", "waiting"} THEN 0 ELSE 1)

ServedInv ==
    /\ TypeOK /\ ServingsCounted
    /\ \A j \in Rows : job[j].state = "none" => job[j].stalls = 0

\* One more life has room for MaxStalled + 1 servings.
LEMMA OneMoreLife ==
    ASSUME NEW e \in Nat
    PROVE  /\ (MaxStalled + 1) * e \in Nat
           /\ (MaxStalled + 1) * (e + 1) = (MaxStalled + 1) * e + MaxStalled + 1
BY OutboxParameters

\* No job has been served at first.
LEMMA InitServed == Init => ServedInv
<1> SUFFICES ASSUME Init PROVE ServedInv
  OBVIOUS
<1>1. TypeOK
  BY InitTyped
<1>2. ASSUME NEW j \in Rows PROVE PastServings(j) \in Nat
  BY <1>1, OneMoreLife DEF TypeOK, PastServings
<1> QED BY <1>1, <1>2 DEF Init, ServedInv, ServingsCounted, NoJob

\* A step that leaves the queue alone leaves the count alone.
LEMMA QueueStill ==
    ASSUME ServedInv, TypeOK', UNCHANGED <<job, served, evicted>>
    PROVE  ServedInv'
BY DEF ServedInv, ServingsCounted, PastServings

\* Every step keeps the count.
LEMMA NextServed == ServedInv /\ [Next]_vars => ServedInv'
<1> SUFFICES ASSUME ServedInv, [Next]_vars PROVE ServedInv'
  OBVIOUS
<1>1. TypeOK /\ TypeOK'
  BY NextTyped DEF ServedInv
<1>2. ASSUME NEW j \in Rows PROVE PastServings(j) \in Nat
  BY <1>1, OneMoreLife DEF TypeOK, PastServings
<1>3. ASSUME UNCHANGED evicted, NEW j \in Rows
      PROVE  PastServings(j)' = PastServings(j)
  BY <1>3 DEF PastServings
<1>4. ASSUME NEW p \in Publishers, Add(p) PROVE ServedInv'
  <2>1. UNCHANGED <<served, evicted>>
    BY <1>4 DEF Add
  <2>2. CASE UNCHANGED job
    BY <1>1, <2>1, <2>2, QueueStill
  <2>3. CASE ~UNCHANGED job
    <3>1. PICK r \in Rows : /\ job[r].state = "none"
                            /\ job' = [job EXCEPT ![r] = NewJob]
      BY <1>1, <1>4, <2>3 DEF Add, QueueAdd, TypeOK
    <3> QED
      BY <1>1, <1>2, <1>3, <2>1, <3>1
         DEF ServedInv, ServingsCounted, NewJob, TypeOK
  <2> QED BY <2>2, <2>3
<1>5. ASSUME NEW j \in Rows, Start(j) PROVE ServedInv'
  BY <1>1, <1>2, <1>3, <1>5 DEF Start, ServedInv, ServingsCounted, TypeOK
<1>6. ASSUME NEW j \in Rows, End(j) \/ Throws(j) PROVE ServedInv'
  <2>1. ASSUME End(j) PROVE ServedInv'
    BY <1>1, <1>2, <1>3, <2>1 DEF End, ServedInv, ServingsCounted, TypeOK
  <2>2. ASSUME Throws(j) PROVE ServedInv'
    BY <1>1, <1>2, <1>3, <2>2 DEF Throws, ServedInv, ServingsCounted, TypeOK
  <2> QED BY <1>6, <2>1, <2>2
<1>7. ASSUME NEW j \in Rows, LockLost(j) PROVE ServedInv'
  BY <1>1, <1>2, <1>3, <1>7 DEF LockLost, ServedInv, ServingsCounted, TypeOK
<1>8. ASSUME NEW j \in Rows, StalledCheck(j) PROVE ServedInv'
  <2>1. CASE job[j].stalls < MaxStalled
    <3>1. /\ job[j].state = "lapsed" /\ UNCHANGED <<served, evicted>>
          /\ job' = [job EXCEPT ![j].state = "waiting",
                                ![j].stalls = job[j].stalls + 1]
      BY <1>8, <2>1 DEF StalledCheck
    <3> QED
      BY <1>1, <1>2, <1>3, <3>1 DEF ServedInv, ServingsCounted, TypeOK
  <2>2. CASE ~(job[j].stalls < MaxStalled)
    <3>1. job' = [job EXCEPT ![j].state = "given_up"] /\ job[j].state = "lapsed"
      BY <1>1, <1>8, <2>2, OutboxParameters DEF StalledCheck, TypeOK
    <3>2. UNCHANGED <<served, evicted>>
      BY <1>8 DEF StalledCheck
    <3> QED
      BY <1>1, <1>2, <1>3, <3>1, <3>2 DEF ServedInv, ServingsCounted, TypeOK
  <2> QED BY <2>1, <2>2
<1>9. ASSUME NEW j \in Rows, Evict(j) PROVE ServedInv'
  <2>1. PastServings(j)' = PastServings(j) + MaxStalled + 1
    BY <1>1, <1>9, OneMoreLife DEF PastServings, Evict, TypeOK
  <2>2. ASSUME NEW i \in Rows, i # j
        PROVE  PastServings(i)' = PastServings(i)
    BY <1>1, <1>9, <2>2 DEF PastServings, Evict, TypeOK
  <2> QED
    BY <1>1, <1>2, <1>9, <2>1, <2>2, OutboxParameters
       DEF Evict, ServedInv, ServingsCounted, NoJob, TypeOK
<1>10. ASSUME NEW r \in Rows, Write(r) \/ Prune(r) PROVE ServedInv'
  BY <1>1, <1>10, QueueStill DEF Write, Prune
<1>11. ASSUME NEW p \in Publishers,
              Scan(p) \/ EndLoop(p) \/ Mark(p) \/ PublisherDies(p)
       PROVE  ServedInv'
  BY <1>1, <1>11, QueueStill DEF Scan, EndLoop, Mark, PublisherDies
<1>12. CASE UNCHANGED vars
  BY <1>1, <1>12, QueueStill DEF vars
<1> QED
  BY <1>4, <1>5, <1>6, <1>7, <1>8, <1>9, <1>10, <1>11, <1>12
     DEF Next, Publisher

\* Publishing a row twice, by a crash before the mark or by an overlapping
\* run, serves its job no more often, nor does its throwing: only stalls and
\* evictions do.
THEOREM ServedForCause == Spec => []DedupeHolds
<1>1. ServedInv => DedupeHolds
  <2> SUFFICES ASSUME ServedInv, NEW j \in Rows
               PROVE  served[j] <= (MaxStalled + 1) * (evicted[j] + 1)
    BY DEF DedupeHolds
  <2>1. (MaxStalled + 1) * (evicted[j] + 1)
          = PastServings(j) + MaxStalled + 1 /\ PastServings(j) \in Nat
    BY OneMoreLife DEF PastServings, ServedInv, TypeOK
  <2> QED BY <2>1, OutboxParameters DEF ServedInv, ServingsCounted, TypeOK
<1> QED BY <1>1, InitServed, NextServed, PTL DEF Spec
=============================================================================
