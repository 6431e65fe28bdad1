---------------------------- MODULE IntentOutbox ----------------------------
(***************************************************************************)
(* The way of an outbox row to a worker: the publisher's runs, which claim *)
(* rows, add jobs to the BullMQ queue and mark the rows, the queue with    *)
(* its stalled jobs and its retention, and the pruning of the outbox.      *)
(* ActionIntents takes from here that an event that was written may be     *)
(* served several times, and that it is served unless its row is stuck.    *)
(***************************************************************************)
EXTENDS Naturals, FiniteSets

CONSTANTS
    Rows,        \* rows of intent_outbox, each an event of an intent; its
                 \* jobId intent-<event>-<intentId> names it in the queue
    Publishers,  \* runs of the publisher that may overlap
    MaxPublishAttempts,
    MaxStalled,  \* BullMQ's maxStalledCount
    MaxEvictions \* bound: how often the retention drops a job

ASSUME OutboxParameters ==
    MaxPublishAttempts \in Nat /\ MaxStalled \in Nat /\ MaxEvictions \in Nat

VARIABLES
    row,     \* the outbox
    pub,     \* the publisher's runs
    job,     \* the queue action-intents
    queued,  \* rows whose job has been in the queue
    ended,   \* jobs that returned, threw or were given up by BullMQ
    served,  \* how often each job was handed to a worker
    evicted  \* how often each job was dropped by the retention

vars == <<row, pub, job, queued, ended, served, evicted>>

TypeOK ==
    /\ row \in [Rows -> [state: {"none", "due", "published", "gone"},
                         tries: 0..(MaxPublishAttempts + 1)]]
    /\ pub \in [Publishers -> [pc: {"idle", "adding", "marking"},
                               todo: SUBSET Rows, added: SUBSET Rows]]
    /\ job \in [Rows -> [state: {"none", "waiting", "active",
                                 "lapsed",  \* active, its lock has run out
                                 "done", "thrown", "given_up"},
                         stalls: 0..MaxStalled]]
    /\ queued \subseteq Rows /\ ended \subseteq Rows
    /\ served \in [Rows -> Nat] /\ evicted \in [Rows -> 0..MaxEvictions]

IdleRun == [pc |-> "idle", todo |-> {}, added |-> {}]
NoJob == [state |-> "none", stalls |-> 0]
NewJob == [state |-> "waiting", stalls |-> 0]

Init ==
    /\ row = [r \in Rows |-> [state |-> "none", tries |-> 0]]
    /\ pub = [p \in Publishers |-> IdleRun]
    /\ job = [j \in Rows |-> NoJob]
    /\ queued = {} /\ ended = {}
    /\ served = [j \in Rows |-> 0] /\ evicted = [j \in Rows |-> 0]

-----------------------------------------------------------------------------
\* A transaction writes the row, publishIntentTerminalOutbox and the others.
Write(r) ==
    /\ row[r].state = "none"
    /\ row' = [row EXCEPT ![r].state = "due"]
    /\ UNCHANGED <<pub, job, queued, ended, served, evicted>>

\* Mutant: the claim stops one attempt before the alarm starts.
DueStrict == {r \in Rows : row[r].state = "due"
                           /\ row[r].tries < MaxPublishAttempts}

\* Mutant: a row past its attempts is claimed all the same.
DueAny == {r \in Rows : row[r].state = "due"}

Due == {r \in Rows : row[r].state = "due" /\ row[r].tries <= MaxPublishAttempts}

\* Past its attempts: logged as an alarm and left alone.
Stuck(r) == row[r].state = "due" /\ row[r].tries > MaxPublishAttempts

\* scanAndClaimOutboxRows takes due rows that no other run has locked, up to
\* a limit.  The claim ends with its transaction: an overlapping run may claim
\* the same row.
Scan(p) ==
    /\ pub[p].pc = "idle"
    /\ \E claim \in SUBSET Due :
        /\ claim # {}
        /\ pub' = [pub EXCEPT ![p] = [pc |-> "adding", todo |-> claim,
                                      added |-> {}]]
        /\ row' = [r \in Rows |-> IF r \in claim
                                  THEN [row[r] EXCEPT !.tries = @ + 1]
                                  ELSE row[r]]
    /\ UNCHANGED <<job, queued, ended, served, evicted>>

\* Mutant: a job that is retained is queued again.
QueueAddAgain(j) == job' = [job EXCEPT ![j] = NewJob]

\* Queue.add: nothing happens when the jobId is retained.
QueueAdd(j) ==
    job' = IF job[j].state = "none"
           THEN [job EXCEPT ![j] = NewJob] ELSE job

\* Mutant: a row counts as added before Redis has answered.
AddRefusedAdded(p, r) == pub' = [pub EXCEPT ![p].todo = @ \ {r},
                                            ![p].added = @ \cup {r}]

\* A failed add is logged; its row is left for a later run.
AddRefused(p, r) == pub' = [pub EXCEPT ![p].todo = @ \ {r}]

\* enqueueClaimedRows, one row of its loop.
Add(p) ==
    /\ pub[p].pc = "adding"
    /\ \E r \in pub[p].todo :
        \/ /\ QueueAdd(r)
           /\ pub' = [pub EXCEPT ![p].todo = @ \ {r}, ![p].added = @ \cup {r}]
           /\ queued' = queued \cup {r}
        \/ AddRefused(p, r) /\ UNCHANGED <<job, queued>>
    /\ UNCHANGED <<row, ended, served, evicted>>

EndLoop(p) ==
    /\ pub[p].pc = "adding" /\ pub[p].todo = {}
    /\ pub' = [pub EXCEPT ![p] = IF @.added = {} THEN IdleRun
                                 ELSE [@ EXCEPT !.pc = "marking"]]
    /\ UNCHANGED <<row, job, queued, ended, served, evicted>>

\* markOutboxRowsPublished; a row pruned meanwhile is not there.
Mark(p) ==
    /\ pub[p].pc = "marking"
    /\ row' = [r \in Rows |-> IF r \in pub[p].added /\ row[r].state = "due"
                              THEN [row[r] EXCEPT !.state = "published"]
                              ELSE row[r]]
    /\ pub' = [pub EXCEPT ![p] = IdleRun]
    /\ UNCHANGED <<job, queued, ended, served, evicted>>

\* The publisher's process dies, or its run throws.
PublisherDies(p) ==
    /\ pub[p].pc # "idle"
    /\ pub' = [pub EXCEPT ![p] = IdleRun]
    /\ UNCHANGED <<row, job, queued, ended, served, evicted>>

\* pruneIntentOutbox, past the retention: what is published, what is stuck.
Prunable(r) == row[r].state = "published" \/ Stuck(r)

Prune(r) ==
    /\ Prunable(r)
    /\ row' = [row EXCEPT ![r].state = "gone"]
    /\ UNCHANGED <<pub, job, queued, ended, served, evicted>>

-----------------------------------------------------------------------------
\* A worker takes a job and its lock.
Start(j) ==
    /\ job[j].state = "waiting"
    /\ job' = [job EXCEPT ![j].state = "active"]
    /\ served' = [served EXCEPT ![j] = @ + 1]
    /\ UNCHANGED <<row, pub, queued, ended, evicted>>

\* The processor returns.
End(j) ==
    /\ job[j].state = "active"
    /\ job' = [job EXCEPT ![j].state = "done"]
    /\ ended' = ended \cup {j}
    /\ UNCHANGED <<row, pub, queued, served, evicted>>

\* The processor throws.  queue.add sets no attempts, neither does the queue,
\* and BullMQ's default is one: the job has failed.
Throws(j) ==
    /\ job[j].state = "active"
    /\ job' = [job EXCEPT ![j].state = "thrown"]
    /\ ended' = ended \cup {j}
    /\ UNCHANGED <<row, pub, queued, served, evicted>>

\* The lock runs out: its worker died, or is too slow and will end nothing.
LockLost(j) ==
    /\ job[j].state = "active"
    /\ job' = [job EXCEPT ![j].state = "lapsed"]
    /\ UNCHANGED <<row, pub, queued, ended, served, evicted>>

\* BullMQ's check of stalled jobs.
StalledCheck(j) ==
    /\ job[j].state = "lapsed"
    /\ IF job[j].stalls < MaxStalled
       THEN /\ job' = [job EXCEPT ![j].state = "waiting", ![j].stalls = @ + 1]
            /\ UNCHANGED ended
       ELSE /\ job' = [job EXCEPT ![j].state = "given_up"]
            /\ ended' = ended \cup {j}
    /\ UNCHANGED <<row, pub, queued, served, evicted>>

\* removeOnComplete, removeOnFail: the 500 newest are kept.
Evict(j) ==
    /\ job[j].state \in {"done", "thrown", "given_up"}
    /\ evicted[j] < MaxEvictions
    /\ job' = [job EXCEPT ![j] = NoJob]
    /\ evicted' = [evicted EXCEPT ![j] = @ + 1]
    /\ UNCHANGED <<row, pub, queued, ended, served>>

-----------------------------------------------------------------------------
Publisher(p) == Scan(p) \/ Add(p) \/ EndLoop(p) \/ Mark(p)

Next ==
    \/ \E r \in Rows : Write(r) \/ Prune(r)
    \/ \E p \in Publishers : Publisher(p) \/ PublisherDies(p)
    \/ \E j \in Rows : \/ Start(j) \/ End(j) \/ Throws(j) \/ LockLost(j)
                       \/ StalledCheck(j) \/ Evict(j)

Spec == Init /\ [][Next]_vars

\* The publisher is a repeatable job and every run of it ends, by its steps
\* or its death; a free worker takes a job; a worker's processor returns or
\* throws or its lock ends; BullMQ checks for stalled jobs.
Fairness ==
    /\ \A p \in Publishers : WF_vars(Publisher(p))
    /\ \A j \in Rows : /\ WF_vars(Start(j)) /\ WF_vars(StalledCheck(j))
                       /\ WF_vars(End(j) \/ Throws(j) \/ LockLost(j))

FairSpec == Spec /\ Fairness

-----------------------------------------------------------------------------
(* Properties.                                                             *)

\* A row marked published, or pruned before its attempts were spent, had its
\* job in the queue: no crash, no refused add and no overlapping run loses it.
NoRowLost ==
    \A r \in Rows :
        /\ row[r].state = "published" => r \in queued
        /\ row[r].state = "gone" => \/ r \in queued
                                    \/ row[r].tries > MaxPublishAttempts

\* Each further serving of a job is due to a lost lock or to the retention:
\* publishing a row again after its job was added serves it no more often, and
\* neither does its processor's throwing.  This is what the options of
\* queue.add give; the worker's comments count on more, see ThrowRedelivered.
DedupeHolds ==
    \A j \in Rows : served[j] <= (MaxStalled + 1) * (evicted[j] + 1)

\* Every row that is written has its job served until it returns or throws, or
\* given up by BullMQ, or is stuck at its last attempt: nothing stays
\* unpublished and unnoticed.
Delivered ==
    \A r \in Rows :
        row[r].state = "due" ~> r \in ended \/ Stuck(r)

\* A job whose processor threw is served again: processIntentReleaseJob
\* rethrows a transient failure for BullMQ to redeliver the job.
ThrowRedelivered ==
    \A j \in Rows :
        job[j].state = "thrown" ~> job[j].state \in {"waiting", "active"}
=============================================================================
