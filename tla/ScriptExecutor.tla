--------------------------- MODULE ScriptExecutor ---------------------------
(***************************************************************************)
(* The agent's script executor on Unix: goroutines that execute a script,  *)
(* goroutines that cancel one, the watchdog os/exec starts for the         *)
(* context of a command, and the process group of a script.                *)
(*                                                                         *)
(* Executor.running maps an execution id to an entry.  Entries are heap    *)
(* objects shared by the goroutines that hold a pointer to them; an entry  *)
(* is named here by the call that created it: an Execute call whose        *)
(* reservation it is, or a Cancel call that left it as a refusal record.   *)
(* One action is one critical section of Executor.mu or of the entry's mu, *)
(* or one step of the operating system.                                    *)
(***************************************************************************)
EXTENDS FiniteSets

CONSTANTS
    Runs,     \* calls of Execute
    Cancels,  \* calls of Cancel, each for a script_cancel command of its own
    Ids,      \* execution ids
    IdOf,     \* the id a call is for; a redelivered command repeats one
    Graced,   \* cancels that ask for a graceful window (graceSeconds > 0)
    None

Entries == Runs \cup Cancels

ASSUME CallSets ==
    /\ Runs \cap Cancels = {} /\ None \notin Entries
    /\ IdOf \in [Entries -> Ids] /\ Graced \subseteq Cancels

VARIABLES
    running,  \* Executor.running
    ent,      \* the entries, runningExecution
    run,      \* the Execute goroutines, their context, watchdog and processes
    stop      \* the Cancel goroutines

vars == <<running, ent, run, stop>>

-----------------------------------------------------------------------------
Entry == [owned: BOOLEAN,       \* an Execute goroutine will release it
          requested: BOOLEAN,   \* cancelRequested
          by: Cancels \cup {None},  \* cancelCommandID
          grace: BOOLEAN,       \* graceSeconds > 0
          attempted: BOOLEAN,   \* startAttempted
          started: BOOLEAN,
          group: BOOLEAN,       \* pgid captured
          contained: BOOLEAN, lost: BOOLEAN,  \* lost: containmentLost
          killErr: BOOLEAN,
          done: BOOLEAN]        \* the done channel is closed

NewEntry == [owned |-> FALSE, requested |-> FALSE, by |-> None,
             grace |-> FALSE, attempted |-> FALSE, started |-> FALSE,
             group |-> FALSE, contained |-> FALSE, lost |-> FALSE,
             killErr |-> FALSE, done |-> FALSE]

Run == [pc: {"idle", "setup", "refused", "starting", "forked", "attached",
             "waiting", "pipes", "read", "ending", "done"},
        entry: Entries \cup {None},
        ctx: {"none", "live", "cancelled", "deadline"},
        \* the watchdog: off before Start and once Wait has retired it;
        \* leader and kill: about to signal; term: inside the graceful window
        watch: {"off", "armed", "leader", "term", "kill", "returned"},
        tree: SUBSET {"leader", "child"},   \* live processes of the group
        signalled: BOOLEAN,   \* the leader ended by a signal of this executor
        err: BOOLEAN,         \* what Start or Wait returned
        result: [kind: {"none", "duplicate", "failed", "refused", "timeout",
                        "cancelled", "exited"},
                 by: Cancels \cup {None}]]

NewRun == [pc |-> "idle", entry |-> None, ctx |-> "none", watch |-> "off",
           tree |-> {}, signalled |-> FALSE, err |-> FALSE,
           result |-> [kind |-> "none", by |-> None]]

Outcomes == {"none", "terminated", "not_found", "kill_failed"}

Stop == [pc: {"idle", "missed", "found", "marked", "waiting", "answered"},
         entry: Entries \cup {None}, outcome: Outcomes]

TypeOK ==
    /\ running \in [Ids -> Entries \cup {None}]
    /\ ent \in [Entries -> Entry]
    /\ run \in [Runs -> Run]
    /\ stop \in [Cancels -> Stop]

Init ==
    /\ running = [i \in Ids |-> None]
    /\ ent = [e \in Entries |-> NewEntry]
    /\ run = [r \in Runs |-> NewRun]
    /\ stop = [c \in Cancels |-> [pc |-> "idle", entry |-> None,
                                  outcome |-> "none"]]

-----------------------------------------------------------------------------
(* Execute, before the process exists.                                     *)

\* The result is made, the deferred release is next.
Finish(r, kind, by) ==
    run' = [run EXCEPT ![r].pc = "ending",
                       ![r].result = [kind |-> kind, by |-> by]]

ReserveNew(r) ==
    /\ run[r].pc = "idle" /\ running[IdOf[r]] = None
    /\ running' = [running EXCEPT ![IdOf[r]] = r]
    /\ ent' = [ent EXCEPT ![r].owned = TRUE]
    /\ run' = [run EXCEPT ![r].pc = "setup", ![r].entry = r]
    /\ UNCHANGED stop

\* The id is owned by another Execute: answer a failure, release nothing.
ReserveDuplicate(r) ==
    /\ run[r].pc = "idle" /\ running[IdOf[r]] # None
    /\ ent[running[IdOf[r]]].owned
    /\ run' = [run EXCEPT ![r].pc = "done",
                          ![r].result = [kind |-> "duplicate", by |-> None]]
    /\ UNCHANGED <<running, ent, stop>>

\* Mutant: the adopted record's own request is not looked at.
ReserveRefusalBlind(r) ==
    LET e == running[IdOf[r]] IN
    /\ run[r].pc = "idle" /\ e # None /\ ~ent[e].owned
    /\ ent' = [ent EXCEPT ![e].owned = TRUE, ![e].requested = FALSE]
    /\ run' = [run EXCEPT ![r].pc = "setup", ![r].entry = e]
    /\ UNCHANGED <<running, stop>>

\* Adopt the refusal record a cancel left.
ReserveRefusal(r) ==
    LET e == running[IdOf[r]] IN
    /\ run[r].pc = "idle" /\ e # None /\ ~ent[e].owned
    /\ ent' = [ent EXCEPT ![e].owned = TRUE]
    /\ run' = [run EXCEPT ![r].pc = IF ent[e].requested
                                    THEN "refused" ELSE "setup",
                          ![r].entry = e]
    /\ UNCHANGED <<running, stop>>

\* Rendering, validation, writing the file, runAs: any of them may refuse.
SetupFails(r) ==
    /\ run[r].pc = "setup"
    /\ Finish(r, "failed", None)
    /\ UNCHANGED <<running, ent, stop>>

\* Mutant: the canceller is published without a look at the request.
BeginStartBlind(r) ==
    /\ run[r].pc = "setup"
    /\ run' = [run EXCEPT ![r].pc = "starting", ![r].ctx = "live"]
    /\ ent' = [ent EXCEPT ![run[r].entry].attempted = TRUE]
    /\ UNCHANGED <<running, stop>>

BeginStart(r) ==
    LET e == run[r].entry IN
    /\ run[r].pc = "setup"
    /\ IF ent[e].requested
       THEN run' = [run EXCEPT ![r].pc = "refused"] /\ UNCHANGED ent
       ELSE /\ run' = [run EXCEPT ![r].pc = "starting", ![r].ctx = "live"]
            /\ ent' = [ent EXCEPT ![e].attempted = TRUE]
    /\ UNCHANGED <<running, stop>>

\* The marker is read in a critical section after the one that refused.
FinishRefused(r) ==
    /\ run[r].pc = "refused"
    /\ Finish(r, "refused", ent[run[r].entry].by)
    /\ UNCHANGED <<running, ent, stop>>

-----------------------------------------------------------------------------
(* Start, Wait and the watchdog.                                           *)

\* Start fails if the context is done, or if the fork does.
StartFails(r) ==
    /\ run[r].pc = "starting"
    /\ run' = [run EXCEPT ![r].pc = "read", ![r].err = TRUE]
    /\ UNCHANGED <<running, ent, stop>>

\* os/exec arms the watchdog before Start returns.
StartProcess(r) ==
    /\ run[r].pc = "starting" /\ run[r].ctx = "live"
    /\ run' = [run EXCEPT ![r].pc = "forked",
                          ![r].tree = {"leader"},
                          ![r].watch = "armed"]
    /\ UNCHANGED <<running, ent, stop>>

\* Mutant: the latch of an earlier kill is overwritten.
AttachProcessGroupUnlatched(r) ==
    /\ run[r].pc = "forked"
    /\ ent' = [ent EXCEPT ![run[r].entry].group = TRUE,
                          ![run[r].entry].contained = TRUE]
    /\ run' = [run EXCEPT ![r].pc = "attached"]
    /\ UNCHANGED <<running, stop>>

AttachProcessGroup(r) ==
    LET e == run[r].entry IN
    /\ run[r].pc = "forked"
    /\ ent' = [ent EXCEPT ![e].group = TRUE, ![e].contained = ~ent[e].lost]
    /\ run' = [run EXCEPT ![r].pc = "attached"]
    /\ UNCHANGED <<running, stop>>

MarkStarted(r) ==
    /\ run[r].pc = "attached"
    /\ ent' = [ent EXCEPT ![run[r].entry].started = TRUE]
    /\ run' = [run EXCEPT ![r].pc = "waiting"]
    /\ UNCHANGED <<running, stop>>

Deadline(r) ==
    /\ run[r].ctx = "live"
    /\ run[r].pc \in {"starting", "forked", "attached", "waiting", "pipes"}
    /\ run' = [run EXCEPT ![r].ctx = "deadline"]
    /\ UNCHANGED <<running, ent, stop>>

\* Wait has reaped the leader and takes the watchdog's result: at once if
\* the watchdog has not woken yet, which retires it, else after the callback.
WaitLeader(r) ==
    /\ run[r].pc = "waiting" /\ "leader" \notin run[r].tree
    /\ run[r].watch \in {"armed", "returned"}
    /\ run' = [run EXCEPT ![r].pc = "pipes",
                          ![r].err = run[r].watch = "returned",
                          ![r].watch = IF @ = "armed" THEN "off" ELSE @]
    /\ UNCHANGED <<running, ent, stop>>

\* Mutant: no WaitDelay, so the pipes wait for the last process.
WaitPipesUnbounded(r) ==
    /\ run[r].pc = "pipes" /\ run[r].tree = {}
    /\ run' = [run EXCEPT ![r].pc = "read"]
    /\ UNCHANGED <<running, ent, stop>>

\* The pipes close with the last process that holds them, or when WaitDelay
\* runs out, which is an error.  A script's own exit code may be one as well.
WaitPipes(r) ==
    /\ run[r].pc = "pipes"
    /\ \E bad \in BOOLEAN :
          run' = [run EXCEPT ![r].pc = "read",
                             ![r].err = \/ @ \/ run[r].signalled
                                        \/ run[r].tree # {} \/ bad]
    /\ UNCHANGED <<running, ent, stop>>

\* The watchdog sees the context done and enters cmd.Cancel, which reads the
\* grace and the group.  A group already empty (ESRCH) counts as terminated;
\* a signal the system denies is recorded.
WatchdogWakes(r) ==
    LET e == run[r].entry IN
    /\ run[r].watch = "armed" /\ run[r].ctx \in {"cancelled", "deadline"}
    /\ \/ /\ ~ent[e].group
          /\ run' = [run EXCEPT ![r].watch = "leader"] /\ UNCHANGED ent
       \/ /\ ent[e].group /\ ~ent[e].grace
          /\ run' = [run EXCEPT ![r].watch = "kill"] /\ UNCHANGED ent
       \/ /\ ent[e].group /\ ent[e].grace
          /\ run' = [run EXCEPT ![r].watch = IF run[r].tree = {}
                                             THEN "returned" ELSE "term"]
          /\ UNCHANGED ent
       \/ /\ ent[e].group /\ ent[e].grace /\ run[r].tree # {}
          /\ run' = [run EXCEPT ![r].watch = "returned"]
          /\ ent' = [ent EXCEPT ![e].killErr = TRUE]
    /\ UNCHANGED <<running, stop>>

\* The callback returns; the processes it reached are gone.
Killed(r, victims) ==
    run' = [run EXCEPT ![r].watch = "returned", ![r].tree = @ \ victims,
                       ![r].signalled =
                          @ \/ "leader" \in run[r].tree \cap victims]

\* No group was captured yet: latch the loss of containment, kill the leader.
KillLeader(r) ==
    /\ run[r].watch = "leader"
    /\ \E denied \in BOOLEAN :
          /\ denied => "leader" \in run[r].tree
          /\ ent' = [ent EXCEPT ![run[r].entry].contained = FALSE,
                                ![run[r].entry].lost = TRUE,
                                ![run[r].entry].killErr = denied]
          /\ Killed(r, IF denied THEN {} ELSE {"leader"})
    /\ UNCHANGED <<running, stop>>

\* A poll inside the graceful window finds the group gone.
GroupGone(r) ==
    /\ run[r].watch = "term" /\ run[r].tree = {}
    /\ run' = [run EXCEPT ![r].watch = "returned"]
    /\ UNCHANGED <<running, ent, stop>>

\* SIGKILL to the group, at once or when the graceful window ends.
KillGroup(r) ==
    /\ run[r].watch \in {"term", "kill"}
    /\ \E denied \in BOOLEAN :
          /\ denied => run[r].tree # {}
          /\ ent' = [ent EXCEPT ![run[r].entry].killErr = denied]
          /\ Killed(r, IF denied THEN {} ELSE {"leader", "child"})
    /\ UNCHANGED <<running, stop>>

\* The callback has returned and WaitDelay ran out with the leader alive.
WaitDelayKill(r) ==
    /\ run[r].watch = "returned" /\ "leader" \in run[r].tree
    /\ run' = [run EXCEPT ![r].tree = @ \ {"leader"},
                          ![r].signalled = TRUE]
    /\ UNCHANGED <<running, ent, stop>>

-----------------------------------------------------------------------------
(* The script.  It may ignore SIGTERM, or end because of it, or by itself. *)

Spawn(r) ==
    /\ "leader" \in run[r].tree
    /\ run' = [run EXCEPT ![r].tree = {"leader", "child"}]
    /\ UNCHANGED <<running, ent, stop>>

Exits(r) ==
    /\ \E p \in run[r].tree : run' = [run EXCEPT ![r].tree = @ \ {p}]
    /\ UNCHANGED <<running, ent, stop>>

-----------------------------------------------------------------------------
(* Execute, after the process.                                             *)

\* Mutant: the marker is stamped only where the error branch is `cancelled`.
ProcessResultBranch(r) ==
    LET e == run[r].entry
        cancelled == run[r].err /\ run[r].ctx = "cancelled" /\ ~ent[e].killErr
    IN /\ run[r].pc = "read"
       /\ Finish(r, IF cancelled THEN "cancelled" ELSE "exited",
                    IF cancelled THEN ent[e].by ELSE None)
       /\ UNCHANGED <<running, ent, stop>>

\* The marker is stamped however the process ended.
ProcessResult(r) ==
    LET e == run[r].entry
        kind == IF ~run[r].err THEN "exited"
                ELSE IF run[r].ctx = "deadline" THEN "timeout"
                ELSE IF ent[e].requested THEN "cancelled"
                ELSE "exited"
    IN /\ run[r].pc = "read"
       /\ Finish(r, kind, IF ent[e].requested THEN ent[e].by ELSE None)
       /\ UNCHANGED <<running, ent, stop>>

Release(r) ==
    LET e == run[r].entry IN
    /\ run[r].pc = "ending"
    /\ running' = [running EXCEPT ![IdOf[r]] = IF @ = e THEN None ELSE @]
    /\ ent' = [ent EXCEPT ![e].done = TRUE]
    /\ run' = [run EXCEPT ![r].pc = "done"]
    /\ UNCHANGED stop

-----------------------------------------------------------------------------
(* Cancel.                                                                 *)

Answer(c, outcome) ==
    stop' = [stop EXCEPT ![c].pc = "answered", ![c].outcome = outcome]

Lookup(c) ==
    LET e == running[IdOf[c]] IN
    /\ stop[c].pc = "idle"
    /\ stop' = [stop EXCEPT ![c].pc = IF e = None THEN "missed" ELSE "found",
                            ![c].entry = e]
    /\ UNCHANGED <<running, ent, run>>

\* A second critical section: the map may hold an entry by now, and then
\* nothing is recorded.
RecordCancelRefusal(c) ==
    /\ stop[c].pc = "missed"
    /\ IF running[IdOf[c]] = None
       THEN /\ running' = [running EXCEPT ![IdOf[c]] = c]
            /\ ent' = [ent EXCEPT ![c].requested = TRUE,
                                  ![c].by = c,
                                  ![c].grace = c \in Graced]
       ELSE UNCHANGED <<running, ent>>
    /\ Answer(c, "not_found")
    /\ UNCHANGED run

\* Mutants: the timer forgets to ask whether an Execute owns the record by
\* now, or asks it the other way round.
ExpireRefusalOwned(c) ==
    /\ running[IdOf[c]] = c
    /\ running' = [running EXCEPT ![IdOf[c]] = None]
    /\ ent' = [ent EXCEPT ![c].done = TRUE]
    /\ UNCHANGED <<run, stop>>
ExpireRefusalInverted(c) ==
    /\ running[IdOf[c]] = c /\ ent[c].owned
    /\ running' = [running EXCEPT ![IdOf[c]] = None]
    /\ ent' = [ent EXCEPT ![c].done = TRUE]
    /\ UNCHANGED <<run, stop>>

\* cancelRefusalTTL after the record was made.
ExpireRefusal(c) ==
    /\ running[IdOf[c]] = c /\ ~ent[c].owned
    /\ running' = [running EXCEPT ![IdOf[c]] = None]
    /\ ent' = [ent EXCEPT ![c].done = TRUE]
    /\ UNCHANGED <<run, stop>>

\* Mutant: the execution's id is stored where the command's belongs.
MarkCancelRequestedId(c) ==
    LET e == stop[c].entry IN
    /\ stop[c].pc = "found"
    /\ ent' = [ent EXCEPT ![e].requested = TRUE,
                          ![e].by = IdOf[c],
                          ![e].grace = c \in Graced]
    /\ IF ~ent[e].attempted THEN Answer(c, "terminated")
       ELSE stop' = [stop EXCEPT ![c].pc = "marked"]
    /\ UNCHANGED <<running, run>>

MarkCancelRequested(c) ==
    LET e == stop[c].entry IN
    /\ stop[c].pc = "found"
    /\ ent' = [ent EXCEPT ![e].requested = TRUE,
                          ![e].by = c,
                          ![e].grace = c \in Graced]
    /\ IF ~ent[e].owned THEN Answer(c, "not_found")
       ELSE IF ~ent[e].attempted THEN Answer(c, "terminated")
       ELSE stop' = [stop EXCEPT ![c].pc = "marked"]
    /\ UNCHANGED <<running, run>>

\* Cancelling a context that is already done, or whose command has ended,
\* changes nothing.
CancelContext(c) ==
    /\ stop[c].pc = "marked"
    /\ run' = [r \in Runs |->
                 IF run[r].entry = stop[c].entry /\ run[r].ctx = "live"
                 THEN [run[r] EXCEPT !.ctx = "cancelled"] ELSE run[r]]
    /\ stop' = [stop EXCEPT ![c].pc = "waiting"]
    /\ UNCHANGED <<running, ent>>

GradeCancelOutcome(e) ==
    IF ~ent[e].started THEN "terminated"
    ELSE IF ent[e].killErr \/ ~ent[e].contained THEN "kill_failed"
    ELSE "terminated"

SeeDone(c) ==
    /\ stop[c].pc = "waiting" /\ ent[stop[c].entry].done
    /\ Answer(c, GradeCancelOutcome(stop[c].entry))
    /\ UNCHANGED <<running, ent, run>>

\* Mutant: no backstop, the wait is for the grace of a live context only.
GiveUpLive(c) ==
    /\ stop[c].pc = "waiting"
    /\ \E r \in Runs : run[r].entry = stop[c].entry /\ run[r].ctx = "live"
    /\ Answer(c, "kill_failed")
    /\ UNCHANGED <<running, ent, run>>

\* grace + hardKillBackstop without seeing done.
GiveUp(c) ==
    /\ stop[c].pc = "waiting"
    /\ Answer(c, "kill_failed")
    /\ UNCHANGED <<running, ent, run>>

-----------------------------------------------------------------------------
Execute(r) ==
    \/ ReserveNew(r) \/ ReserveDuplicate(r) \/ ReserveRefusal(r)
    \/ SetupFails(r) \/ BeginStart(r) \/ FinishRefused(r)
    \/ StartFails(r) \/ StartProcess(r) \/ AttachProcessGroup(r)
    \/ MarkStarted(r) \/ WaitLeader(r) \/ WaitPipes(r)
    \/ ProcessResult(r) \/ Release(r)

Watchdog(r) ==
    \/ WatchdogWakes(r) \/ KillLeader(r) \/ GroupGone(r) \/ KillGroup(r)

System(r) == Deadline(r) \/ WaitDelayKill(r) \/ Spawn(r) \/ Exits(r)

Cancel(c) ==
    \/ Lookup(c) \/ RecordCancelRefusal(c) \/ MarkCancelRequested(c)
    \/ CancelContext(c) \/ SeeDone(c) \/ GiveUp(c)

Next ==
    \/ \E r \in Runs : Execute(r) \/ Watchdog(r) \/ System(r)
    \/ \E c \in Cancels : Cancel(c) \/ ExpireRefusal(c)

Spec == Init /\ [][Next]_vars

\* Goroutines are scheduled and timers fire; a script owes nothing, and a
\* command or a cancel need not ever arrive.
Fairness ==
    /\ \A r \in Runs : /\ WF_vars(run[r].pc # "idle" /\ Execute(r))
                       /\ WF_vars(Watchdog(r)) /\ WF_vars(Deadline(r))
    /\ \A c \in Cancels : /\ WF_vars(stop[c].pc # "idle" /\ Cancel(c))
                          /\ WF_vars(ExpireRefusal(c))

FairSpec == Spec /\ Fairness

-----------------------------------------------------------------------------
(* Properties.                                                             *)

Owner(e) == {r \in Runs : run[r].entry = e}

\* Once a cancel has answered `terminated`, the script's leader process is
\* not running and never will be, whether the cancel met it in its setup, in
\* its start or in its wait, and whoever else was cancelled or redelivered.
StoppedForGood ==
    \A c \in Cancels : stop[c].outcome = "terminated" =>
        \A r \in Owner(stop[c].entry) : "leader" \notin run[r].tree

\* A stop that used the kill callback answers `terminated` only if no process
\* of the group is left: the latch of a kill that came before the group was
\* captured, and the error of a kill that was denied, are honoured.
KilledWholeGroup ==
    \A c \in Cancels : stop[c].outcome = "terminated" =>
        \A r \in Owner(stop[c].entry) :
            run[r].watch = "returned" => run[r].tree = {}

\* A process this executor killed for any reason but its own time limit
\* carries, in its result, the cancel command that asked for it; and a result
\* names only a cancel of that very execution.
KillIsMarked ==
    \A r \in Runs : run[r].result.kind # "none" =>
        /\ run[r].signalled /\ run[r].ctx # "deadline"
              => run[r].result.by # None
        /\ run[r].result.by # None =>
              /\ IdOf[run[r].result.by] = IdOf[r]
              /\ ent[run[r].entry].requested

\* A cancel that left a refusal record, or marked one, is obeyed by the
\* Execute that adopts the record: no process, and a marker for the server.
RefusalObeyed ==
    \A r \in Runs : run[r].entry \in Cancels =>
        /\ run[r].tree = {} /\ run[r].ctx = "none"
        /\ run[r].pc = "done" => run[r].result.by # None

\* At most one Execute of an id has a process or is about to have one.
OneProcessPerId ==
    \A r, s \in Runs :
        /\ IdOf[r] = IdOf[s]
        /\ {run[r].pc, run[s].pc} \cap {"idle", "done"} = {}
        => r = s

\* Every Execute that begins ends, and closes done, even if the script never
\* would: the deadline and the kill see to it unless a signal was denied.
RunEnds ==
    \A r \in Runs : run[r].pc # "idle" ~>
        \/ run[r].pc = "done"
        \/ run[r].entry # None /\ ent[run[r].entry].killErr

\* Every cancel is answered, and no id stays refused for ever.
CancelAnswered ==
    \A c \in Cancels : stop[c].pc # "idle" ~> stop[c].outcome # "none"
RefusalForgotten ==
    \A c \in Cancels : running[IdOf[c]] = c ~> running[IdOf[c]] # c

\* "CancelTerminated means the process (and its tree) is provably gone."
TreeGone ==
    \A c \in Cancels : stop[c].outcome = "terminated" =>
        \A r \in Owner(stop[c].entry) : run[r].tree = {}

\* "a cancel racing Execute's setup cannot report not_found and then let the
\* script start anyway", unless the record it left has expired.
NotFoundNeverStarts ==
    [][\A r \in Runs, c \in Cancels :
          /\ IdOf[r] = IdOf[c] /\ StartProcess(r)
          /\ stop[c].outcome = "not_found"
          => \E d \in Cancels : IdOf[d] = IdOf[c] /\ ent[d].done]_vars
=============================================================================
