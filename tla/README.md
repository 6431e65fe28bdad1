# A TLA+ model of Breeze's command path and action intents

Breeze is a remote-management platform: a TypeScript API server (`apps/api`,
PostgreSQL and BullMQ/Redis behind it), a Go agent on every managed device
(`agent/`), and web, portal, mobile and viewer front ends. Everything the
server makes a device do (run a script, reboot, back up, stop a desktop
stream) goes through one table, `device_commands`, and through one path: a row
is inserted, claimed, sent, answered, timed out or cancelled. Scripts add a
second table, `script_executions`, batches over several devices, and a stop
that needs proof from the device. What an AI agent or a chat session wants to
do goes through a third table, `action_intents`: it is approved by people or by
a policy, released once by whichever of two processes claims it, and published
through an outbox. These two paths are what this project models and checks;
their safety properties are also proved.

## 1. Inventory

### The parts

| Part | State | Operations | Code |
|---|---|---|---|
| Command rows and claims | `device_commands`: status, executed_at, deliver_by, result, payload | insert, claim one, claim a batch with the power-state barrier, release, cancel | `services/commandDispatch.ts`, `dispatchDeviceCommand.ts`, `commandDelivery.ts`, `commandClaimEligibility.ts` |
| Synchronous execution | the request that waits | insert, push with retries, poll, deadline, answer | `services/commandQueue.ts` |
| Desktop stream stop | the same row, re-armed | check, re-arm, push | `services/desktopSessionStop.ts`, `commandQueue.ts` |
| Result ingestion | terminal compare-and-set | WebSocket frame, HTTP result | `routes/agentWs.ts`, `routes/agents/commands.ts`, `services/commandResultAcceptance.ts` |
| Stale-command reaper | rows read and not yet written | reap commands, executions, cancellations | `jobs/staleCommandReaper.ts` |
| Secret gate | — | refuse or withhold a claimed command | `services/scriptSecretDelivery.ts` |
| Script dispatch and batches | `script_executions`, `script_execution_batches` | fan-out, refuse, queue, send, count, close | `services/scriptExecution.ts`, `scriptDispatch.ts`, `scriptExecutionTerminal.ts` |
| Script cancellation | cancel state, previous status, cancel command | retract, ask the device, acknowledge, sweep | `services/scriptCancellation.ts`, `commandCancelPropagation.ts` |
| Result handlers | — | close an execution by a result or an acknowledgement | `services/commandResultHandlers.ts` |
| Organisation move | — | cancel the device's queued work | `routes/devices/moveOrg.ts` |
| Agent script executor | map of entries (reservations, running scripts, refusals), the process group | reserve, refuse, start, attach, deadline, kill ladder, grade, release | `agent/internal/executor`, `agent/internal/heartbeat/handlers_script.go` |
| Action intents and approvals | `action_intents`, `approval_requests` | create, fan out, decide, report, cancel, expire | `services/actionIntents/intentService.ts`, `policyDecide.ts`, `services/approvals/decideApprovalRequest.ts`, `routes/approvals.ts`, `jobs/intentExpiryReaper.ts` |
| Intent release | the claim, the tool call, `ai_operator_operations` of a task | claim, revalidate, pause, call, record, finish, notify | `jobs/intentReleaseWorker.ts`, `services/aiOperator/*`, `services/aiAgentSdk.ts` |
| Intent outbox | `intent_outbox`, the BullMQ queue `action-intents` | write, claim, enqueue, mark, prune | `jobs/intentOutboxPublisher.ts`, `intentOutboxRetention.ts` |

The parts share rows of the database, not messages: each writes with an
`UPDATE ... WHERE` that tests the state it relies on, and most sequences span
several statements or several transactions. The agent is reached by a socket
push from the request that enqueued the command, or it fetches commands by
heartbeat and HTTP poll; it answers over the same two transports, and retries
answers from an outbox.

An intent is decided by one of several writers (approvers, the policy attempt
after its creation, two lanes that approve at once, the reapers, its
requester), each in one transaction that also writes the outbox row of the
transition. A publisher turns rows into jobs; a worker with an approval job and
the chat turn that still waits compete to release the intent; what they did is
recorded on the intent, on the task's operation, and told to the requester.

### What is hard

* Push, heartbeat and poll claim the same row; a release, the reaper and the
  waiting caller act on what an earlier statement read.
* A frame may be lost after it was handed over, or arrive although the send
  reported failure. Results come late, twice, or in another order.
* A server-side timeout is provisional (a real result may still replace it),
  a queue-admission ack too; every other result is final.
* A stop races the script's own result, the reaper, the sweep that takes an
  unproven stop back, a second stop, and a restart of the agent.
* A result first closes the command row and only later runs its handler; the
  process may die in between.
* A batch closes when two counters meet the number of devices. Several
  places increment them.
* In the executor a stop meets a script in its setup, between fork and the
  capture of its process group, in its wait or after its end; commands are
  redelivered, refusals expire, signals are denied, children hold the pipes.
* An intent's tool must run once although its job is delivered at least once,
  a chat turn competes for it, the kill switch hands it back, workers crash
  after the call and a reaper may be faster than a slow worker.
* An outbox row is claimed, queued and marked in three transactions on two
  stores; queue ids dedupe only while the queue remembers them.

### What makes it correct

A command reaches the agent at most once unless a send lied; one result wins;
what a caller was told stays true; a message "never delivered" is true; a row
without its secrets is never delivered; every row and every wait ends.
A script is reported cancelled only when nothing of it runs; a stop is credited
to the command that did it; a decided execution stays decided; a device is
counted once; every execution concludes.
A stop answered `terminated` by the executor is true of the processes; a kill
is marked on the result; a refusal is obeyed and later forgotten; one
identifier has one process.
An intent's tool is called at most once and never against a denial; intent,
operation and outbox agree; every intent ends; a rejection, cancellation or
expiry of a four-eyes intent reaches its requester. No outbox row is lost, and publishing one twice
does not serve it twice.

### Not modelled

The automation runtime, patch jobs and deployments, backup and restore, the
updater and the watchdog, remote desktop and tunnels, elevation, the Microsoft
365 executors, the front ends and the deployment files. `PROJECT.json` lists
each with the reason: they are further clients of the same command path, I/O,
operating-system work or user interface. Inside the modelled parts: the rules of
claim eligibility other than the power-state barrier; the abort of a dispatch
transaction whose frames have left (`scriptExecution.ts:286`); the page limits
of the reapers; the second outbox, of AI Operator tasks
(`aiOperatorTaskOutboxPublisher.ts`, the same three phases as
`intentOutboxPublisher.ts`); the admission predicate of a task (plan revision,
lease epoch), revalidation, assurance levels and budgets of an intent, which are
free choices; Windows job objects in the executor; the elevation rows that
share the intent outbox.

## 2. Modules

    CommandRow        the row and its conditional writes (operators only)
      DeviceCommands          the queue of one device, a state machine
        CommandPromise        what the queue promises (INSTANCE'd)
        MCDeviceCommands      instances for TLC
        DeviceCommandsProofs  theorems
    ScriptRuns        one script on a set of devices: dispatch, stop, batch
      MCScriptRuns            instances for TLC
      ScriptRunsProofs        theorems
    ScriptExecutor    the agent's executor: Execute, Cancel, watchdog, processes
      MCScriptExecutor        instances for TLC
      ScriptExecutorProofs    theorems
        ScriptStopProofs      theorems about a cancel's answer
    ActionIntents     one intent: decisions, release, operation, notification
      MCActionIntents         instances for TLC
      ActionIntentsProofs     theorems
        IntentLedgerProofs    theorems about the operation row
    IntentOutbox      outbox rows, publisher runs, queue, retention
      MCIntentOutbox          instances for TLC
      IntentOutboxProofs      theorems

`ScriptRuns` has the executor as the server sees it; `ScriptExecutor` is the same
code at the grain of its critical sections. `ActionIntents` takes from
`IntentOutbox` that an event may be served several times, by several workers at
once, and that it is served unless its row is stuck.

### CommandRow

One operator per SQL statement: `Claimed`, `Released` (fenced on the claim's
own timestamp), `Terminated` (every terminal write also strips the secret keys
of the payload), `Rearmed`, `AcceptsAgentResult`, `ReapVerdict`, `ReapGuard`.
The stored result is abstracted to the marker that later WHERE clauses test,
the payload to whether its secrets are there.

### DeviceCommands

`row` is the table restricted to one device. `pc`, `route` and `told` are the
enqueueing request: where it is, how it pushes, what it answered. `tx` is an
open claim transaction with the rows it holds FOR UPDATE. `attempts` are claims
whose frame is not on the wire yet; `got` counts the copies the agent has;
`frames` is what the agent has answered (each element may arrive any number of
times, in any order, or never); `seen` is what the reaper has read.
`accepted` and `timeouts` count the final results and the agent-reported
timeouts that won the compare-and-set.

Every statement or transaction is one action, and whatever the code does
across an `await` is another: `CountInFlight`/`PushClaim`,
`ClaimSelect`/`ClaimCommit`, `WaitDeadline`/`WaitReread`, `ReapScan`/`ReapRow`,
`StopCheck`/`Rearm`. `Strand` stands for a frame lost on the wire, a crash with
the claim in hand, a failed release, and a secret gate that withholds without a
verdict: in all of them the row stays sent.

Decisions a reader should know:

* The rows that a claim transaction finds ineligible, or holds back for the
  batch limit of ten or a missing agent capability, are a free choice, and it
  locks every candidate. The rules of `commandClaimEligibility.ts` other than
  the power-state barrier are therefore not checked.
* `FreshStamp`: two claims of one row do not carry the same timestamp while the
  first one's delivery is outstanding. The code's fence is a millisecond
  timestamp, so this is an assumption about the clock.
* A send that fails after the frame left is `GhostSends`; the number of copies
  it can produce is bounded by `MaxCopies`.
* Only a script reports a timeout of its own.
* The socket and the HTTP route ingest a result by the same lookup and the same
  compare-and-set; `IngestResult` is mapped to the socket's, `Ingest` of
  `ScriptRuns` to the HTTP route's.
* A re-armable command is on the queue route and has no deadline, as
  `ensureDesktopStreamStopped` inserts it.
* `StopCheck` takes a completed row for a confirmed stop; the proof in its
  stdout that `parseConfirmedStop` also asks for (`desktopSessionStop.ts:46-71`)
  is left out. A completed row without it is re-armed in the code, which in the
  model happens to rows that failed or timed out.
* `AtMostOnceDelivery` and `NeverReceived` are stated for sends that report
  truthfully and exempt the re-armable stop. The timestamp fence of a release
  decides nothing for the other types, whose rows are not claimed again while a
  release of theirs is outstanding.
* An interactive caller whose push failed is told the device is unreachable and
  the row stays pending, as in the code.
* Left out: `terminal_*` and `self_uninstall` types, which the reaper exempts;
  the elevation types, which do not reopen over HTTP after a timeout; the
  watchdog target role; audit rows; the helpers `getPendingCommands`,
  `markCommandsSent` and `submitCommandResult`, which have no caller.
* The type sets are independent parameters; an instance may put one command in
  several of them to exercise more branches with fewer commands.

### CommandPromise

A command is absent, waiting, in flight, provisionally finished, or settled
with an outcome that never changes; only a repeatable one starts over. The
mapping is in `DeviceCommands` (`PhaseOf`, `OutcomeOf`): a terminal row that
may still take an agent result is provisional.

### ScriptRuns

An execution and its script command share an identifier; a `script_cancel`
command has its own. `exec` is the execution row (status, cancel state,
previous status, the cancel it waits for, whether the agent's output is
stored). `cmd` and `leg` are a command's status and what became of its last
claim; `handling` holds results whose command is closed and whose handler has
not run; `scan`, `sweep` and `moving` are what the execution reaper, the
cancellation sweep and an organisation move have read and not yet written.
`proc`, `stopper` and `waiting` are the device: the process, the cancel
recorded against it, the cancel handlers that wait for it to die.

The dispatch request is one transaction whose frames leave before it commits
(`committed`), so a device may run, even finish, a script whose rows nobody can
see yet. `HandleScript` applies the whole ladder of compare-and-sets of
`handleScriptResult` at once: once the command is closed no other step can make
an execution match an earlier rung. A process is `orphans` when the kill (of a
stop or of the executor's time limit) reached only the leader of an uncontained
tree, or when it survived the agent.

Decisions a reader should know:

* One device per execution. Time is a set of flags: `aged` (delivered a grace
  window ago) and `settled` (terminal for a grace window), and deadlines may
  pass at any moment, which covers every duration.
* An aborting dispatch transaction is not modelled, nor are a duplicate
  `Execute`, the user-helper fan-out, custom fields, automation closures and
  the cancel of an orphaned command. A kill that errors on a contained process
  is covered by `GiveUp`.
* Duplicated deliveries of one command are the subject of `DeviceCommands` and
  do not happen here.
* `HonestCancel` is about what the server reports. That a script starts after
  its stop was answered `not_found`, and that a proof is lost to the sweep, are
  not violations of it; `ExecutorRace.cfg` and `SweepRace.cfg` exhibit them.
* `GivenUp` has the delivered-long-ago and the settled arm of the sweep, not the
  one for an execution without a cancel command (`staleCommandReaper.ts:817`).

### ScriptExecutor

`running` is `Executor.running`; its entries are heap objects that outlive their
place in the map, so an entry is named by the call that made it. One action is
one critical section of `Executor.mu` or of an entry's `mu`, one step of
`os/exec` (the watchdog that `Start` arms and `Wait` retires), or one of the
operating system. The process group of a script is its leader and one child,
which stands for any descendants; a signal may be denied, and a script may
ignore SIGTERM. Contexts are `live`, `cancelled` or past their `deadline`; the
grace period, the backstop and the refusal's time to live are not measured:
each may run out at any moment after it began.

A process that a signal reached is gone at once. A child in uninterruptible I/O,
which `executor.go:575-581` names and bounds by `WaitDelay`, outlives its kill
in reality: `KilledWholeGroup` says that every process of the group was killed,
not when the kernel reaps it. `WaitPipes` errs on the side of a failure: it
reports an expired `WaitDelay` whenever a child is left, also one that does not
hold the pipes. `KillIsMarked` accepts any cancel of the execution, because
`markCancelRequested` keeps the id of the last one that asked; which of two
stops did the killing is not told apart.

A `Start` that fails because the context is already done and one that fails to
fork are one action. What Windows adds (job objects, suspended starts) and the
helper that runs a script in a user's session are left out, as is a capture of
the process group that fails, which `capturePgid` rules out on Unix.

### ActionIntents

`intent`, `rows`, `op` and `box` are the four tables; `rel` is each worker, the
chat session and the trigger that runs the policy's attempt after the creation's
commit; `calls` counts calls of the tool; `rung` the classes of notification
that exist; `lost` the bell events (rejected, expired, cancelled) whose worker
died, threw or had nobody to tell; `late` remembers that a deferred fan-out wrote on an intent that
was already decided, which `FanoutLate.cfg` exhibits and the other invariants
except.

One action is one transaction, one call of Redis or one call of the tool. Choices
the model does not explain (kill switch, the task's admission, revalidation,
flags, budgets, the pool of approvers) are made at the step that reads them.
Time is three flags: the approval window, the release lease, and the age of an
execution. A worker holds one job; an event is served at most `MaxServes` times.
A tool call that timed out in the worker has been made and may still take
effect, so `calls` counts it. A result that says `failed` without an error body
is `unsuccessful`: it fails the operation and completes the intent.

`notifyRequesterOfOutcome` is silent for the requester of a supervised intent,
who watched the chat that created it; for an agent's intent it is silent when
run or agent are gone or no recipient is left (`Notify`). `intent.supervised` is
the approval scope, chosen at the creation: only a chat's intent has it, its one
approver is its requester, and a proposal the script reviewer approves at once
is always of that scope. `Told` is stated for the rest. The recipients of an
agent are one bell.

`Reconcile` is the third writer of an operation's result
(`taskReconciler.ts:280`): once the task is over it reads the command that the
operation refers to. It may run whenever there is a reference, which covers every
state of the task. What it reads cannot contradict a success that the tool
returned with a reference, since both are the row of that command, which keeps
its final result (`ResultOnce` of `DeviceCommands`).

### IntentOutbox

`row` is the outbox with the attempts of each row, `pub` the publisher runs that
may overlap, `job` the queue, where the job of a row has the row's name because
its `jobId` is built from event and intent. BullMQ is external: adding a retained
`jobId` does nothing, a worker holds a lock that may lapse, the stalled check
requeues a lapsed job `MaxStalled` times and then fails it, and retention drops
finished jobs (`MaxEvictions` bounds how often). A job has one attempt, since
neither the publisher's `add` nor its queue sets `attempts`: a processor that
throws (`Throws`) has failed its job for good. `AddRefused` is Redis refusing
one add. `Scan` claims any non-empty set of due rows, which covers the limit of
200 and the rows another run has locked; that the oldest come first is left out,
and so are the elevation rows.

## 3. Runs

| Run | Instance | What it shows |
|---|---|---|
| `delivery_push` | a script with secrets and a waiting caller, beside a re-armed desktop stop; one claimer | `AtMostOnceDelivery`, `NeverReceived`, `AnswerStands`, `ErasedNotDeliverable`, `TypeOK` |
| `delivery_ghost` | one command of every kind on every route, two claimers, sends that lie, with fairness | duplicates reach the agent, yet `ResultOnce` holds and the queue implements `CommandPromise` (`KeepsPromise`); `Settles`, `CallerAnswered` |
| `stop_one` | one execution, two stops, a restart, an agent timeout | `HonestCancel`, `CreditedStop`, `DecidedStays`, `TypeOK` |
| `batch_slots` | two devices, one of them uncontained, one stop | `SlotOnce`, `HonestCancel` |
| `run_concludes` | one uncontained execution, moves, gate faults, a restart, with fairness | `Concludes` |
| `executor_calls` | for one id, two `Execute` calls and a `Cancel` or one `Execute` and two `Cancel` calls, one of these with a grace period, with fairness | `StoppedForGood`, `KilledWholeGroup`, `KillIsMarked`, `RefusalObeyed`, `OneProcessPerId`, `TypeOK`; `RunEnds`, `CancelAnswered`, `RefusalForgotten` |
| `intents_release` | a chat's or a task's intent, all modes, two approvers, two workers, crashes | `CalledOnce`, `CallSettles`, `DenialHolds`, `EndingPublished`, `NothingSent`, `OutcomeKept`, `TypeOK` |
| `intents_settle` | every kind and mode, one approver, one worker, every fault, with fairness | `Settles`, `Told` |
| `outbox_delivery` | two rows, two publisher runs, with fairness | `NoRowLost`, `DedupeHolds`, `Delivered`, `TypeOK` |
| `batch_closes` | two devices that simply report | violation of `BatchCloses` |
| `fanout_late` | an agent's intent left to the policy | violation of `DecidedKept` |
| `outbox_throw` | one row, one publisher run, with fairness | violation of `ThrowRedelivered` |

Deadlock checking is off because the bounded clock, the finite sets of commands
and cancels and the finished executions let every instance stop.

### Bounds

`EnqueueUntil`, `ClaimUntil` and `MaxTime` leave time after an enqueue for its
delivery window and after a claim for its execution timeout, so both clocks of
the reaper can run out in every instance (in `delivery_ghost`, after the last
possible claim); a second claim after a release and a result after a timeout
both fit. `MaxCopies = 2` is the
least that makes a duplicate, `MaxTimeouts = 2` the least that makes a repeated
one; in the other runs one accepted agent timeout is enough to reopen a row.
`MaxRearms = 1` lets a terminal row come back beside a claim that is still
outstanding. Rows of one device interact only through the power-state barrier,
the reaper's scan and a claim batch, so two commands reach every pair. In
`ScriptRuns` two cancels let an old acknowledgement meet a new stop, two
executions are the least that make a batch, and one restart loses the
executor's table at every point of a run. `StopSymmetry` and `ClaimerSymmetry`
permute identifiers that no action tells apart, in runs without liveness.
`PeerSymmetry` does so for approvers and workers, and `ReleaseView` of
`intents_release` leaves out `rung`, which no action reads.

In `ScriptExecutor` two `Execute` calls for one id are a redelivery, and two
cancels the least that overwrite one another's request, leave one refusal and
meet it with another stop; `MaxCalls = 3` lets either happen in a run with
fairness. `ExecutorCancel.cfg` has all four calls at once, without fairness; it
passes (1.6 million states) and is kept for TLC by hand, since its invariants
are theorems for any number of calls; calls for different ids share nothing but the map's
lock. In `ActionIntents` two approvers are the least that disagree, two workers
and two servings of an approval the least that compete (the session is a third
competitor); `intents_settle` needs one of each because every event is served
there once. In `IntentOutbox` two rows make a claim of several and a loop that
fails half-way, two publishers an overlap, `MaxPublishAttempts = 1` a claim at
the limit and an alarm past it; one lapse and one eviction are the least that
serve a job again, and the proofs have every value.

### Fairness

`DeviceCommands`: the clock runs; a claim transaction ends (commits or rolls
back); the reaper, a repeatable BullMQ job every two minutes
(`staleCommandReaper.ts:1636`), scans and gets through its rows; a waiting
request polls until its deadline and then answers. Nothing is assumed of the
agent, of delivery, or of results.

`ScriptRuns`: only the reaper's steps (`ScanExec`, `FinishExec`, `SweepRead`,
`SweepRevert`, `Expire`) and the passing of the grace window (`Settle`). No
device, operator or handler has to do anything for `Concludes`.

`ScriptExecutor`: goroutines that have begun are scheduled, and timers (deadline,
refusal, backstop) fire. Nothing is assumed of the script, of signals being
permitted (`RunEnds` excepts a denied kill), or of commands arriving.

`ActionIntents`: the reapers are a repeatable job (`intentExpiryReaper.ts`), time
passes, a worker goes on with its job, and an event is served at least once if a
worker is free. Nothing is assumed of users, the session or the trigger, and no
fault has to happen. That each event is served once is what `Delivered` of
`IntentOutbox` says of rows that are not stuck; `Settles` does not depend on it
in the code, the reapers end an intent nobody serves.

`IntentOutbox`: the publisher is a repeatable job whose runs end or die; a free
worker takes a job, its processor returns, throws or loses its lock, and BullMQ checks for
stalled jobs. Redis may refuse adds for ever: such a row ends up stuck.

### Disagreements with the repository's own statements

The three violation runs have a finding in `PROJECT.json` with the quoted line:

* `batch_closes`: `handleScriptResult` increments a counter without the
  completion check, so a batch whose devices all report stays queued.
* `fanout_late`: the deferred fan-out compares the policy state and not the
  status, so it asks about, or cancels, an intent that was decided meanwhile.
* `outbox_throw`: a job whose processor throws is not served again. The comments
  say that it is: "BullMQ redelivers the job per this job's retry policy instead
  of the event being marked processed and gone forever"
  (`intentReleaseWorker.ts:1913-1917`; also `:1871-1875`, `policyDecide.ts:84`,
  `:459` and `:711`, `intentService.ts:1087`, and the test title at
  `intentReleaseWorker.test.ts:4137`). `DedupeHolds` counts the servings the code
  gives, one per life of a job and one per lapsed lock; with a retry policy its
  bound would have to grow by the attempts. What the missing redelivery costs is
  in `intents_settle`: an intent whose policy attempt threw (`Faults` has
  `throw`) ends through the expiry reaper.

Ten further configurations are kept for TLC by hand
(`tlc -config X.cfg M`); each ends in a counterexample to one property, which
states a line of the repository:

| Configuration | Module | Property | What the code does | What the repository says |
|---|---|---|---|---|
| `PowerPush.cfg` | `MCDeviceCommands` | `PowerClaimedAlone` | the push counts in one statement and claims in the next; two pushes of a device are not serialised (`dispatchDeviceCommand.ts:195`) | "Claimed alone and only when nothing else is in flight" (`commandClaimEligibility.ts:74`) |
| `AgentTimeout.cfg` | `MCDeviceCommands` | `HandledOnce` | a timeout the agent reports is stored with the marker of a server-side one, so a duplicate of the frame is accepted again (`commandResultAcceptance.ts:59`) | "a second copy of the same frame finds 0 rows and is ignored" (`commandResultAcceptance.ts:49`) |
| `SweepRace.cfg` | `MCScriptRuns` | `ProofNotLost` | the settle test guards one arm of the sweep; through the other a stop whose proof awaits its handler is taken back (`staleCommandReaper.ts:812`) | "costs one extra sweep cycle and removes the race" (`staleCommandReaper.ts:806`) |
| `MarkerStripped.cfg` | `MCScriptRuns` | `MarkerCloses` | the result schema drops the cancellation marker (`routes/agents/schemas.ts:491`) | it "lets the server close a `cancelling` execution as `cancelled`" (`handlers_script.go:293`) |
| `MoveRace.cfg` | `MCScriptRuns` | `HonestCancel` | the move propagates to the commands it selected, not to those it cancelled (`moveOrg.ts:540`) | "Only a row this UPDATE actually flipped is ours to propagate" (`commandClaimEligibility.ts:402`) |
| `ExecutorTree.cfg` | `MCScriptExecutor` | `TreeGone` | a leader that ended by itself leaves children, no kill runs, and a stop in that moment is graded on containment alone (`executor.go:836`) | "CancelTerminated means the process (and its tree) is provably gone." (`executor.go:80`) |
| `ExecutorRace.cfg` | `MCScriptExecutor` | `NotFoundNeverStarts` | `Execute` reserves between the lookup and the refusal record, which then marks nothing (`executor.go:802`) | "a cancel racing Execute's setup cannot report not_found and then let the script start anyway" (`executor.go:164`) |
| `FailureUntold.cfg` | `MCActionIntents` | `FailureTold` | nothing serves `intent_failed`, so an intent that fails after its requester was told it was granted ends unheard | granted to failed is among the "real corrections that must survive the dedupe" (`intentReleaseWorker.ts:1631`) |
| `OutcomeSeen.cfg` | `MCActionIntents` | `OutcomeUnobserved` | the requester of a four-eyes intent is rung when it is denied, expires or fails, whether or not the chat turn is over (`intentReleaseWorker.ts:1842`); `Told` states what the code does | "After that they are told nothing at all — not when the intent is DENIED, not when it expires at its own deadline, and not when the durable release worker fails it"; "four_eyes outcomes are unobservable to the requester once this turn ends" (`aiAgentSdk.ts:1514-1526`) |
| `RefusalOverwrites.cfg` | `MCActionIntents` | `FailedUnsent` | a refused claim is recorded in a transaction of its own, after another worker may have claimed and called (`intentReleaseWorker.ts:999`) | "Terminal for the operation: nothing was sent" (`operationService.ts:187`) |

Met while modelling, without a run of their own: a batch slot is never spent
for an execution that a retraction or a terminated acknowledgement ends
(`scriptCancellation.ts:376`), and is spent twice when the secret gate throws
during dispatch (`scriptDispatch.ts:796`; set `GateFaults` in `BatchSlots.cfg`);
the pushed copy of a synchronous command lacks the caller's time budget
(`commandQueue.ts:1414`); a desktop stop confirmed between the check and the
re-arm is delivered again (`commandQueue.ts:252`); rows that are not yet due
can fill the page of a reaper (`staleCommandReaper.ts:424`); an execution
reaped between a result and its handler keeps the reaper's status and not the
output (`staleCommandReaper.ts:688`); the write of an operation's outcome may
fail and is swallowed, after which intent and operation disagree
(`operationService.ts:404`); an intent asked to stop while executing is executed
again if the kill switch then hands it back.

## 4. Proofs

`DeviceCommandsProofs` proves, for every set of commands and claimers, every
mix of types, routes and bounds, from the assumptions `TypeSets`,
`RearmablePlain` and `Bounds` of `DeviceCommands`:

| Theorem | Statement |
|---|---|
| `TypeCorrect` | `Spec => []TypeOK` |
| `DeliveredAtMostOnce` | `Spec => []AtMostOnceDelivery` |
| `NeverReceivedHolds` | `Spec => []NeverReceived` |
| `OneResult` | `Spec => []ResultOnce` |
| `AnswersStand` | `Spec => []AnswerStands` |
| `ErasedStaysDown` | `Spec => []ErasedNotDeliverable` |
| `Implements` | `Spec => KeepsPromise` |

The common part of the inductive invariant is `Base`: the clock has started; a
row that is not terminal has no marker and a sent row has a timestamp
(`RowInv`); only the desktop stop is re-armed and nobody waits for it
(`StopInv`); the reaper blames delivery only for a row it read as pending
(`SeenInv`); only a queued backup is acknowledged (`AckInv`). On top of it:

* `RowMoves`, the lemma most proofs rest on: whatever action is taken, a row
  changes only by one of six moves. Properties of the row then follow from
  the moves instead of from some twenty actions.
* `HandOver`, for delivery: at-most-once is not inductive by itself. The
  strengthening says a row that can be claimed has no copy out and no attempt
  in progress, and an attempt is the only one of its row and has not delivered.
  The timestamp fence of `Released` and `ReapGuard` are what preserve it: a
  release or a reaper write on an old reading would break the first clause.
* `Final`, for results: an accepted result leaves the row in a state that
  `AcceptsAgentResult` refuses and no move but a re-arm leaves.
* Refinement: the initial state maps to an initial state and, by `RowMoves`,
  every step maps each command by a move of `CommandPromise` or not at all.

`IntentOutboxProofs` proves, for every set of rows and of publishers and every
value of the three budgets, from the assumption `OutboxParameters`:

| Theorem | Statement |
|---|---|
| `OutboxTyped` | `Spec => []TypeOK` |
| `RowsKept` | `Spec => []NoRowLost` |
| `ServedForCause` | `Spec => []DedupeHolds` |

* `KeptInv`, for rows: what a run has noted as added is in `queued`, which only
  grows; a mark writes only what its run has noted. Without the first clause a
  mark could publish a row whose add Redis had refused.
* `ServedInv`, for servings: `DedupeHolds` bounds them by a product and is not
  inductive, since a job that is waiting may have used its share. The
  strengthening charges each serving to the life of the job it belongs to
  (`PastServings`): a job that waits has had no more servings in this life than
  it has stalled, one that is held or finished one more, and all former lives
  together at most `MaxStalled + 1` each.

`ScriptExecutorProofs` proves, for any number of executes, cancels and ids and
any map of calls to ids, from the assumption `CallSets`:

| Theorem | Statement |
|---|---|
| `ExecutorTyped` | `Spec => []TypeOK` |
| `OneProcess` | `Spec => []OneProcessPerId` |
| `RefusalsObeyed` | `Spec => []RefusalObeyed` |
| `KillsMarked` | `Spec => []KillIsMarked` |

One inductive invariant, `ExecInv`, has a part per kind of object:

* `HeldOK`: an `Execute` between its reservation and its release holds what the
  map has under its id, and that entry is owned. `OneProcessPerId` needs it: a
  reservation takes an id the map has nothing for, or a record nobody owns.
* `MapOK`, `RefusedOK`: a cancel's entry in the map asks for a refusal, so the
  `Execute` that adopts it is refused at once.
* `EntOK`, `StopOK`: a request and its marker are written together, by a cancel
  of the entry's own id, before the context is cancelled.
* `ProcOK`, `ResultOK`: nothing is signalled before the context is done, a
  cancelled context means a request, and after `Wait` nobody is left to signal
  the leader; so a result that is made can not become wrong later.

The proof has two frame lemmas, `RunStep` and `StopStep`: a step of one
goroutine that keeps the owners and the markers has to show only that
goroutine's part.

`ScriptStopProofs` builds on it and proves what a cancel's answer is worth:

| Theorem | Statement |
|---|---|
| `TerminatedMeansStopped` | `Spec => []StoppedForGood` |
| `TerminatedMeansGroupKilled` | `Spec => []KilledWholeGroup` |

Its invariant, `StopsInv`, follows a reservation from the map into the hands of a
cancel and back to its one `Execute`:

* `OwnOK`, `KeyOK`, `HoldOK`: an `Execute` never adopts the reservation of
  another, and one that the map or a cancel has is still its `Execute`'s. Without
  them an answer about one entry would say nothing about a redelivered command.
* `StageOK`: how far an entry's flags say its `Execute` is. Before `attempted`
  there is no process; `done` comes last; a kill that returned without an error
  and with the group captured in time has emptied the group.
* `Safe`, `TermOK`: `terminated` was answered for an entry that is asked to stop
  and was not attempted, so its `Execute` is refused, or that is over. `Safe` is
  stable; the two properties themselves are not inductive, because a process
  that does not exist yet satisfies them.

`ScriptRunsProofs` proves, for any finite set of executions, any number of
cancel commands and restarts and any choice of contained and slow scripts, from
the assumption `IdSets`:

| Theorem | Statement |
|---|---|
| `RunsTyped` | `Spec => []TypeOK` |
| `DecisionsStay` | `Spec => DecidedStays` |
| `CreditedStops` | `Spec => []CreditedStop` |
| `HonestCancels` | `~Moves` implies `Spec => []HonestCancel` |
| `SlotsOnce` | `~GateFaults` implies `Spec => []SlotOnce` |

The two hypotheses are not conveniences. With `Moves` an organisation move may
select a command, lose the race for it to a claim and still report its
execution cancelled: `MoveRace.cfg` shows it. A secret gate whose lookup throws
in the middle of a dispatch may have counted the device as failed while its
execution stays pending and its command sent, so a later result counts it again.
That the executions are a finite set is what makes the counters comparable with
their number; a run names its devices one by one.

The invariant has three layers, each proved on top of the one before:

* `TypeInv`: an execution being stopped names a cancel command made for it and
  a status to return to, and results that wait for their handler carry no
  marker. The first is needed for types alone: a revert writes `prev` back.
* `StopInv`: where a command, a claim and a process can be relative to each other
  (`DeliveryOK`), and the chain behind a confirmed stop: a handler holds only
  acknowledgements the agent sent (`HandlingOK`), the agent sends `terminated`
  only when the process is gone or is refused at its start (`ProvenOK`), and an
  execution is confirmed or cancelled only on such an acknowledgement or on a
  command taken back from the queue (`ConfirmedOK`, `CancelledOK`).
* `SlotInv`: a slot is spent at most once and only on a final execution, and the
  counters are the number of slots spent; `SlotOnce` alone does not survive a
  step that counts a second time.

As with `RowMoves`, every action is first classified: what it may do to one
execution (`ExecMove`), one command (`CmdMove`), one process (`ProcMove`) and to the
batch (`BatchMove`). The invariants are then preserved by the moves, not by some
thirty actions.

`ActionIntentsProofs` proves, for any approvers, workers, kinds, lanes, faults
and bounds on the servings, from the assumption `Parameters`:

| Theorem | Statement |
|---|---|
| `IntentTyped` | `Spec => []TypeOK` |
| `ToolCalledOnce` | `Spec => []CalledOnce` |
| `CallsSettle` | `Spec => []CallSettles` |
| `DenialsHold` | `Spec => []DenialHolds` |
| `EndingsPublished` | `Spec => []EndingPublished` |
| `CallsFinal` | `Modes` without `policy` and `script_reviewer` implies `Spec => []CallFinal` |

The inductive invariant is `IntentInv`. `CalledOnce` is not inductive: the kill
switch hands a claim back, so an intent may be claimed many times. The
strengthening has the claim as a token: one process holds it, a holder has not
called (`OneHolder`), and an intent that is held or called is not open
(`Released`), so a pause can reopen it only if nothing was called. `RowsAgree`
ties open and denied requests to the statuses they are possible in, `Deferred`
says that nobody was asked before the deferred fan-out and that it comes once,
which is why its exception `late` can be stated as a flag.

Most of these properties except an intent whose deferred fan-out came late, the
disagreement that `fanout_late` exhibits. `CallsFinal` says where the exception
cannot happen: an intent that goes to people at once, or is a ticket's, is never
left `unattempted`, so for it `CallSettles` and `DenialHolds` hold as they stand.

`IntentLedgerProofs` builds on `IntentInv` and proves what the operation row of a
task can be trusted for:

| Theorem | Statement |
|---|---|
| `RowSaysUnsent` | `Spec => []NothingSent` |
| `SuccessRecorded` | `"ledger" \notin Faults` implies `Spec => []OutcomeKept` |

* `SentInv`: only a task has an operation, and that of a claimed or called intent
  is neither reserved nor cancelled. `NothingSent` is not inductive, since it says
  nothing of the moment between claim and call. It holds under every fault,
  failed writes of the row included.
* `OutcomeInv`: one process at most is the caller; until it has attached a
  reference to what came back there is none, so the reconciler has nothing to
  read and nobody has written more than `unknown`, which gives way
  (`RecordResult` writes only over a weaker rank); from then until it has
  recorded a success the row is not `failed`. Steps are classified by
  `CallerMove`, `ResultMove` and `RefMove`. The hypothesis is needed: the code logs and
  swallows a failed write of the row, and the release then ends the intent
  without the outcome on it.

The invariants were checked with TLC before they were proved: those of
`ScriptExecutor` on the instance of `ExecutorCancel.cfg`, those of
`ActionIntents` on that of `IntentsRelease.cfg`, `SentInv` also with every fault,
and those of `ScriptRuns` on `StopOne.cfg` and `BatchSlots.cfg`.

Only model-checked: the liveness properties (`Settles`, `CallerAnswered`,
`Concludes`, `RunEnds`, `CancelAnswered`, `RefusalForgotten`, `Told`,
`Delivered`), since fairness and `ENABLED` are outside the prover's reach. Every
invariant and every action property of a passing run is a theorem, the last two
of `ScriptRuns` and `OutcomeKept` under the hypotheses above.

## 5. Plan

Done: the queue, `ScriptRuns`, `ScriptExecutor`, `ActionIntents` and
`IntentOutbox`, with proofs of all their safety properties. What is left, in
order:

1. An abstract specification of an intent (undecided, granted, called, ended)
   that `ActionIntents` implements outside the late fan-out, as `CommandPromise`
   is for the queue; and one of a run that `ScriptRuns` implements.
2. `ClaimEligibility`: organisation drift, lifecycle, trust and requester
   checks of a claim, in place of the free choice in `ClaimSelect`.
3. The aborting dispatch transaction in `ScriptRuns`; the admission of an
   operator task in `ActionIntents`; the automation runtime's action results.
