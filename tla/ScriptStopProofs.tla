-------------------------- MODULE ScriptStopProofs --------------------------
(***************************************************************************)
(* What a cancel's answer `terminated` is worth, for any number of         *)
(* executes, cancels and ids: the script's leader is not running and never *)
(* will be, and a kill that ran has left nothing of the process group.     *)
(***************************************************************************)
EXTENDS ScriptExecutorProofs

-----------------------------------------------------------------------------
(* The inductive invariant, on top of ExecInv.                             *)

\* An Execute holds its own reservation or a refusal record, never the
\* reservation of another Execute.
OwnOK(r) == run[r].entry \in Runs => run[r].entry = r

\* A reservation in the map, or in the hands of a cancel, is its Execute's.
KeyOK(i) ==
    running[i] \in Runs => /\ ent[running[i]].owned
                           /\ run[running[i]].entry = running[i]
HoldOK(c) ==
    /\ stop[c].entry \in Runs => run[stop[c].entry].entry = stop[c].entry
    /\ stop[c].pc # "answered" => stop[c].outcome = "none"

\* How far the reservation of r says its Execute is: there is no process
\* before the attempt, none was left if the start never came about, and a
\* kill that returned without an error, with the group captured in time, has
\* emptied the group.
StageOK(r) ==
    /\ ent[r].lost => ~ent[r].contained
    /\ ent[r].done => run[r].pc = "done"
    /\ run[r].entry = r =>
          /\ ~ent[r].attempted => /\ run[r].pc \in {"setup", "refused", "ending", "done"}
                                  /\ run[r].tree = {} /\ run[r].watch = "off"
          /\ ~ent[r].started => /\ run[r].pc \notin {"waiting", "pipes"}
                                /\ run[r].pc \in {"read", "ending", "done"} =>
                                      run[r].tree = {} /\ run[r].watch = "off"
          /\ run[r].watch = "returned" /\ ~ent[r].lost /\ ~ent[r].killErr =>
                run[r].tree = {}

\* The Execute of r will be refused, or is over with what its kill promised.
Safe(r) ==
    \/ ent[r].requested /\ ~ent[r].attempted
    \/ run[r].pc = "done" /\ (run[r].watch = "returned" => run[r].tree = {})

\* What `terminated` says of a reservation.
TermOK(c) ==
    stop[c].outcome = "terminated" /\ stop[c].entry \in Runs => Safe(stop[c].entry)

StopsInv ==
    /\ \A r \in Runs : OwnOK(r) /\ StageOK(r)
    /\ \A i \in Ids : KeyOK(i)
    /\ \A c \in Cancels : HoldOK(c) /\ TermOK(c)

\* Nothing has begun.
LEMMA InitStops == Init => StopsInv
<1> SUFFICES ASSUME Init PROVE StopsInv
  OBVIOUS
<1>1. ASSUME NEW r \in Runs PROVE OwnOK(r) /\ StageOK(r)
  <2>1. r \in Entries /\ ent[r] = NewEntry /\ run[r] = NewRun /\ r # None
    BY CallSets DEF Init, Entries
  <2>2. ~ent[r].lost /\ ~ent[r].done /\ run[r].entry = None
    BY <2>1 DEF NewEntry, NewRun
  <2> QED BY <2>1, <2>2, CallSets DEF OwnOK, StageOK, Entries
<1>2. ASSUME NEW i \in Ids PROVE KeyOK(i)
  BY CallSets DEF Init, KeyOK, Entries
<1>3. ASSUME NEW c \in Cancels PROVE HoldOK(c) /\ TermOK(c)
  BY CallSets DEF Init, HoldOK, TermOK, Entries
<1> QED BY <1>1, <1>2, <1>3 DEF StopsInv

-----------------------------------------------------------------------------
(* Steps of one Execute, its watchdog and its processes.                   *)

\* Such a step has to keep what is known of its own reservation.
LEMMA OwnStep ==
    ASSUME ExecInv, StopsInv, NEW r \in Runs, UNCHANGED <<running, stop>>,
           \A s \in Runs \ {r} : run'[s] = run[s] /\ ent'[s] = ent[s],
           ent'[r].owned = ent[r].owned, run'[r].entry = run[r].entry,
           StageOK(r)', Safe(r) => Safe(r)'
    PROVE  StopsInv'
<1>1. ASSUME NEW s \in Runs
      PROVE  /\ run'[s].entry = run[s].entry /\ ent'[s].owned = ent[s].owned
             /\ OwnOK(s)' /\ StageOK(s)' /\ (Safe(s) => Safe(s)')
  <2>0. OwnOK(s) /\ StageOK(s)
    BY DEF StopsInv
  <2>1. CASE s = r
    BY <2>0, <2>1 DEF OwnOK
  <2>2. CASE s # r
    <3>1. run'[s] = run[s] /\ ent'[s] = ent[s]
      BY <2>2
    <3> QED BY <2>0, <3>1 DEF OwnOK, StageOK, Safe
  <2> QED BY <2>1, <2>2
<1>2. ASSUME NEW i \in Ids PROVE KeyOK(i)'
  BY <1>1 DEF StopsInv, KeyOK
<1>3. ASSUME NEW c \in Cancels PROVE HoldOK(c)' /\ TermOK(c)'
  <2>1. HoldOK(c) /\ TermOK(c) /\ stop'[c] = stop[c]
    BY DEF StopsInv
  <2>2. stop[c].entry \in Runs => (Safe(stop[c].entry) => Safe(stop[c].entry)')
    BY <1>1, <2>1 DEF Safe
  <2> QED BY <1>1, <2>1, <2>2 DEF HoldOK, TermOK
<1> QED BY <1>1, <1>2, <1>3 DEF StopsInv

\* The parts of a run that matter here.
View(r, pc, tree, watch) ==
    /\ run'[r].pc = pc /\ run'[r].tree = tree /\ run'[r].watch = watch
    /\ run'[r].entry = run[r].entry
    /\ \A s \in Runs \ {r} : run'[s] = run[s]

\* What is known of a run before its step.
LEMMA Known ==
    ASSUME ExecInv, StopsInv, NEW r \in Runs
    PROVE  /\ run \in [Runs -> Run] /\ run[r] \in Run /\ ent \in [Entries -> Entry]
           /\ r \in Entries /\ ent[r] \in Entry /\ r # None /\ r \notin Cancels
           /\ HeldOK(r) /\ ProcOK(r) /\ RefusedOK(r) /\ OwnOK(r) /\ StageOK(r)
           /\ Active(r) => run[r].entry \in Entries
           /\ run[r].pc \in {"setup", "starting", "forked", "attached", "waiting",
                             "pipes", "read"} => run[r].entry = r
           /\ run[r].watch # "off" /\ run[r].ctx # "none" => run[r].entry = r
<1>1. /\ run \in [Runs -> Run] /\ run[r] \in Run /\ ent \in [Entries -> Entry]
      /\ r \in Entries /\ ent[r] \in Entry /\ r # None /\ r \notin Cancels
  BY CallSets DEF ExecInv, TypeOK, Entries
<1>2. HeldOK(r) /\ ProcOK(r) /\ RefusedOK(r) /\ OwnOK(r) /\ StageOK(r)
  BY DEF ExecInv, RunOK, StopsInv
<1>3. run[r].entry \in Runs \cup Cancels \cup {None}
  BY <1>1 DEF Run, Entries
<1>4. Active(r) => run[r].entry \in Entries
  BY <1>2, <1>3 DEF HeldOK, Entries
<1>5. run[r].pc \in {"setup", "starting", "forked", "attached", "waiting",
                     "pipes", "read"} => run[r].entry = r
  BY <1>2, <1>3 DEF HeldOK, Active, RefusedOK, OwnOK
<1>6. run[r].watch # "off" /\ run[r].ctx # "none" => run[r].entry = r
  BY <1>2, <1>3 DEF ProcOK, RefusedOK, OwnOK
<1> QED BY <1>1, <1>2, <1>4, <1>5, <1>6

\* The steps that write no entry.
LEMMA QuietStops ==
    ASSUME ExecInv, StopsInv, NEW r \in Runs,
           \/ SetupFails(r) \/ FinishRefused(r) \/ ProcessResult(r)
           \/ StartFails(r) \/ StartProcess(r) \/ WaitLeader(r) \/ WaitPipes(r)
           \/ GroupGone(r) \/ System(r)
    PROVE  StopsInv'
<1>0. /\ run \in [Runs -> Run] /\ run[r] \in Run /\ r # None
      /\ HeldOK(r) /\ ProcOK(r) /\ RefusedOK(r) /\ StageOK(r)
      /\ run[r].pc \in {"setup", "starting", "forked", "attached", "waiting",
                        "pipes", "read"} => run[r].entry = r
  BY Known
<1>u. UNCHANGED <<running, ent, stop>>
  BY DEF SetupFails, FinishRefused, ProcessResult, StartFails, StartProcess, WaitLeader,
     WaitPipes, GroupGone, System, Deadline, WaitDelayKill, Spawn, Exits
<1> DEFINE Kept == /\ StageOK(r)' /\ (Safe(r) => Safe(r)')
                   /\ run'[r].entry = run[r].entry
                   /\ \A s \in Runs \ {r} : run'[s] = run[s]
<1> SUFFICES Kept
  BY <1>u, OwnStep
<1>1. CASE SetupFails(r) \/ FinishRefused(r) \/ ProcessResult(r)
  <2>1. /\ run[r].pc \in {"setup", "refused", "read"}
        /\ \E kind, by : Finish(r, kind, by)
    BY <1>1 DEF SetupFails, FinishRefused, ProcessResult
  <2>2. View(r, "ending", run[r].tree, run[r].watch)
    BY <1>0, <2>1 DEF Finish, View, Run
  <2> QED BY <1>0, <1>u, <2>1, <2>2 DEF View, StageOK, Safe, ProcOK
<1>2. CASE StartFails(r)
  <2>1. View(r, "read", run[r].tree, run[r].watch) /\ run[r].pc = "starting"
    BY <1>0, <1>2 DEF StartFails, View, Run
  <2> QED BY <1>0, <1>u, <2>1 DEF View, StageOK, Safe, ProcOK
<1>3. CASE StartProcess(r)
  <2>1. View(r, "forked", {"leader"}, "armed") /\ run[r].pc = "starting"
    BY <1>0, <1>3 DEF StartProcess, View, Run
  <2> QED BY <1>0, <1>u, <2>1 DEF View, StageOK, Safe, ProcOK
<1>4. CASE WaitLeader(r)
  <2>1. /\ View(r, "pipes", run[r].tree, IF run[r].watch = "armed" THEN "off"
                                         ELSE run[r].watch)
        /\ run[r].pc = "waiting"
    BY <1>0, <1>4 DEF WaitLeader, View, Run
  <2> QED BY <1>0, <1>u, <2>1 DEF View, StageOK, Safe, ProcOK
<1>5. CASE WaitPipes(r)
  <2>1. View(r, "read", run[r].tree, run[r].watch) /\ run[r].pc = "pipes"
    <3>1. run[r].pc = "pipes" /\ \E err : run' = [run EXCEPT ![r].pc = "read", ![r].err = err]
      BY <1>5 DEF WaitPipes
    <3> QED BY <1>0, <3>1 DEF View, Run
  <2> QED BY <1>0, <1>u, <2>1 DEF View, StageOK, Safe, ProcOK
<1>6. CASE GroupGone(r)
  <2>1. /\ View(r, run[r].pc, run[r].tree, "returned")
        /\ run[r].tree = {} /\ run[r].watch = "term"
    BY <1>0, <1>6 DEF GroupGone, View, Run
  <2> QED BY <1>0, <1>u, <2>1 DEF View, StageOK, Safe, ProcOK
<1>7. CASE Deadline(r)
  <2>1. View(r, run[r].pc, run[r].tree, run[r].watch)
    BY <1>0, <1>7 DEF Deadline, View, Run
  <2> QED BY <1>0, <1>u, <2>1 DEF View, StageOK, Safe
<1>8. CASE WaitDelayKill(r) \/ Spawn(r) \/ Exits(r)
  <2>1. PICK tree : /\ View(r, run[r].pc, tree, run[r].watch)
                    /\ tree \subseteq run[r].tree \/ "leader" \in run[r].tree
                    /\ run[r].tree = {} => tree = {}
    <3>1. CASE WaitDelayKill(r)
      BY <1>0, <3>1 DEF WaitDelayKill, View, Run
    <3>2. CASE Spawn(r)
      BY <1>0, <3>2 DEF Spawn, View, Run
    <3>3. CASE Exits(r)
      <4> PICK p \in run[r].tree : run' = [run EXCEPT ![r].tree = @ \ {p}]
        BY <3>3 DEF Exits
      <4>1. View(r, run[r].pc, run[r].tree \ {p}, run[r].watch)
        BY <1>0 DEF View, Run
      <4> QED BY <4>1
    <3> QED BY <1>8, <3>1, <3>2, <3>3
  <2> QED BY <1>0, <1>u, <2>1 DEF View, StageOK, Safe
<1> QED BY <1>1, <1>2, <1>3, <1>4, <1>5, <1>6, <1>7, <1>8 DEF System

\* One field of one entry.
LEMMA OneEntry ==
    ASSUME ExecInv, NEW e \in Entries, NEW w, ent' = [ent EXCEPT ![e] = w]
    PROVE  ent'[e] = w /\ \A d \in Entries \ {e} : ent'[d] = ent[d]
BY DEF ExecInv, TypeOK

\* The steps that write the entry of a running Execute.
LEMMA EntryStops ==
    ASSUME ExecInv, StopsInv, NEW r \in Runs,
           \/ BeginStart(r) \/ AttachProcessGroup(r) \/ MarkStarted(r)
           \/ WatchdogWakes(r) \/ KillLeader(r) \/ KillGroup(r)
    PROVE  StopsInv'
<1>0. /\ run \in [Runs -> Run] /\ run[r] \in Run /\ ent \in [Entries -> Entry]
      /\ ent[r] \in Entry /\ r # None /\ r \in Entries
      /\ HeldOK(r) /\ ProcOK(r) /\ StageOK(r) /\ run[r].entry = r
  BY Known DEF BeginStart, AttachProcessGroup, MarkStarted, WatchdogWakes, KillLeader,
     KillGroup, ProcOK
<1>u. UNCHANGED <<running, stop>>
  BY DEF BeginStart, AttachProcessGroup, MarkStarted, WatchdogWakes, KillLeader, KillGroup
<1>s. Runs \subseteq Entries
  BY DEF Entries
<1> DEFINE Kept == /\ StageOK(r)' /\ (Safe(r) => Safe(r)')
                   /\ run'[r].entry = run[r].entry
                   /\ ent'[r].owned = ent[r].owned
                   /\ \A s \in Runs \ {r} : run'[s] = run[s] /\ ent'[s] = ent[s]
<1> SUFFICES Kept
  BY <1>u, OwnStep
<1>1. CASE BeginStart(r)
  <2>1. CASE ent[r].requested
    <3>1. View(r, "refused", run[r].tree, run[r].watch) /\ run[r].pc = "setup" /\ UNCHANGED ent
      BY <1>0, <1>1, <2>1 DEF BeginStart, View, Run
    <3> QED BY <1>0, <3>1 DEF View, StageOK, Safe, ProcOK
  <2>2. CASE ~ent[r].requested
    <3>1. View(r, "starting", run[r].tree, run[r].watch) /\ run[r].pc = "setup"
      BY <1>0, <1>1, <2>2 DEF BeginStart, View, Run
    <3>2. ent' = [ent EXCEPT ![r] = [ent[r] EXCEPT !.attempted = TRUE]]
      BY <1>0, <1>1, <2>2 DEF BeginStart
    <3>3. /\ ent'[r] = [ent[r] EXCEPT !.attempted = TRUE]
          /\ \A d \in Runs \ {r} : ent'[d] = ent[d]
      BY <1>0, <1>s, <3>2, OneEntry
    <3>4. /\ ent'[r].attempted /\ ent'[r].owned = ent[r].owned
          /\ ent'[r].started = ent[r].started /\ ent'[r].lost = ent[r].lost
          /\ ent'[r].contained = ent[r].contained /\ ent'[r].killErr = ent[r].killErr
          /\ ent'[r].done = ent[r].done
      BY <1>0, <3>3 DEF Entry
    <3> QED BY <1>0, <2>2, <3>1, <3>3, <3>4 DEF View, StageOK, Safe, ProcOK
  <2> QED BY <2>1, <2>2
<1>2. CASE AttachProcessGroup(r)
  <2>1. View(r, "attached", run[r].tree, run[r].watch) /\ run[r].pc = "forked"
    BY <1>0, <1>2 DEF AttachProcessGroup, View, Run
  <2> DEFINE w == [ent[r] EXCEPT !.group = TRUE, !.contained = ~ent[r].lost]
  <2>2. ent' = [ent EXCEPT ![r] = w]
    BY <1>0, <1>2 DEF AttachProcessGroup
  <2>3. ent'[r] = w /\ \A d \in Runs \ {r} : ent'[d] = ent[d]
    BY <1>0, <1>s, <2>2, OneEntry
  <2>4. /\ ent'[r].attempted = ent[r].attempted /\ ent'[r].owned = ent[r].owned
        /\ ent'[r].started = ent[r].started /\ ent'[r].lost = ent[r].lost
        /\ ent'[r].killErr = ent[r].killErr /\ ent'[r].done = ent[r].done
        /\ ent'[r].requested = ent[r].requested
    BY <1>0, <2>3 DEF Entry
  <2>5. ent'[r].lost => ~ent'[r].contained
    BY <1>0, <2>3 DEF Entry
  <2> QED BY <1>0, <2>1, <2>3, <2>4, <2>5 DEF View, StageOK, Safe
<1>3. CASE MarkStarted(r)
  <2>1. View(r, "waiting", run[r].tree, run[r].watch) /\ run[r].pc = "attached"
    BY <1>0, <1>3 DEF MarkStarted, View, Run
  <2> DEFINE w == [ent[r] EXCEPT !.started = TRUE]
  <2>2. ent' = [ent EXCEPT ![r] = w]
    BY <1>0, <1>3 DEF MarkStarted
  <2>3. ent'[r] = w /\ \A d \in Runs \ {r} : ent'[d] = ent[d]
    BY <1>0, <1>s, <2>2, OneEntry
  <2>4. /\ ent'[r].attempted = ent[r].attempted /\ ent'[r].owned = ent[r].owned
        /\ ent'[r].started /\ ent'[r].lost = ent[r].lost
        /\ ent'[r].contained = ent[r].contained
        /\ ent'[r].killErr = ent[r].killErr /\ ent'[r].done = ent[r].done
        /\ ent'[r].requested = ent[r].requested
    BY <1>0, <2>3 DEF Entry
  <2> QED BY <1>0, <2>1, <2>3, <2>4 DEF View, StageOK, Safe
<1>4. CASE WatchdogWakes(r)
  <2>1. CASE /\ UNCHANGED ent
             /\ \/ \E watch \in {"leader", "kill", "term"} :
                      run' = [run EXCEPT ![r].watch = watch]
                \/ run[r].tree = {} /\ run' = [run EXCEPT ![r].watch = "returned"]
    <3>1. \/ \E watch \in {"leader", "kill", "term"} : View(r, run[r].pc, run[r].tree, watch)
          \/ run[r].tree = {} /\ View(r, run[r].pc, run[r].tree, "returned")
      BY <1>0, <2>1 DEF View, Run
    <3>2. run[r].watch = "armed"
      BY <1>4 DEF WatchdogWakes
    <3> QED BY <1>0, <2>1, <3>1, <3>2 DEF View, StageOK, Safe, ProcOK
  <2>2. CASE /\ run' = [run EXCEPT ![r].watch = "returned"]
             /\ ent' = [ent EXCEPT ![r].killErr = TRUE]
    <3>1. View(r, run[r].pc, run[r].tree, "returned") /\ run[r].watch = "armed"
      BY <1>0, <1>4, <2>2 DEF View, Run, WatchdogWakes
    <3> DEFINE w == [ent[r] EXCEPT !.killErr = TRUE]
    <3>2. ent' = [ent EXCEPT ![r] = w]
      BY <1>0, <2>2
    <3>3. ent'[r] = w /\ \A d \in Runs \ {r} : ent'[d] = ent[d]
      BY <1>0, <1>s, <3>2, OneEntry
    <3>4. /\ ent'[r].attempted = ent[r].attempted /\ ent'[r].owned = ent[r].owned
          /\ ent'[r].started = ent[r].started /\ ent'[r].lost = ent[r].lost
          /\ ent'[r].contained = ent[r].contained
          /\ ent'[r].killErr /\ ent'[r].done = ent[r].done
          /\ ent'[r].requested = ent[r].requested
      BY <1>0, <3>3 DEF Entry
    <3> QED BY <1>0, <3>1, <3>3, <3>4 DEF View, StageOK, Safe, ProcOK
  <2> QED BY <1>0, <1>4, <2>1, <2>2 DEF WatchdogWakes
<1>5. CASE KillLeader(r)
  <2> PICK denied \in BOOLEAN :
          /\ ent' = [ent EXCEPT ![r].contained = FALSE, ![r].lost = TRUE,
                                ![r].killErr = denied]
          /\ Killed(r, IF denied THEN {} ELSE {"leader"})
    BY <1>0, <1>5 DEF KillLeader
  <2>1. /\ \E tree \in SUBSET run[r].tree : View(r, run[r].pc, tree, "returned")
        /\ run[r].watch = "leader"
    <3>1. View(r, run[r].pc, run[r].tree \ (IF denied THEN {} ELSE {"leader"}), "returned")
      BY <1>0 DEF Killed, View, Run
    <3> QED BY <1>5, <3>1 DEF KillLeader
  <2> DEFINE w == [ent[r] EXCEPT !.contained = FALSE, !.lost = TRUE, !.killErr = denied]
  <2>2. ent' = [ent EXCEPT ![r] = w]
    BY <1>0
  <2>3. ent'[r] = w /\ \A d \in Runs \ {r} : ent'[d] = ent[d]
    BY <1>0, <1>s, <2>2, OneEntry
  <2>4. /\ ent'[r].attempted = ent[r].attempted /\ ent'[r].owned = ent[r].owned
        /\ ent'[r].started = ent[r].started /\ ent'[r].lost /\ ~ent'[r].contained
        /\ ent'[r].done = ent[r].done /\ ent'[r].requested = ent[r].requested
    BY <1>0, <2>3 DEF Entry
  <2> QED BY <1>0, <2>1, <2>3, <2>4 DEF View, StageOK, Safe, ProcOK
<1>6. CASE KillGroup(r)
  <2> PICK denied \in BOOLEAN :
          /\ ent' = [ent EXCEPT ![r].killErr = denied]
          /\ Killed(r, IF denied THEN {} ELSE {"leader", "child"})
    BY <1>0, <1>6 DEF KillGroup
  <2>1. /\ \E tree \in SUBSET run[r].tree : /\ View(r, run[r].pc, tree, "returned")
                                            /\ denied \/ tree = {}
        /\ run[r].watch \in {"term", "kill"}
    <3> DEFINE tree == run[r].tree \ (IF denied THEN {} ELSE {"leader", "child"})
    <3>1. View(r, run[r].pc, tree, "returned")
      BY <1>0 DEF Killed, View, Run
    <3>2. tree \in SUBSET run[r].tree /\ (denied \/ tree = {})
      BY <1>0 DEF Run
    <3> HIDE DEF tree
    <3> QED BY <1>6, <3>1, <3>2 DEF KillGroup
  <2> DEFINE w == [ent[r] EXCEPT !.killErr = denied]
  <2>2. ent' = [ent EXCEPT ![r] = w]
    BY <1>0
  <2>3. ent'[r] = w /\ \A d \in Runs \ {r} : ent'[d] = ent[d]
    BY <1>0, <1>s, <2>2, OneEntry
  <2>4. /\ ent'[r].attempted = ent[r].attempted /\ ent'[r].owned = ent[r].owned
        /\ ent'[r].started = ent[r].started /\ ent'[r].lost = ent[r].lost
        /\ ent'[r].contained = ent[r].contained /\ ent'[r].killErr = denied
        /\ ent'[r].done = ent[r].done /\ ent'[r].requested = ent[r].requested
    BY <1>0, <2>3 DEF Entry
  <2> QED BY <1>0, <2>1, <2>3, <2>4 DEF View, StageOK, Safe, ProcOK
<1> QED BY <1>1, <1>2, <1>3, <1>4, <1>5, <1>6

-----------------------------------------------------------------------------
(* Steps that write the map.                                               *)

\* The answer to a duplicate is about no reservation.
LEMMA DuplicateStops ==
    ASSUME ExecInv, StopsInv, NEW r \in Runs, ReserveDuplicate(r) PROVE StopsInv'
<1>0. /\ run \in [Runs -> Run] /\ run[r] \in Run /\ r # None /\ HeldOK(r) /\ StageOK(r)
  BY Known
<1>1. View(r, "done", run[r].tree, run[r].watch) /\ run[r].pc = "idle"
  BY <1>0 DEF ReserveDuplicate, View, Run
<1>2. UNCHANGED <<running, ent, stop>>
  BY DEF ReserveDuplicate
<1>3. StageOK(r)' /\ (Safe(r) => Safe(r)')
  BY <1>0, <1>1, <1>2 DEF HeldOK, View, StageOK, Safe
<1> QED BY <1>1, <1>2, <1>3, OwnStep DEF View

\* A step of r that may give it an entry and moves one id in the map.
LEMMA MapStep ==
    ASSUME ExecInv, StopsInv, NEW r \in Runs, UNCHANGED stop,
           \A s \in Runs \ {r} : run'[s] = run[s] /\ ent'[s] = ent[s],
           run[r].entry = None \/ run'[r].entry = run[r].entry,
           ent[r].owned => ent'[r].owned,
           OwnOK(r)', StageOK(r)', run[r].entry # None => (Safe(r) => Safe(r)'),
           \A i \in Ids : running'[i] \in Runs =>
              \/ running'[i] = running[i]
              \/ running'[i] = r /\ ent'[r].owned /\ run'[r].entry = r
    PROVE  StopsInv'
<1>0. r # None
  BY CallSets DEF Entries
<1>1. ASSUME NEW s \in Runs
      PROVE  /\ run[s].entry = s => run'[s].entry = s /\ (Safe(s) => Safe(s)')
             /\ ent[s].owned => ent'[s].owned
             /\ OwnOK(s)' /\ StageOK(s)'
  <2>0. OwnOK(s) /\ StageOK(s)
    BY DEF StopsInv
  <2>1. CASE s = r
    BY <1>0, <2>0, <2>1
  <2>2. CASE s # r
    <3>1. run'[s] = run[s] /\ ent'[s] = ent[s]
      BY <2>2
    <3> QED BY <2>0, <3>1 DEF OwnOK, StageOK, Safe
  <2> QED BY <2>1, <2>2
<1>2. ASSUME NEW i \in Ids PROVE KeyOK(i)'
  BY <1>1 DEF StopsInv, KeyOK
<1>3. ASSUME NEW c \in Cancels PROVE HoldOK(c)' /\ TermOK(c)'
  <2>1. HoldOK(c) /\ TermOK(c) /\ stop'[c] = stop[c]
    BY DEF StopsInv
  <2>2. stop[c].entry \in Runs => (Safe(stop[c].entry) => Safe(stop[c].entry)')
    BY <1>1, <2>1 DEF Safe, HoldOK
  <2> QED BY <1>1, <2>1, <2>2 DEF HoldOK, TermOK
<1> QED BY <1>1, <1>2, <1>3 DEF StopsInv

\* A reservation is the Execute's own; what it adopts is a refusal record.
LEMMA ReserveStops ==
    ASSUME ExecInv, StopsInv, NEW r \in Runs, ReserveNew(r) \/ ReserveRefusal(r)
    PROVE  StopsInv'
<1>0. /\ run \in [Runs -> Run] /\ run[r] \in Run /\ ent \in [Entries -> Entry]
      /\ r \in Entries /\ ent[r] \in Entry /\ r # None /\ r \notin Cancels
      /\ HeldOK(r) /\ ProcOK(r) /\ StageOK(r)
  BY Known
<1>1. run[r].pc = "idle" /\ run[r].entry = None /\ UNCHANGED stop
  BY <1>0 DEF ReserveNew, ReserveRefusal, HeldOK
<1>2. Runs \subseteq Entries /\ IdOf[r] \in Ids /\ running \in [Ids -> Entries \cup {None}]
  BY CallSets DEF Entries, ExecInv, TypeOK
<1>3. CASE ReserveNew(r)
  <2>1. /\ run'[r].pc = "setup" /\ run'[r].entry = r
        /\ run'[r].tree = run[r].tree /\ run'[r].watch = run[r].watch
        /\ \A s \in Runs \ {r} : run'[s] = run[s]
    BY <1>0, <1>3 DEF ReserveNew, Run
  <2>2. ent' = [ent EXCEPT ![r] = [ent[r] EXCEPT !.owned = TRUE]]
    BY <1>0, <1>3 DEF ReserveNew
  <2>3. /\ ent'[r] = [ent[r] EXCEPT !.owned = TRUE]
        /\ \A d \in Runs \ {r} : ent'[d] = ent[d]
    BY <1>0, <1>2, <2>2, OneEntry
  <2>4. /\ ent'[r].owned /\ ent'[r].lost = ent[r].lost
        /\ ent'[r].contained = ent[r].contained /\ ent'[r].done = ent[r].done
    BY <1>0, <2>3 DEF Entry
  <2>5. OwnOK(r)' /\ StageOK(r)'
    BY <1>0, <1>1, <2>1, <2>4 DEF OwnOK, StageOK, ProcOK
  <2>6. \A i \in Ids : running'[i] \in {running[i], r}
    BY <1>2, <1>3 DEF ReserveNew
  <2> QED BY <1>1, <2>1, <2>3, <2>4, <2>5, <2>6, MapStep
<1>4. CASE ReserveRefusal(r)
  <2> DEFINE e == running[IdOf[r]]
  <2>1. e \in Cancels /\ e \in Entries
    BY <1>2, <1>4 DEF ReserveRefusal, StopsInv, KeyOK, Entries
  <2>2. /\ run'[r].pc \in {"setup", "refused"} /\ run'[r].entry = e
        /\ \A s \in Runs \ {r} : run'[s] = run[s]
    BY <1>0, <1>4 DEF ReserveRefusal, Run
  <2>3. ent' = [ent EXCEPT ![e] = [ent[e] EXCEPT !.owned = TRUE]] /\ UNCHANGED running
    BY <1>0, <1>4, <2>1 DEF ReserveRefusal
  <2>4. \A d \in Runs : ent'[d] = ent[d]
    <3>1. \A d \in Entries \ {e} : ent'[d] = ent[d]
      BY <2>1, <2>3, OneEntry
    <3> QED BY <1>2, <2>1, <3>1, CallSets
  <2>5. OwnOK(r)' /\ StageOK(r)'
    BY <1>0, <1>1, <2>1, <2>2, <2>4, CallSets DEF OwnOK, StageOK
  <2> QED BY <1>1, <2>2, <2>3, <2>4, <2>5, MapStep
<1> QED BY <1>3, <1>4

\* The release closes the entry when the Execute is over.
LEMMA ReleaseStops ==
    ASSUME ExecInv, StopsInv, NEW r \in Runs, Release(r) PROVE StopsInv'
<1> DEFINE e == run[r].entry
<1>0. /\ run \in [Runs -> Run] /\ run[r] \in Run /\ ent \in [Entries -> Entry]
      /\ r \in Entries /\ ent[r] \in Entry /\ r # None /\ r \notin Cancels
      /\ OwnOK(r) /\ StageOK(r) /\ e \in Entries
  BY Known DEF Release, Active
<1>1. Runs \subseteq Entries /\ IdOf[r] \in Ids /\ running \in [Ids -> Entries \cup {None}]
  BY CallSets DEF Entries, ExecInv, TypeOK
<1>2. View(r, "done", run[r].tree, run[r].watch) /\ run[r].pc = "ending" /\ UNCHANGED stop
  BY <1>0 DEF Release, View, Run
<1>3. \A i \in Ids : running'[i] \in {running[i], None}
  BY <1>0, <1>1 DEF Release
<1>4. ent' = [ent EXCEPT ![e] = [ent[e] EXCEPT !.done = TRUE]]
  BY <1>0 DEF Release
<1>5. ent'[e] = [ent[e] EXCEPT !.done = TRUE] /\ \A d \in Entries \ {e} : ent'[d] = ent[d]
  BY <1>0, <1>4, OneEntry
<1>6. \A s \in Runs \ {r} : ent'[s] = ent[s]
  BY <1>0, <1>1, <1>5 DEF OwnOK
<1>7. /\ ent'[r].attempted = ent[r].attempted /\ ent'[r].owned = ent[r].owned
      /\ ent'[r].started = ent[r].started /\ ent'[r].lost = ent[r].lost
      /\ ent'[r].contained = ent[r].contained /\ ent'[r].killErr = ent[r].killErr
      /\ ent'[r].requested = ent[r].requested
  <2>1. ent'[r] = ent[r] \/ ent'[r] = [ent[r] EXCEPT !.done = TRUE]
    BY <1>0, <1>5
  <2> QED BY <1>0, <2>1 DEF Entry
<1>8. OwnOK(r)' /\ StageOK(r)' /\ (Safe(r) => Safe(r)')
  BY <1>0, <1>2, <1>7 DEF View, OwnOK, StageOK, Safe
<1>9. None \notin Runs
  BY CallSets DEF Entries
<1> QED BY <1>2, <1>3, <1>6, <1>7, <1>8, <1>9, MapStep DEF View

-----------------------------------------------------------------------------
(* Steps of a Cancel.                                                      *)

\* They leave the Executes where they are, may add a request to an entry, and
\* put no reservation into the map.
LEMMA AskStep ==
    ASSUME ExecInv, StopsInv, NEW c \in Cancels,
           \A r \in Runs :
              /\ run'[r].pc = run[r].pc /\ run'[r].tree = run[r].tree
              /\ run'[r].watch = run[r].watch /\ run'[r].entry = run[r].entry
              /\ ent'[r].attempted = ent[r].attempted /\ ent'[r].owned = ent[r].owned
              /\ ent'[r].started = ent[r].started /\ ent'[r].lost = ent[r].lost
              /\ ent'[r].contained = ent[r].contained
              /\ ent'[r].killErr = ent[r].killErr /\ ent'[r].done = ent[r].done
              /\ ent[r].requested => ent'[r].requested,
           \A i \in Ids : running'[i] \in Runs => running'[i] = running[i],
           \A d \in Cancels \ {c} : stop'[d] = stop[d],
           HoldOK(c)', TermOK(c)'
    PROVE  StopsInv'
<1>1. ASSUME NEW s \in Runs PROVE OwnOK(s)' /\ StageOK(s)' /\ (Safe(s) => Safe(s)')
  <2>0. OwnOK(s) /\ StageOK(s)
    BY DEF StopsInv
  <2> QED BY <2>0 DEF OwnOK, StageOK, Safe
<1>2. ASSUME NEW i \in Ids PROVE KeyOK(i)'
  BY DEF StopsInv, KeyOK
<1>3. ASSUME NEW d \in Cancels, d # c PROVE HoldOK(d)' /\ TermOK(d)'
  <2>1. HoldOK(d) /\ TermOK(d) /\ stop'[d] = stop[d]
    BY <1>3 DEF StopsInv
  <2>2. stop[d].entry \in Runs => (Safe(stop[d].entry) => Safe(stop[d].entry)')
    BY <1>1, <2>1 DEF Safe
  <2> QED BY <2>1, <2>2 DEF HoldOK, TermOK
<1> QED BY <1>1, <1>2, <1>3 DEF StopsInv

\* The look-up, the answers of the wait, and the cancelled context.
LEMMA AnswerStops ==
    ASSUME ExecInv, StopsInv, NEW c \in Cancels,
           Lookup(c) \/ CancelContext(c) \/ SeeDone(c) \/ GiveUp(c)
    PROVE  StopsInv'
<1>0. /\ stop \in [Cancels -> Stop] /\ stop[c] \in Stop /\ IdOf[c] \in Ids
      /\ HoldOK(c) /\ TermOK(c) /\ StopOK(c) /\ None \notin Runs
  BY CallSets DEF ExecInv, TypeOK, Entries, StopsInv
<1>u. UNCHANGED <<running, ent>>
  BY DEF Lookup, CancelContext, SeeDone, GiveUp
<1>1. ASSUME NEW r \in Runs
      PROVE  /\ run'[r].pc = run[r].pc /\ run'[r].tree = run[r].tree
             /\ run'[r].watch = run[r].watch /\ run'[r].entry = run[r].entry
  <2>1. run[r] \in Run
    BY Known
  <2>2. run'[r] = run[r] \/ run'[r] = [run[r] EXCEPT !.ctx = "cancelled"]
    BY DEF Lookup, CancelContext, SeeDone, GiveUp
  <2> QED BY <2>1, <2>2 DEF Run
<1>2. \A d \in Cancels \ {c} : stop'[d] = stop[d]
  BY <1>0 DEF Lookup, CancelContext, SeeDone, GiveUp, Answer
<1> SUFFICES HoldOK(c)' /\ TermOK(c)'
  BY <1>u, <1>1, <1>2, AskStep
<1>3. CASE Lookup(c)
  <2>1. /\ stop'[c].entry = running[IdOf[c]] /\ stop'[c].outcome = "none"
    BY <1>0, <1>3 DEF Lookup, HoldOK, Stop
  <2>2. KeyOK(IdOf[c])
    BY <1>0 DEF StopsInv
  <2> QED BY <1>1, <2>1, <2>2 DEF KeyOK, HoldOK, TermOK
<1>4. CASE CancelContext(c)
  <2>1. stop'[c].entry = stop[c].entry /\ stop'[c].outcome = "none"
    BY <1>0, <1>4 DEF CancelContext, HoldOK, Stop
  <2> QED BY <1>0, <1>1, <2>1 DEF HoldOK, TermOK
<1>5. CASE GiveUp(c)
  <2>1. /\ stop'[c].entry = stop[c].entry /\ stop'[c].outcome = "kill_failed"
        /\ stop'[c].pc = "answered"
    BY <1>0, <1>5 DEF GiveUp, Answer, Stop
  <2> QED BY <1>0, <1>1, <2>1 DEF HoldOK, TermOK
<1>6. CASE SeeDone(c)
  <2> DEFINE e == stop[c].entry
  <2>1. /\ stop'[c].entry = e /\ stop'[c].pc = "answered" /\ ent[e].done
        /\ stop'[c].outcome = GradeCancelOutcome(e)
    BY <1>0, <1>6 DEF SeeDone, Answer, Stop
  <2>2. ASSUME e \in Runs, GradeCancelOutcome(e) = "terminated" PROVE Safe(e)
    <3>1. StageOK(e) /\ run[e].entry = e
      BY <1>0, <2>2 DEF StopsInv, HoldOK
    <3>2. run[e].pc = "done"
      BY <2>1, <3>1 DEF StageOK
    <3>3. ~ent[e].started \/ (~ent[e].killErr /\ ent[e].contained)
      BY <2>2 DEF GradeCancelOutcome
    <3>4. run[e].watch = "returned" => run[e].tree = {}
      BY <3>1, <3>2, <3>3 DEF StageOK
    <3> QED BY <3>2, <3>4 DEF Safe
  <2>3. e \in Runs /\ Safe(e) => Safe(e)'
    BY <1>u, <1>1, <2>1 DEF Safe
  <2>4. HoldOK(c)'
    BY <1>0, <1>1, <2>1 DEF HoldOK
  <2>5. TermOK(c)'
    <3>1. SUFFICES ASSUME stop'[c].outcome = "terminated", stop'[c].entry \in Runs
                   PROVE  Safe(e)'
      BY <2>1 DEF TermOK
    <3> QED BY <2>1, <2>2, <2>3, <3>1
  <2> QED BY <2>4, <2>5
<1> QED BY <1>3, <1>4, <1>5, <1>6

\* The steps that make a request: one that meets a reservation before its
\* attempt is answered at once, for Execute looks before it starts.
LEMMA RequestStops ==
    ASSUME ExecInv, StopsInv, NEW c \in Cancels,
           MarkCancelRequested(c) \/ RecordCancelRefusal(c)
    PROVE  StopsInv'
<1>0. /\ stop \in [Cancels -> Stop] /\ stop[c] \in Stop /\ IdOf[c] \in Ids
      /\ HoldOK(c) /\ StopOK(c) /\ None \notin Runs /\ c \in Entries /\ c \notin Runs
      /\ ent \in [Entries -> Entry] /\ running \in [Ids -> Entries \cup {None}]
      /\ Runs \subseteq Entries
  BY CallSets DEF ExecInv, TypeOK, Entries, StopsInv
<1>1. PICK e \in Entries :
         /\ \/ MarkCancelRequested(c) /\ e = stop[c].entry
            \/ RecordCancelRefusal(c) /\ e = c
         /\ \/ ent' = [ent EXCEPT ![e] = [ent[e] EXCEPT !.requested = TRUE, !.by = c,
                                                       !.grace = c \in Graced]]
            \/ UNCHANGED ent /\ e = c
  <2>1. CASE MarkCancelRequested(c)
    <3>1. stop[c].entry \in Entries
      BY <1>0, <2>1 DEF MarkCancelRequested, StopOK, Stop
    <3> QED BY <1>0, <2>1, <3>1 DEF MarkCancelRequested
  <2>2. CASE RecordCancelRefusal(c)
    BY <1>0, <2>2 DEF RecordCancelRefusal
  <2> QED BY <2>1, <2>2
<1>2. UNCHANGED run /\ \A i \in Ids : running'[i] \in {running[i], c}
  BY <1>0 DEF MarkCancelRequested, RecordCancelRefusal
<1>3. ASSUME NEW r \in Runs
      PROVE  /\ ent'[r].attempted = ent[r].attempted /\ ent'[r].owned = ent[r].owned
             /\ ent'[r].started = ent[r].started /\ ent'[r].lost = ent[r].lost
             /\ ent'[r].contained = ent[r].contained
             /\ ent'[r].killErr = ent[r].killErr /\ ent'[r].done = ent[r].done
             /\ ent[r].requested => ent'[r].requested
             /\ r = e => ent'[r].requested
  <2>1. \/ ent'[r] = ent[r] /\ r # e
        \/ ent'[r] = [ent[r] EXCEPT !.requested = TRUE, !.by = c, !.grace = c \in Graced]
    BY <1>0, <1>1
  <2>2. ent[r] \in Entry
    BY <1>0
  <2> QED BY <2>1, <2>2 DEF Entry
<1>4. \A d \in Cancels \ {c} : stop'[d] = stop[d]
  BY <1>0 DEF MarkCancelRequested, RecordCancelRefusal, Answer
<1> SUFFICES HoldOK(c)' /\ TermOK(c)'
  BY <1>0, <1>2, <1>3, <1>4, AskStep
<1>5. CASE MarkCancelRequested(c)
  <2>0. e = stop[c].entry
    <3>1. stop[c].pc = "found"
      BY <1>5 DEF MarkCancelRequested
    <3>2. ~RecordCancelRefusal(c)
      BY <3>1 DEF RecordCancelRefusal
    <3> QED BY <1>1, <3>2
  <2>1. /\ stop'[c].entry = e
        /\ stop'[c].pc # "answered" => stop'[c].outcome = "none"
        /\ stop'[c].outcome = "terminated" => ~ent[e].attempted
    BY <1>0, <1>5, <2>0 DEF MarkCancelRequested, Answer, Stop, HoldOK
  <2>2. HoldOK(c)'
    BY <1>0, <1>2, <2>0, <2>1 DEF HoldOK
  <2>3. TermOK(c)'
    <3>1. SUFFICES ASSUME stop'[c].outcome = "terminated", e \in Runs
                   PROVE  Safe(stop[c].entry)'
      BY <2>1 DEF TermOK
    <3>2. ent'[e].requested /\ ~ent'[e].attempted
      BY <1>3, <2>1, <3>1
    <3> QED BY <2>1, <3>2 DEF Safe
  <2> QED BY <2>2, <2>3
<1>6. CASE RecordCancelRefusal(c)
  <2>1. /\ stop'[c].entry = stop[c].entry /\ stop'[c].outcome = "not_found"
        /\ stop'[c].pc = "answered"
    BY <1>0, <1>6 DEF RecordCancelRefusal, Answer, Stop
  <2> QED BY <1>0, <1>2, <2>1 DEF HoldOK, TermOK
<1> QED BY <1>5, <1>6

\* The timer closes a record that no Execute waits for.
LEMMA ExpireStops ==
    ASSUME ExecInv, StopsInv, NEW c \in Cancels, ExpireRefusal(c) PROVE StopsInv'
<1>0. /\ c \in Entries /\ c \notin Runs /\ None \notin Runs /\ Runs \subseteq Entries
      /\ ent \in [Entries -> Entry] /\ running \in [Ids -> Entries \cup {None}]
      /\ HoldOK(c) /\ TermOK(c)
  BY CallSets DEF ExecInv, TypeOK, Entries, StopsInv
<1>1. /\ UNCHANGED <<run, stop>> /\ \A r \in Runs : ent'[r] = ent[r]
      /\ \A i \in Ids : running'[i] \in {running[i], None}
  BY <1>0 DEF ExpireRefusal
<1>2. HoldOK(c)' /\ TermOK(c)'
  BY <1>0, <1>1 DEF HoldOK, TermOK, Safe
<1> QED BY <1>0, <1>1, <1>2, AskStep

-----------------------------------------------------------------------------
(* The theorems.                                                           *)

\* Every step keeps the invariant.
LEMMA NextStops == ExecInv /\ StopsInv /\ [Next]_vars => StopsInv'
<1> SUFFICES ASSUME ExecInv, StopsInv, [Next]_vars PROVE StopsInv'
  OBVIOUS
<1>1. ASSUME NEW r \in Runs, Execute(r) \/ Watchdog(r) \/ System(r)
      PROVE  StopsInv'
  BY <1>1, ReserveStops, DuplicateStops, QuietStops, EntryStops, ReleaseStops
     DEF Execute, Watchdog
<1>2. ASSUME NEW c \in Cancels, Cancel(c) \/ ExpireRefusal(c) PROVE StopsInv'
  BY <1>2, AnswerStops, RequestStops, ExpireStops DEF Cancel
<1>3. CASE UNCHANGED vars
  BY <1>3 DEF vars, StopsInv, OwnOK, StageOK, KeyOK, HoldOK, TermOK, Safe
<1> QED BY <1>1, <1>2, <1>3 DEF Next

\* The invariant holds throughout.
LEMMA StopsInvariant == Spec => []StopsInv
BY InitStops, NextStops, ExecInvariant, PTL DEF Spec

\* What holds of the Execute that has the entry of a `terminated` answer.
LEMMA OwnerStopped ==
    ASSUME ExecInv, StopsInv, NEW c \in Cancels, stop[c].outcome = "terminated",
           NEW r \in Owner(stop[c].entry)
    PROVE  /\ "leader" \notin run[r].tree
           /\ run[r].watch = "returned" => run[r].tree = {}
<1>0. /\ r \in Runs /\ run[r].entry = stop[c].entry
      /\ run[r].entry \in Runs \cup Cancels \cup {None} /\ None \notin Runs \cup Cancels
      /\ run[r].pc \in {"idle", "done"} \/ Active(r)
      /\ HeldOK(r) /\ ProcOK(r) /\ RefusedOK(r) /\ OwnOK(r) /\ StageOK(r) /\ TermOK(c)
  BY CallSets DEF Owner, ExecInv, TypeOK, Run, Entries, RunOK, StopsInv, Active
<1>1. CASE run[r].entry = None
  BY <1>0, <1>1 DEF HeldOK, ProcOK
<1>2. CASE run[r].entry \in Cancels
  BY <1>0, <1>2 DEF RefusedOK
<1>3. CASE run[r].entry \in Runs
  <2>1. run[r].entry = r /\ Safe(r)
    BY <1>0, <1>3 DEF OwnOK, TermOK
  <2> QED BY <1>0, <2>1 DEF Safe, StageOK, ProcOK
<1> QED BY <1>0, <1>1, <1>2, <1>3

\* Once a cancel has answered `terminated`, the leader of the script is not
\* running and never will be, for any number of executes, cancels, redelivered
\* commands and refusal records, wherever the cancel met the Execute.
THEOREM TerminatedMeansStopped == Spec => []StoppedForGood
<1>1. ExecInv /\ StopsInv => StoppedForGood
  BY OwnerStopped DEF StoppedForGood
<1> QED BY <1>1, ExecInvariant, StopsInvariant, PTL

\* A cancel answers `terminated` after a kill only if the kill has left no
\* process of the group: a kill before the group was captured, and a kill the
\* system denied, are both remembered until the answer is graded.
THEOREM TerminatedMeansGroupKilled == Spec => []KilledWholeGroup
<1>1. ExecInv /\ StopsInv => KilledWholeGroup
  BY OwnerStopped DEF KilledWholeGroup
<1> QED BY <1>1, ExecInvariant, StopsInvariant, PTL
=============================================================================
