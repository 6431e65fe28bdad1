------------------------ MODULE ScriptExecutorProofs ------------------------
(***************************************************************************)
(* The executor for any number of executes, cancels and ids: it is well    *)
(* typed, an id has at most one process, a refusal record is obeyed, and a *)
(* kill carries the cancel command that asked for it.                      *)
(***************************************************************************)
EXTENDS ScriptExecutor, TLAPS

-----------------------------------------------------------------------------
(* The inductive invariant, one part per kind of object.                   *)

Active(r) == run[r].pc \notin {"idle", "done"}

\* The map holds an entry under its own id, and of a cancel's entries only
\* those that ask for a refusal.
MapOK(i) ==
    running[i] # None =>
        /\ IdOf[running[i]] = i
        /\ running[i] \in Cancels => ent[running[i]].requested

\* A request and its marker are written together, by a cancel of the id.
EntOK(e) ==
    /\ ent[e].requested <=> ent[e].by # None
    /\ ent[e].by # None => IdOf[ent[e].by] = IdOf[e]

\* A cancel that holds an entry holds one of its id, marked once it is past
\* the marking.
StopOK(c) ==
    /\ stop[c].pc \in {"found", "marked", "waiting"} => stop[c].entry # None
    /\ stop[c].entry # None => IdOf[stop[c].entry] = IdOf[c]
    /\ stop[c].pc \in {"marked", "waiting"} => ent[stop[c].entry].requested

\* An Execute between its reservation and its release is the owner of what
\* the map holds under its id.
HeldOK(r) ==
    /\ run[r].pc = "idle" => run[r].entry = None
    /\ run[r].entry # None => IdOf[run[r].entry] = IdOf[r]
    /\ Active(r) => /\ run[r].entry # None
                    /\ running[IdOf[r]] = run[r].entry
                    /\ ent[run[r].entry].owned

\* The process and its watchdog: nothing is signalled before the context is
\* done, and after Wait no one is left to signal the leader.
ProcOK(r) ==
    /\ run[r].pc \in {"idle", "setup", "refused"} => run[r].ctx = "none"
    /\ run[r].pc \in {"idle", "setup", "refused", "starting"} =>
          run[r].tree = {} /\ run[r].watch = "off"
    /\ run[r].pc \in {"pipes", "read", "ending", "done"} =>
          "leader" \notin run[r].tree /\ run[r].watch \in {"off", "returned"}
    /\ \/ run[r].watch \in {"leader", "term", "kill", "returned"}
       \/ run[r].signalled
       => run[r].ctx \in {"cancelled", "deadline"}
    /\ run[r].ctx # "none" => run[r].entry # None
    /\ run[r].ctx = "cancelled" => ent[run[r].entry].requested

\* An Execute that adopted a refusal record.
RefusedOK(r) ==
    run[r].entry \in Cancels =>
        /\ run[r].pc \in {"refused", "ending", "done"}
        /\ run[r].tree = {} /\ run[r].ctx = "none" /\ run[r].watch = "off"
        /\ ent[run[r].entry].requested
        /\ run[r].pc \in {"ending", "done"} => run[r].result.by # None

\* The result of an Execute.
ResultOK(r) ==
    /\ run[r].result.kind # "none" => run[r].pc \in {"ending", "done"}
    /\ run[r].pc \in {"ending", "done"} =>
          (run[r].signalled /\ run[r].ctx # "deadline"
              => run[r].result.by # None)
    /\ run[r].result.by # None =>
          /\ run[r].entry # None /\ IdOf[run[r].result.by] = IdOf[r]
          /\ ent[run[r].entry].requested

RunOK(r) == HeldOK(r) /\ ProcOK(r) /\ RefusedOK(r) /\ ResultOK(r)

ExecInv ==
    /\ TypeOK /\ OneProcessPerId
    /\ \A i \in Ids : MapOK(i)
    /\ \A e \in Entries : EntOK(e)
    /\ \A c \in Cancels : StopOK(c)
    /\ \A r \in Runs : RunOK(r)

-----------------------------------------------------------------------------
(* Steps that leave most objects alone.                                    *)

\* Nothing has begun.
LEMMA InitExec == Init => ExecInv
<1> SUFFICES ASSUME Init PROVE ExecInv
  OBVIOUS
<1>1. TypeOK
  BY CallSets DEF Init, TypeOK, Entries, NewEntry, Entry, NewRun, Run, Stop,
                  Outcomes
<1>2. OneProcessPerId
  BY DEF Init, OneProcessPerId, NewRun
<1>3. \A i \in Ids : MapOK(i)
  BY DEF Init, MapOK
<1>4. \A e \in Entries : EntOK(e)
  BY DEF Init, EntOK, NewEntry
<1>5. \A c \in Cancels : StopOK(c)
  BY DEF Init, StopOK
<1>6. \A r \in Runs : RunOK(r)
  BY CallSets DEF Init, RunOK, HeldOK, ProcOK, RefusedOK, ResultOK, Active, NewRun,
                  Entries
<1> QED BY <1>1, <1>2, <1>3, <1>4, <1>5, <1>6 DEF ExecInv

\* The entries keep their owner, their request and their marker.
SameMarks ==
    \A e \in Entries : /\ ent'[e].owned = ent[e].owned
                       /\ ent'[e].requested = ent[e].requested
                       /\ ent'[e].by = ent[e].by

\* A step of one Execute, its watchdog or its processes only has to keep the
\* types and the invariant of that Execute.
LEMMA RunStep ==
    ASSUME ExecInv, TypeOK', NEW r \in Runs,
           UNCHANGED <<running, stop>>, SameMarks,
           \A s \in Runs \ {r} : run'[s] = run[s],
           RunOK(r)', Active(r)' => Active(r)
    PROVE  ExecInv'
<1>1. OneProcessPerId'
  BY DEF ExecInv, OneProcessPerId, Active
<1>2. ASSUME NEW i \in Ids PROVE MapOK(i)'
  BY DEF ExecInv, MapOK, SameMarks, TypeOK
<1>3. ASSUME NEW e \in Entries PROVE EntOK(e)'
  BY DEF ExecInv, EntOK, SameMarks
<1>4. ASSUME NEW c \in Cancels PROVE StopOK(c)'
  BY DEF ExecInv, StopOK, SameMarks, TypeOK, Stop
<1>5. ASSUME NEW s \in Runs PROVE RunOK(s)'
  <2>1. CASE s = r
    BY <2>1
  <2>2. CASE s # r
    <3>1. run'[s] = run[s] /\ RunOK(s) /\ run[s].entry \in Entries \cup {None}
      BY <2>2 DEF ExecInv, TypeOK, Run
    <3>2. run[s].entry # None =>
             /\ ent'[run[s].entry].owned = ent[run[s].entry].owned
             /\ ent'[run[s].entry].requested = ent[run[s].entry].requested
      BY <3>1 DEF SameMarks
    <3>3. run[s].entry \in Cancels => run[s].entry # None
      BY CallSets DEF Entries
    <3> QED BY <3>1, <3>2, <3>3 DEF RunOK, HeldOK, ProcOK, RefusedOK, ResultOK, Active
  <2> QED BY <2>1, <2>2
<1> QED BY <1>1, <1>2, <1>3, <1>4, <1>5 DEF ExecInv

\* So a step of one Cancel that writes nothing else.
LEMMA StopStep ==
    ASSUME ExecInv, TypeOK', NEW c \in Cancels, UNCHANGED <<running, ent, run>>,
           \A d \in Cancels \ {c} : stop'[d] = stop[d], StopOK(c)'
    PROVE  ExecInv'
<1>1. OneProcessPerId'
  BY DEF ExecInv, OneProcessPerId
<1>2. ASSUME NEW i \in Ids PROVE MapOK(i)'
  BY DEF ExecInv, MapOK
<1>3. ASSUME NEW e \in Entries PROVE EntOK(e)'
  BY DEF ExecInv, EntOK
<1>4. ASSUME NEW d \in Cancels PROVE StopOK(d)'
  BY DEF ExecInv, StopOK
<1>5. ASSUME NEW r \in Runs PROVE RunOK(r)'
  BY DEF ExecInv, RunOK, HeldOK, ProcOK, RefusedOK, ResultOK, Active
<1> QED BY <1>1, <1>2, <1>3, <1>4, <1>5 DEF ExecInv

-----------------------------------------------------------------------------
(* The steps of an Execute that keep the map.                              *)

\* A step that replaces one run's record by a well-typed one.
LEMMA RunTyped ==
    ASSUME TypeOK, NEW r \in Runs, NEW v \in Run, run' = [run EXCEPT ![r] = v],
           UNCHANGED <<running, ent, stop>>
    PROVE  TypeOK' /\ SameMarks /\ \A s \in Runs \ {r} : run'[s] = run[s]
BY DEF TypeOK, SameMarks

\* What Finish and a duplicate's answer do to a run is well typed.
LEMMA ResultTyped ==
    ASSUME TypeOK, NEW r \in Runs, NEW pc \in {"ending", "done"},
           NEW kind \in {"none", "duplicate", "failed", "refused", "timeout",
                         "cancelled", "exited"},
           NEW by \in Cancels \cup {None},
           run' = [run EXCEPT ![r].pc = pc,
                              ![r].result = [kind |-> kind, by |-> by]],
           UNCHANGED <<running, ent, stop>>
    PROVE  TypeOK' /\ SameMarks /\ \A s \in Runs \ {r} : run'[s] = run[s]
<1> DEFINE v == [run[r] EXCEPT !.pc = pc,
                               !.result = [kind |-> kind, by |-> by]]
<1>1. run[r] \in Run
  BY DEF TypeOK
<1>2. v \in Run
  BY <1>1 DEF Run
<1>3. run' = [run EXCEPT ![r] = v]
  BY DEF TypeOK
<1> QED BY <1>2, <1>3, RunTyped

\* A duplicate answers at once and holds nothing.
LEMMA DuplicateKeeps ==
    ASSUME ExecInv, NEW r \in Runs, ReserveDuplicate(r) PROVE ExecInv'
<1>1. TypeOK' /\ SameMarks /\ \A s \in Runs \ {r} : run'[s] = run[s]
  BY ResultTyped DEF ReserveDuplicate, ExecInv
<1>2. RunOK(r)' /\ ~Active(r)'
  BY CallSets DEF ReserveDuplicate, ExecInv, TypeOK, RunOK, HeldOK, ProcOK,
     RefusedOK, ResultOK, Active, Entries, Run
<1> QED BY <1>1, <1>2, RunStep DEF ReserveDuplicate

\* A setup that fails.
LEMMA SetupFailsKeeps ==
    ASSUME ExecInv, NEW r \in Runs, SetupFails(r) PROVE ExecInv'
<1>1. TypeOK' /\ SameMarks /\ \A s \in Runs \ {r} : run'[s] = run[s]
  BY ResultTyped DEF SetupFails, Finish, ExecInv
<1>2. RunOK(r)' /\ Active(r)
  BY CallSets DEF SetupFails, Finish, ExecInv, TypeOK, RunOK, HeldOK, ProcOK,
     RefusedOK, ResultOK, Active, Entries, Run
<1> QED BY <1>1, <1>2, RunStep DEF SetupFails

\* The marker of a refused start is there: who refused has written it.
LEMMA FinishRefusedKeeps ==
    ASSUME ExecInv, NEW r \in Runs, FinishRefused(r) PROVE ExecInv'
<1>1. run[r].entry \in Entries /\ EntOK(run[r].entry)
  BY DEF FinishRefused, ExecInv, TypeOK, Run, RunOK, HeldOK, Active
<1>2. TypeOK' /\ SameMarks /\ \A s \in Runs \ {r} : run'[s] = run[s]
  <2>1. TypeOK /\ ent[run[r].entry].by \in Cancels \cup {None}
    BY <1>1 DEF ExecInv, TypeOK, Entry
  <2> QED BY <2>1, ResultTyped DEF FinishRefused, Finish
<1>3. RunOK(r)' /\ Active(r)
  BY <1>1 DEF FinishRefused, Finish, ExecInv, TypeOK, RunOK, HeldOK, ProcOK,
     RefusedOK, ResultOK, Active, Run, EntOK
<1> QED BY <1>2, <1>3, RunStep DEF FinishRefused

\* The result of a process: a signal means a done context, and a context that
\* is done but for its time limit means a request.
LEMMA ProcessResultKeeps ==
    ASSUME ExecInv, NEW r \in Runs, ProcessResult(r) PROVE ExecInv'
<1>1. run[r].entry \in Entries /\ EntOK(run[r].entry)
  BY DEF ProcessResult, ExecInv, TypeOK, Run, RunOK, HeldOK, Active
<1>2. TypeOK' /\ SameMarks /\ \A s \in Runs \ {r} : run'[s] = run[s]
  <2>1. TypeOK /\ ent[run[r].entry].by \in Cancels \cup {None}
    BY <1>1 DEF ExecInv, TypeOK, Entry
  <2>2. PICK kind \in {"exited", "timeout", "cancelled"}, by \in Cancels \cup {None} :
           Finish(r, kind, by)
    BY <2>1 DEF ProcessResult
  <2> QED BY <2>1, <2>2, ResultTyped DEF ProcessResult, Finish
<1>3. RunOK(r)' /\ Active(r)
  BY <1>1 DEF ProcessResult, Finish, ExecInv, TypeOK, RunOK, HeldOK, ProcOK,
     RefusedOK, ResultOK, Active, Run, EntOK
<1> QED BY <1>2, <1>3, RunStep DEF ProcessResult

\* The steps of Start and Wait, of the clock and of the script that write no
\* entry.
LEMMA ProcessKeeps ==
    ASSUME ExecInv, NEW r \in Runs,
           \/ StartFails(r) \/ StartProcess(r) \/ WaitLeader(r) \/ WaitPipes(r)
           \/ GroupGone(r) \/ System(r)
    PROVE  ExecInv'
<1> DEFINE Kept == /\ TypeOK' /\ SameMarks /\ UNCHANGED <<running, stop>>
                   /\ \A s \in Runs \ {r} : run'[s] = run[s]
                   /\ RunOK(r)' /\ (Active(r)' => Active(r))
<1> SUFFICES Kept
  BY RunStep
<1>0. run[r] \in Run /\ RunOK(r) /\ TypeOK
  BY DEF ExecInv, TypeOK
<1>1. CASE StartFails(r)
  <2>1. [run[r] EXCEPT !.pc = "read", !.err = TRUE] \in Run
    BY <1>0 DEF Run
  <2>2. run' = [run EXCEPT ![r] = [run[r] EXCEPT !.pc = "read", !.err = TRUE]]
    BY <1>0, <1>1 DEF StartFails, TypeOK
  <2>3. RunOK(r)' /\ Active(r)
    BY <1>0, <1>1, <2>2 DEF StartFails, TypeOK, RunOK, HeldOK, ProcOK, RefusedOK,
       ResultOK, Active, Run
  <2> QED BY <1>0, <1>1, <2>1, <2>2, <2>3, RunTyped DEF StartFails
<1>2. CASE StartProcess(r)
  <2>1. TypeOK' /\ SameMarks /\ \A s \in Runs \ {r} : run'[s] = run[s]
    BY <1>0, <1>2 DEF StartProcess, TypeOK, Run, SameMarks
  <2>3. RunOK(r)' /\ Active(r)
    BY <1>0, <1>2 DEF StartProcess, TypeOK, RunOK, HeldOK, ProcOK, RefusedOK,
       ResultOK, Active, Run
  <2> QED BY <1>2, <2>1, <2>3 DEF StartProcess
<1>3. CASE WaitLeader(r)
  <2>1. TypeOK' /\ SameMarks /\ \A s \in Runs \ {r} : run'[s] = run[s]
    BY <1>0, <1>3 DEF WaitLeader, TypeOK, Run, SameMarks
  <2>3. RunOK(r)' /\ Active(r)
    BY <1>0, <1>3 DEF WaitLeader, TypeOK, RunOK, HeldOK, ProcOK, RefusedOK,
       ResultOK, Active, Run
  <2> QED BY <1>3, <2>1, <2>3 DEF WaitLeader
<1>4. CASE WaitPipes(r)
  <2>0. PICK err \in BOOLEAN :
           run' = [run EXCEPT ![r].pc = "read", ![r].err = err]
    <3> PICK bad \in BOOLEAN :
          run' = [run EXCEPT ![r].pc = "read",
                             ![r].err = \/ @ \/ run[r].signalled
                                        \/ run[r].tree # {} \/ bad]
      BY <1>4 DEF WaitPipes
    <3> QED OBVIOUS
  <2>1. TypeOK' /\ SameMarks /\ \A s \in Runs \ {r} : run'[s] = run[s]
    BY <1>0, <1>4, <2>0 DEF WaitPipes, TypeOK, Run, SameMarks
  <2>2. run'[r] = [run[r] EXCEPT !.pc = "read", !.err = err]
    BY <1>0, <2>0 DEF TypeOK
  <2>3. RunOK(r)' /\ Active(r)
    BY <1>0, <1>4, <2>2 DEF WaitPipes, RunOK, HeldOK, ProcOK, RefusedOK,
       ResultOK, Active, Run
  <2> QED BY <1>4, <2>1, <2>3 DEF WaitPipes
<1>5. CASE GroupGone(r)
  <2>1. TypeOK' /\ SameMarks /\ \A s \in Runs \ {r} : run'[s] = run[s]
    BY <1>0, <1>5 DEF GroupGone, TypeOK, Run, SameMarks
  <2>3. RunOK(r)' /\ (Active(r)' => Active(r))
    BY <1>0, <1>5 DEF GroupGone, TypeOK, RunOK, HeldOK, ProcOK, RefusedOK,
       ResultOK, Active, Run
  <2> QED BY <1>5, <2>1, <2>3 DEF GroupGone
<1>6. CASE Deadline(r)
  <2>1. TypeOK' /\ SameMarks /\ \A s \in Runs \ {r} : run'[s] = run[s]
    BY <1>0, <1>6 DEF Deadline, TypeOK, Run, SameMarks
  <2>3. RunOK(r)' /\ (Active(r)' => Active(r))
    BY <1>0, <1>6 DEF Deadline, TypeOK, RunOK, HeldOK, ProcOK, RefusedOK,
       ResultOK, Active, Run
  <2> QED BY <1>6, <2>1, <2>3 DEF Deadline
<1>7. CASE WaitDelayKill(r)
  <2>1. TypeOK' /\ SameMarks /\ \A s \in Runs \ {r} : run'[s] = run[s]
    BY <1>0, <1>7 DEF WaitDelayKill, TypeOK, Run, SameMarks
  <2>3. RunOK(r)' /\ (Active(r)' => Active(r))
    BY <1>0, <1>7 DEF WaitDelayKill, TypeOK, RunOK, HeldOK, ProcOK, RefusedOK,
       ResultOK, Active, Run
  <2> QED BY <1>7, <2>1, <2>3 DEF WaitDelayKill
<1>8. CASE Spawn(r)
  <2>1. TypeOK' /\ SameMarks /\ \A s \in Runs \ {r} : run'[s] = run[s]
    BY <1>0, <1>8 DEF Spawn, TypeOK, Run, SameMarks
  <2>3. RunOK(r)' /\ (Active(r)' => Active(r))
    BY <1>0, <1>8 DEF Spawn, TypeOK, RunOK, HeldOK, ProcOK, RefusedOK,
       ResultOK, Active, Run
  <2> QED BY <1>8, <2>1, <2>3 DEF Spawn
<1>9. CASE Exits(r)
  <2>1. TypeOK' /\ SameMarks /\ \A s \in Runs \ {r} : run'[s] = run[s]
    <3> PICK p \in run[r].tree : run' = [run EXCEPT ![r].tree = @ \ {p}]
      BY <1>9 DEF Exits
    <3> DEFINE v == [run[r] EXCEPT !.tree = @ \ {p}]
    <3>1. v \in Run
      BY <1>0 DEF Run
    <3>2. run' = [run EXCEPT ![r] = v]
      BY <1>0 DEF TypeOK
    <3> HIDE DEF v
    <3> QED BY <1>0, <1>9, <3>1, <3>2, RunTyped DEF Exits
  <2>3. RunOK(r)' /\ (Active(r)' => Active(r))
    BY <1>0, <1>9 DEF Exits, TypeOK, RunOK, HeldOK, ProcOK, RefusedOK,
       ResultOK, Active, Run
  <2> QED BY <1>9, <2>1, <2>3 DEF Exits
<1> QED BY <1>1, <1>2, <1>3, <1>4, <1>5, <1>6, <1>7, <1>8, <1>9 DEF System

\* The steps that write an entry, but neither its owner nor its request.
LEMMA EntryKeeps ==
    ASSUME ExecInv, NEW r \in Runs,
           \/ BeginStart(r) \/ AttachProcessGroup(r) \/ MarkStarted(r)
           \/ WatchdogWakes(r) \/ KillLeader(r) \/ KillGroup(r)
    PROVE  ExecInv'
<1> DEFINE e == run[r].entry
           Kept == /\ TypeOK' /\ SameMarks /\ UNCHANGED <<running, stop>>
                   /\ \A s \in Runs \ {r} : run'[s] = run[s]
                   /\ RunOK(r)' /\ (Active(r)' => Active(r))
<1> SUFFICES Kept
  BY RunStep
<1>0. run[r] \in Run /\ RunOK(r) /\ TypeOK
  BY DEF ExecInv, TypeOK
<1>e. e \in Entries
  BY <1>0 DEF BeginStart, AttachProcessGroup, MarkStarted, WatchdogWakes,
     KillLeader, KillGroup, RunOK, HeldOK, ProcOK, Active, Run
<1>f. ent[e] \in Entry
  BY <1>0, <1>e DEF TypeOK
<1>1. CASE BeginStart(r)
  <2>1. TypeOK' /\ SameMarks /\ \A s \in Runs \ {r} : run'[s] = run[s]
    <3>1. CASE ent[e].requested
      BY <1>0, <1>1, <3>1 DEF BeginStart, TypeOK, Run, SameMarks
    <3>2. CASE ~ent[e].requested
      <4>1. /\ run' = [run EXCEPT ![r].pc = "starting", ![r].ctx = "live"]
            /\ ent' = [ent EXCEPT ![e].attempted = TRUE]
            /\ UNCHANGED <<running, stop>>
        BY <1>1, <3>2 DEF BeginStart
      <4>2. run' \in [Runs -> Run] /\ \A s \in Runs \ {r} : run'[s] = run[s]
        <5> DEFINE v == [run[r] EXCEPT !.pc = "starting", !.ctx = "live"]
        <5>1. v \in Run
          BY <1>0 DEF Run
        <5>2. run' = [run EXCEPT ![r] = v]
          BY <1>0, <4>1 DEF TypeOK
        <5> HIDE DEF v
        <5> QED BY <1>0, <5>1, <5>2 DEF TypeOK
      <4>3. ent' \in [Entries -> Entry] /\ SameMarks
        BY <1>0, <1>e, <1>f, <4>1 DEF TypeOK, Entry, SameMarks
      <4> QED BY <1>0, <4>1, <4>2, <4>3 DEF TypeOK
    <3> QED BY <3>1, <3>2
  <2>2. RunOK(r)' /\ Active(r)
    <3>1. /\ UNCHANGED running /\ ent'[e].owned = ent[e].owned
          /\ ent'[e].requested = ent[e].requested
      BY <1>e, <1>1, <2>1 DEF BeginStart, SameMarks
    <3>2. CASE ent[e].requested
      <4>1. run'[r] = [run[r] EXCEPT !.pc = "refused"]
        BY <1>0, <1>1, <3>2 DEF BeginStart, TypeOK
      <4> QED BY <1>0, <1>1, <3>1, <3>2, <4>1 DEF BeginStart, RunOK, HeldOK, ProcOK,
                 RefusedOK, ResultOK, Active, Run
    <3>3. CASE ~ent[e].requested
      <4>1. run'[r] = [run[r] EXCEPT !.pc = "starting", !.ctx = "live"]
        BY <1>0, <1>1, <3>3 DEF BeginStart, TypeOK
      <4> QED BY <1>0, <1>1, <3>1, <3>3, <4>1 DEF BeginStart, RunOK, HeldOK, ProcOK,
                 RefusedOK, ResultOK, Active, Run
    <3> QED BY <3>2, <3>3
  <2> QED BY <1>1, <2>1, <2>2 DEF BeginStart
<1>2. CASE AttachProcessGroup(r)
  <2>1. TypeOK' /\ SameMarks /\ \A s \in Runs \ {r} : run'[s] = run[s]
    <3>1. /\ run' = [run EXCEPT ![r].pc = "attached"]
          /\ UNCHANGED <<running, stop>>
      BY <1>2 DEF AttachProcessGroup
    <3>2. run' \in [Runs -> Run] /\ \A s \in Runs \ {r} : run'[s] = run[s]
      <4> DEFINE v == [run[r] EXCEPT !.pc = "attached"]
      <4>1. v \in Run
        BY <1>0 DEF Run
      <4>2. run' = [run EXCEPT ![r] = v]
        BY <1>0, <3>1 DEF TypeOK
      <4> HIDE DEF v
      <4> QED BY <1>0, <4>1, <4>2 DEF TypeOK
    <3>3. ent' \in [Entries -> Entry] /\ SameMarks
      BY <1>0, <1>e, <1>f, <1>2 DEF AttachProcessGroup, TypeOK, Entry, SameMarks
    <3> QED BY <1>0, <3>1, <3>2, <3>3 DEF TypeOK
  <2>2. RunOK(r)' /\ Active(r)
    <3>1. /\ UNCHANGED running /\ ent'[e].owned = ent[e].owned
          /\ ent'[e].requested = ent[e].requested
      BY <1>e, <1>2, <2>1 DEF AttachProcessGroup, SameMarks
    <3>2. run'[r] = [run[r] EXCEPT !.pc = "attached"]
      BY <1>0, <1>2 DEF AttachProcessGroup, TypeOK
    <3>3. run[r].pc = "forked"
      BY <1>2 DEF AttachProcessGroup
    <3>4. HeldOK(r)' /\ Active(r)
      BY <1>0, <3>1, <3>2, <3>3 DEF RunOK, HeldOK, Active, Run
    <3>5. ProcOK(r)'
      BY <1>0, <3>1, <3>2, <3>3 DEF RunOK, ProcOK, Run
    <3>6. RefusedOK(r)' /\ ResultOK(r)'
      BY <1>0, <3>1, <3>2, <3>3 DEF RunOK, RefusedOK, ResultOK, Run
    <3> QED BY <3>4, <3>5, <3>6 DEF RunOK
  <2> QED BY <1>2, <2>1, <2>2 DEF AttachProcessGroup
<1>3. CASE MarkStarted(r)
  <2>1. TypeOK' /\ SameMarks /\ \A s \in Runs \ {r} : run'[s] = run[s]
    BY <1>0, <1>e, <1>f, <1>3 DEF MarkStarted, TypeOK, Run, Entry, SameMarks
  <2>2. RunOK(r)' /\ Active(r)
    BY <1>0, <1>e, <1>3, <2>1 DEF MarkStarted, TypeOK, RunOK, HeldOK, ProcOK,
       RefusedOK, ResultOK, Active, Run, SameMarks
  <2> QED BY <1>3, <2>1, <2>2 DEF MarkStarted
<1>4. CASE WatchdogWakes(r)
  <2>1. TypeOK' /\ SameMarks /\ \A s \in Runs \ {r} : run'[s] = run[s]
    <3>1. PICK w \in {"leader", "term", "kill", "returned"} :
             run' = [run EXCEPT ![r].watch = w]
      BY <1>4 DEF WatchdogWakes
    <3>2. ent' = ent \/ ent' = [ent EXCEPT ![e].killErr = TRUE]
      BY <1>4 DEF WatchdogWakes
    <3>3. run' \in [Runs -> Run] /\ \A s \in Runs \ {r} : run'[s] = run[s]
      BY <1>0, <3>1 DEF TypeOK, Run
    <3>4. ent' \in [Entries -> Entry] /\ SameMarks
      <4>1. CASE ent' = ent
        BY <1>0, <4>1 DEF TypeOK, SameMarks
      <4>2. CASE ent' = [ent EXCEPT ![e].killErr = TRUE]
        BY <1>0, <1>e, <1>f, <4>2 DEF TypeOK, Entry, SameMarks
      <4> QED BY <3>2, <4>1, <4>2
    <3> QED BY <1>0, <1>4, <3>3, <3>4 DEF WatchdogWakes, TypeOK
  <2>2. RunOK(r)' /\ (Active(r)' => Active(r))
    BY <1>0, <1>e, <1>4, <2>1 DEF WatchdogWakes, TypeOK, RunOK, HeldOK, ProcOK,
       RefusedOK, ResultOK, Active, Run, SameMarks
  <2> QED BY <1>4, <2>1, <2>2 DEF WatchdogWakes
<1>5. CASE KillLeader(r) \/ KillGroup(r)
  <2>0. PICK victims \in SUBSET {"leader", "child"} : Killed(r, victims)
    BY <1>5 DEF KillLeader, KillGroup
  <2>1. PICK sig \in BOOLEAN :
           run' = [run EXCEPT ![r].watch = "returned", ![r].tree = @ \ victims,
                              ![r].signalled = sig]
    <3>1. run[r].signalled \in BOOLEAN
      BY <1>0 DEF Run
    <3> QED BY <2>0, <3>1 DEF Killed
  <2>2. run' \in [Runs -> Run] /\ \A s \in Runs \ {r} : run'[s] = run[s]
    <3> DEFINE v == [run[r] EXCEPT !.watch = "returned", !.tree = @ \ victims,
                                   !.signalled = sig]
    <3>1. v \in Run
      BY <1>0 DEF Run
    <3>2. run' = [run EXCEPT ![r] = v]
      BY <1>0, <2>1 DEF TypeOK
    <3> HIDE DEF v
    <3> QED BY <1>0, <3>1, <3>2 DEF TypeOK
  <2>3. ent' \in [Entries -> Entry] /\ SameMarks
    <3>1. CASE KillLeader(r)
      <4> PICK denied \in BOOLEAN :
            ent' = [ent EXCEPT ![e].contained = FALSE, ![e].lost = TRUE,
                               ![e].killErr = denied]
        BY <3>1 DEF KillLeader
      <4> QED BY <1>0, <1>e, <1>f DEF TypeOK, Entry, SameMarks
    <3>2. CASE KillGroup(r)
      <4> PICK denied \in BOOLEAN : ent' = [ent EXCEPT ![e].killErr = denied]
        BY <3>2 DEF KillGroup
      <4> QED BY <1>0, <1>e, <1>f DEF TypeOK, Entry, SameMarks
    <3> QED BY <1>5, <3>1, <3>2
  <2>4. TypeOK' /\ UNCHANGED <<running, stop>>
    BY <1>0, <1>5, <2>2, <2>3 DEF KillLeader, KillGroup, TypeOK
  <2>5. RunOK(r)' /\ (Active(r)' => Active(r))
    <3>1. run[r].watch \in {"leader", "term", "kill"}
      BY <1>5 DEF KillLeader, KillGroup
    <3>2. /\ UNCHANGED running /\ ent'[e].owned = ent[e].owned
          /\ ent'[e].requested = ent[e].requested
      BY <1>e, <2>3, <2>4 DEF SameMarks
    <3>3. /\ run'[r].pc = run[r].pc /\ run'[r].entry = e /\ run'[r].ctx = run[r].ctx
          /\ run'[r].tree = run[r].tree \ victims /\ run'[r].watch = "returned"
          /\ run'[r].result = run[r].result
      BY <1>0, <2>1 DEF TypeOK, Run
    <3>4. HeldOK(r)' /\ (Active(r)' => Active(r))
      BY <1>0, <3>2, <3>3 DEF RunOK, HeldOK, Active
    <3>5. ProcOK(r)'
      BY <1>0, <3>1, <3>2, <3>3 DEF RunOK, ProcOK
    <3>6. RefusedOK(r)' /\ ResultOK(r)'
      BY <1>0, <3>1, <3>2, <3>3 DEF RunOK, RefusedOK, ProcOK, ResultOK
    <3> QED BY <3>4, <3>5, <3>6 DEF RunOK
  <2> QED BY <2>2, <2>3, <2>4, <2>5
<1> QED BY <1>1, <1>2, <1>3, <1>4, <1>5

-----------------------------------------------------------------------------
(* The steps that change the map.                                          *)

\* A reservation takes an id nobody holds.
LEMMA ReserveKeeps ==
    ASSUME ExecInv, NEW r \in Runs, ReserveNew(r) \/ ReserveRefusal(r)
    PROVE  ExecInv'
<1> DEFINE i == IdOf[r]
           e == run'[r].entry
<1>0. TypeOK /\ run[r] \in Run /\ RunOK(r) /\ i \in Ids /\ r \in Entries
      /\ r \notin Cancels /\ None \notin Entries
  BY CallSets DEF ExecInv, TypeOK, Entries
<1>1. \A s \in Runs : Active(s) => IdOf[s] # i
  BY DEF ReserveNew, ReserveRefusal, ExecInv, RunOK, HeldOK, Active
<1>2. /\ e \in Entries /\ IdOf[e] = i
      /\ running' = [running EXCEPT ![i] = e]
      /\ ent' = [ent EXCEPT ![e].owned = TRUE]
      /\ e \in Cancels => ent[e].requested
      /\ UNCHANGED stop
  <2>1. CASE ReserveNew(r)
    BY <1>0, <2>1 DEF ReserveNew, TypeOK
  <2>2. CASE ReserveRefusal(r)
    BY <1>0, <2>2 DEF ReserveRefusal, TypeOK, ExecInv, MapOK
  <2> QED BY <2>1, <2>2
<1>3. PICK pc \in {"setup", "refused"} :
         run' = [run EXCEPT ![r].pc = pc, ![r].entry = e]
         /\ (e \in Cancels => pc = "refused")
  <2>1. CASE ReserveNew(r)
    BY <1>0, <2>1 DEF ReserveNew, TypeOK, Run
  <2>2. CASE ReserveRefusal(r)
    <3>1. run' = [run EXCEPT ![r].pc = IF ent[running[i]].requested
                                       THEN "refused" ELSE "setup",
                             ![r].entry = running[i]]
      BY <2>2 DEF ReserveRefusal
    <3>2. e = running[i]
      BY <1>0, <3>1 DEF TypeOK, Run
    <3> QED BY <1>2, <3>1, <3>2
  <2> QED BY <2>1, <2>2
<1>4. ent[e] \in Entry
  BY <1>0, <1>2 DEF TypeOK
<1>5. /\ ent' \in [Entries -> Entry] /\ ent'[e].owned
      /\ \A d \in Entries : /\ ent[d].owned => ent'[d].owned
                            /\ ent'[d].requested = ent[d].requested
                            /\ ent'[d].by = ent[d].by
  BY <1>0, <1>2, <1>4 DEF TypeOK, Entry
<1>6. run' \in [Runs -> Run] /\ \A s \in Runs \ {r} : run'[s] = run[s]
  <2> DEFINE v == [run[r] EXCEPT !.pc = pc, !.entry = e]
  <2>1. v \in Run
    BY <1>0, <1>2 DEF Run
  <2>2. run' = [run EXCEPT ![r] = v]
    BY <1>0, <1>3 DEF TypeOK
  <2> HIDE DEF v
  <2> QED BY <1>0, <2>1, <2>2 DEF TypeOK
<1>7. TypeOK'
  BY <1>0, <1>2, <1>5, <1>6 DEF TypeOK
<1>8. OneProcessPerId'
  BY <1>1, <1>6 DEF ExecInv, OneProcessPerId, Active
<1>9. ASSUME NEW j \in Ids PROVE MapOK(j)'
  BY <1>0, <1>2, <1>5 DEF ExecInv, MapOK, TypeOK
<1>10. ASSUME NEW d \in Entries PROVE EntOK(d)'
  BY <1>5 DEF ExecInv, EntOK
<1>11. ASSUME NEW c \in Cancels PROVE StopOK(c)'
  BY <1>2, <1>5 DEF ExecInv, StopOK, TypeOK, Stop
<1>12. RunOK(r)'
  <2>1. /\ run'[r].pc = pc /\ run'[r].ctx = run[r].ctx /\ run'[r].tree = run[r].tree
        /\ run'[r].watch = run[r].watch /\ run'[r].signalled = run[r].signalled
        /\ run'[r].result = run[r].result
    BY <1>0, <1>3 DEF TypeOK, Run
  <2>2. run[r].pc = "idle" /\ run[r].entry = None
    BY <1>0 DEF ReserveNew, ReserveRefusal, RunOK, HeldOK
  <2>3. /\ e # None /\ IdOf[e] = i /\ running'[i] = e /\ ent'[e].owned
        /\ e \in Cancels => ent'[e].requested /\ pc = "refused"
    BY <1>0, <1>2, <1>3, <1>5, CallSets DEF TypeOK, Entries
  <2> HIDE DEF e
  <2>e. run'[r].entry = e
    BY DEF e
  <2>4. HeldOK(r)'
    BY <2>1, <2>3, <2>e DEF HeldOK, Active
  <2>5. ProcOK(r)' /\ RefusedOK(r)' /\ ResultOK(r)'
    BY <1>0, <2>1, <2>2, <2>3, <2>e DEF RunOK, ProcOK, RefusedOK, ResultOK
  <2> QED BY <2>4, <2>5 DEF RunOK
<1>13. ASSUME NEW s \in Runs, s # r PROVE RunOK(s)'
  <2>1. run'[s] = run[s] /\ RunOK(s) /\ run[s].entry \in Entries \cup {None}
    BY <1>6, <1>13 DEF ExecInv, TypeOK, Run
  <2>2. Active(s) => running'[IdOf[s]] = running[IdOf[s]]
    BY <1>0, <1>1, <1>2, CallSets DEF TypeOK, Entries
  <2>3. run[s].entry \in Cancels => run[s].entry \in Entries
    BY DEF Entries
  <2> QED BY <1>0, <1>5, <2>1, <2>2, <2>3 DEF RunOK, HeldOK, ProcOK, RefusedOK,
     ResultOK, Active
<1> QED BY <1>7, <1>8, <1>9, <1>10, <1>11, <1>12, <1>13 DEF ExecInv

\* An entry leaves the map when no other Execute holds its id.
LEMMA UnmapKeeps ==
    ASSUME ExecInv, NEW i \in Ids, NEW e \in Entries,
           ent' = [ent EXCEPT ![e].done = TRUE],
           \/ running' = [running EXCEPT ![i] = None]
           \/ running' = running,
           run' \in [Runs -> Run], UNCHANGED stop,
           \A r \in Runs : \/ run'[r] = run[r] /\ (Active(r) => IdOf[r] # i)
                           \/ RunOK(r)' /\ ~Active(r)'
    PROVE  ExecInv'
<1>0. TypeOK /\ ent[e] \in Entry
  BY DEF ExecInv, TypeOK
<1>1. ent' \in [Entries -> Entry] /\ SameMarks
  BY <1>0 DEF TypeOK, Entry, SameMarks
<1>2. TypeOK'
  BY <1>0, <1>1 DEF TypeOK
<1>3. OneProcessPerId'
  BY DEF ExecInv, OneProcessPerId, Active
<1>4. ASSUME NEW j \in Ids PROVE MapOK(j)'
  BY <1>0, <1>1 DEF ExecInv, MapOK, SameMarks, TypeOK
<1>5. ASSUME NEW d \in Entries PROVE EntOK(d)'
  BY <1>1 DEF ExecInv, EntOK, SameMarks
<1>6. ASSUME NEW c \in Cancels PROVE StopOK(c)'
  BY <1>0, <1>1 DEF ExecInv, StopOK, SameMarks, TypeOK, Stop
<1>7. ASSUME NEW s \in Runs PROVE RunOK(s)'
  <2>1. CASE run'[s] = run[s] /\ (Active(s) => IdOf[s] # i)
    <3>1. run'[s] = run[s] /\ RunOK(s) /\ run[s].entry \in Entries \cup {None}
      BY <1>0, <2>1 DEF ExecInv, TypeOK, Run
    <3>2. Active(s) => running'[IdOf[s]] = running[IdOf[s]]
      BY <1>0, <2>1, CallSets DEF TypeOK, Entries
    <3>3. run[s].entry \in Cancels => run[s].entry \in Entries
      BY DEF Entries
    <3> QED BY <1>1, <3>1, <3>2, <3>3 DEF RunOK, HeldOK, ProcOK, RefusedOK,
       ResultOK, Active, SameMarks
  <2> QED BY <2>1
<1> QED BY <1>2, <1>3, <1>4, <1>5, <1>6, <1>7 DEF ExecInv

\* The release of the one Execute that holds the id.
LEMMA ReleaseKeeps ==
    ASSUME ExecInv, NEW r \in Runs, Release(r) PROVE ExecInv'
<1> DEFINE i == IdOf[r]
           e == run[r].entry
<1>0. TypeOK /\ run[r] \in Run /\ RunOK(r) /\ i \in Ids
  BY CallSets DEF ExecInv, TypeOK, Entries
<1>1. e \in Entries
  BY <1>0 DEF Release, RunOK, HeldOK, Active, Run
<1>2. running' = [running EXCEPT ![i] = None] \/ running' = running
  BY <1>0 DEF Release, TypeOK
<1>3. run' \in [Runs -> Run] /\ \A s \in Runs \ {r} : run'[s] = run[s]
  BY <1>0 DEF Release, TypeOK, Run
<1>4. ASSUME NEW s \in Runs, s # r, Active(s) PROVE IdOf[s] # i
  BY <1>4 DEF Release, ExecInv, OneProcessPerId, Active
<1>5. RunOK(r)' /\ ~Active(r)'
  <2>1. SameMarks
    BY <1>0, <1>1 DEF Release, TypeOK, Entry, SameMarks
  <2> QED BY <1>0, <1>1, <2>1 DEF Release, TypeOK, RunOK, HeldOK, ProcOK,
     RefusedOK, ResultOK, Active, Run, SameMarks
<1>6. ent' = [ent EXCEPT ![e].done = TRUE] /\ UNCHANGED stop
  BY DEF Release
<1> HIDE DEF i, e
<1> QED BY <1>0, <1>1, <1>2, <1>3, <1>4, <1>5, <1>6, UnmapKeeps

\* The timer removes a record that no Execute owns.
LEMMA ExpireKeeps ==
    ASSUME ExecInv, NEW c \in Cancels, ExpireRefusal(c) PROVE ExecInv'
<1>0. TypeOK /\ IdOf[c] \in Ids /\ c \in Entries
  BY CallSets DEF ExecInv, TypeOK, Entries
<1>1. ASSUME NEW s \in Runs, Active(s) PROVE IdOf[s] # IdOf[c]
  BY <1>1 DEF ExpireRefusal, ExecInv, RunOK, HeldOK
<1>2. run' \in [Runs -> Run] /\ \A s \in Runs : run'[s] = run[s]
  BY <1>0 DEF ExpireRefusal, TypeOK
<1>3. /\ ent' = [ent EXCEPT ![c].done = TRUE]
      /\ running' = [running EXCEPT ![IdOf[c]] = None] /\ UNCHANGED stop
  BY DEF ExpireRefusal
<1> QED BY <1>0, <1>1, <1>2, <1>3, UnmapKeeps

-----------------------------------------------------------------------------
(* The steps of a Cancel.                                                  *)

\* The look-up and the answers.
LEMMA LookupKeeps ==
    ASSUME ExecInv, NEW c \in Cancels, Lookup(c) \/ SeeDone(c) \/ GiveUp(c)
    PROVE  ExecInv'
<1>0. TypeOK /\ stop[c] \in Stop /\ StopOK(c) /\ IdOf[c] \in Ids
      /\ MapOK(IdOf[c]) /\ running[IdOf[c]] \in Entries \cup {None}
  BY CallSets DEF ExecInv, TypeOK, Entries
<1>1. CASE Lookup(c)
  <2>1. TypeOK' /\ \A d \in Cancels \ {c} : stop'[d] = stop[d]
    BY <1>0, <1>1 DEF Lookup, TypeOK, Stop
  <2>2. StopOK(c)'
    BY <1>0, <1>1 DEF Lookup, TypeOK, Stop, StopOK, MapOK
  <2> QED BY <1>1, <2>1, <2>2, StopStep DEF Lookup
<1>2. CASE SeeDone(c) \/ GiveUp(c)
  <2>0. PICK outcome \in {"terminated", "kill_failed"} : Answer(c, outcome)
    BY <1>2 DEF SeeDone, GiveUp, GradeCancelOutcome
  <2>1. UNCHANGED <<running, ent, run>>
    BY <1>2 DEF SeeDone, GiveUp
  <2>2. TypeOK' /\ \A d \in Cancels \ {c} : stop'[d] = stop[d]
    BY <1>0, <2>0, <2>1 DEF Answer, TypeOK, Stop, Outcomes
  <2>3. StopOK(c)'
    BY <1>0, <2>0, <2>1 DEF Answer, TypeOK, Stop, StopOK
  <2> QED BY <2>1, <2>2, <2>3, StopStep
<1> QED BY <1>1, <1>2

\* A request may be made at any time: what is known of an entry only grows.
LEMMA MarkKeeps ==
    ASSUME ExecInv, NEW c \in Cancels, MarkCancelRequested(c) PROVE ExecInv'
<1> DEFINE e == stop[c].entry
<1>0. TypeOK /\ stop[c] \in Stop /\ StopOK(c) /\ c \in Entries /\ c # None
  BY CallSets DEF ExecInv, TypeOK, Entries
<1>1. e \in Entries /\ IdOf[e] = IdOf[c] /\ ent[e] \in Entry
  BY <1>0 DEF MarkCancelRequested, StopOK, TypeOK, Stop
<1>2. /\ ent' \in [Entries -> Entry] /\ ent'[e].requested /\ ent'[e].by = c
      /\ \A d \in Entries : /\ ent'[d].owned = ent[d].owned
                            /\ ent[d].requested => ent'[d].requested
                            /\ d # e => ent'[d] = ent[d]
  <2>g. (c \in Graced) \in BOOLEAN
    OBVIOUS
  <2> DEFINE w == [ent[e] EXCEPT !.requested = TRUE, !.by = c,
                                 !.grace = c \in Graced]
  <2>1. w \in Entry /\ w.owned = ent[e].owned /\ w.requested /\ w.by = c
    BY <1>1, <2>g DEF Entry
  <2>2. ent' = [ent EXCEPT ![e] = w]
    BY <1>0, <1>1 DEF MarkCancelRequested, TypeOK
  <2> HIDE DEF w, e
  <2> QED BY <1>0, <1>1, <2>1, <2>2 DEF TypeOK
<1>3. /\ stop' \in [Cancels -> Stop] /\ stop'[c].entry = e
      /\ \A d \in Cancels \ {c} : stop'[d] = stop[d]
  BY <1>0 DEF MarkCancelRequested, Answer, TypeOK, Stop, Outcomes
<1>4. TypeOK' /\ UNCHANGED <<running, run>>
  BY <1>0, <1>2, <1>3 DEF MarkCancelRequested, TypeOK
<1>5. OneProcessPerId'
  BY <1>4 DEF ExecInv, OneProcessPerId
<1>6. ASSUME NEW i \in Ids PROVE MapOK(i)'
  BY <1>0, <1>2, <1>4 DEF ExecInv, MapOK, TypeOK
<1>7. ASSUME NEW d \in Entries PROVE EntOK(d)'
  BY <1>0, <1>1, <1>2 DEF ExecInv, EntOK
<1>8. ASSUME NEW d \in Cancels PROVE StopOK(d)'
  <2>1. CASE d = c
    BY <1>0, <1>1, <1>2, <1>3, <2>1 DEF StopOK, MarkCancelRequested
  <2>2. CASE d # c
    BY <1>0, <1>2, <1>3, <2>2 DEF ExecInv, StopOK, TypeOK, Stop
  <2> QED BY <2>1, <2>2
<1>9. ASSUME NEW s \in Runs PROVE RunOK(s)'
  <2>1. run'[s] = run[s] /\ RunOK(s) /\ run[s].entry \in Entries \cup {None}
    BY <1>0, <1>4 DEF ExecInv, TypeOK, Run
  <2>2. run[s].entry \in Cancels => run[s].entry \in Entries
    BY DEF Entries
  <2> QED BY <1>2, <1>4, <2>1, <2>2 DEF RunOK, HeldOK, ProcOK, RefusedOK,
     ResultOK, Active
<1> QED BY <1>4, <1>5, <1>6, <1>7, <1>8, <1>9 DEF ExecInv

\* A cancel that found nothing leaves a record, or finds one by now.
LEMMA RefusalKeeps ==
    ASSUME ExecInv, NEW c \in Cancels, RecordCancelRefusal(c) PROVE ExecInv'
<1> DEFINE i == IdOf[c]
<1>0. TypeOK /\ stop[c] \in Stop /\ StopOK(c) /\ i \in Ids /\ c \in Entries
      /\ c # None /\ ent[c] \in Entry
  BY CallSets DEF ExecInv, TypeOK, Entries
<1>1. /\ stop' \in [Cancels -> Stop] /\ StopOK(c)'
      /\ \A d \in Cancels \ {c} : stop'[d] = stop[d]
  BY <1>0 DEF RecordCancelRefusal, Answer, TypeOK, Stop, Outcomes, StopOK
<1>2. CASE running[i] # None
  <2>1. UNCHANGED <<running, ent, run>>
    BY <1>2 DEF RecordCancelRefusal
  <2> QED BY <1>0, <1>1, <2>1, StopStep DEF TypeOK
<1>3. CASE running[i] = None
  <2>1. /\ running' = [running EXCEPT ![i] = c] /\ UNCHANGED run
        /\ ent' = [ent EXCEPT ![c].requested = TRUE, ![c].by = c,
                              ![c].grace = c \in Graced]
    BY <1>3 DEF RecordCancelRefusal
  <2>2. /\ ent' \in [Entries -> Entry] /\ ent'[c].requested /\ ent'[c].by = c
        /\ \A d \in Entries : /\ ent'[d].owned = ent[d].owned
                              /\ ent[d].requested => ent'[d].requested
                              /\ d # c => ent'[d] = ent[d]
    <3>g. (c \in Graced) \in BOOLEAN
      OBVIOUS
    <3> DEFINE w == [ent[c] EXCEPT !.requested = TRUE, !.by = c,
                                 !.grace = c \in Graced]
    <3>1. w \in Entry /\ w.owned = ent[c].owned /\ w.requested /\ w.by = c
      BY <1>0, <3>g DEF Entry
    <3>2. ent' = [ent EXCEPT ![c] = w]
      BY <1>0, <2>1 DEF TypeOK
    <3> HIDE DEF w
    <3> QED BY <1>0, <3>1, <3>2 DEF TypeOK
  <2>3. TypeOK'
    BY <1>0, <1>1, <2>1, <2>2 DEF TypeOK
  <2>4. OneProcessPerId'
    BY <2>1 DEF ExecInv, OneProcessPerId
  <2>5. ASSUME NEW j \in Ids PROVE MapOK(j)'
    BY <1>0, <2>1, <2>2 DEF ExecInv, MapOK, TypeOK
  <2>6. ASSUME NEW d \in Entries PROVE EntOK(d)'
    BY <1>0, <2>2 DEF ExecInv, EntOK
  <2>7. ASSUME NEW d \in Cancels PROVE StopOK(d)'
    <3>1. CASE d = c
      BY <1>1, <3>1
    <3>2. CASE d # c
      BY <1>0, <1>1, <2>2, <3>2 DEF ExecInv, StopOK, TypeOK, Stop
    <3> QED BY <3>1, <3>2
  <2>8. ASSUME NEW s \in Runs PROVE RunOK(s)'
    <3>1. run'[s] = run[s] /\ RunOK(s) /\ run[s].entry \in Entries \cup {None}
      BY <1>0, <2>1 DEF ExecInv, TypeOK, Run
    <3>2. Active(s) => running'[IdOf[s]] = running[IdOf[s]]
      BY <1>0, <1>3, <2>1, <3>1, CallSets DEF TypeOK, Entries, RunOK, HeldOK
    <3>3. run[s].entry \in Cancels => run[s].entry \in Entries
      BY DEF Entries
    <3> QED BY <2>2, <3>1, <3>2, <3>3 DEF RunOK, HeldOK, ProcOK, RefusedOK,
       ResultOK, Active
  <2> QED BY <2>3, <2>4, <2>5, <2>6, <2>7, <2>8 DEF ExecInv
<1> QED BY <1>2, <1>3

\* The context is cancelled on behalf of a request already written.
LEMMA ContextKeeps ==
    ASSUME ExecInv, NEW c \in Cancels, CancelContext(c) PROVE ExecInv'
<1>0. TypeOK /\ stop[c] \in Stop /\ StopOK(c)
  BY DEF ExecInv, TypeOK
<1>1. UNCHANGED <<running, ent>>
  BY DEF CancelContext
<1>2. /\ stop' \in [Cancels -> Stop] /\ StopOK(c)'
      /\ \A d \in Cancels \ {c} : stop'[d] = stop[d]
  BY <1>0 DEF CancelContext, TypeOK, Stop, StopOK
<1>3. ASSUME NEW r \in Runs
      PROVE  \/ run'[r] = run[r]
             \/ /\ run[r].entry = stop[c].entry /\ run[r].ctx = "live"
                /\ run'[r] = [run[r] EXCEPT !.ctx = "cancelled"]
  BY DEF CancelContext
<1>4. ASSUME NEW r \in Runs PROVE run'[r] \in Run /\ run'[r].pc = run[r].pc
  <2>0. run[r] \in Run
    BY <1>0 DEF TypeOK
  <2>1. CASE run'[r] = run[r]
    BY <2>0, <2>1
  <2>2. CASE run'[r] = [run[r] EXCEPT !.ctx = "cancelled"]
    BY <2>0, <2>2 DEF Run
  <2> QED BY <1>3, <2>1, <2>2
<1>5. TypeOK'
  <2>1. run' \in [Runs -> Run]
    BY <1>4 DEF CancelContext
  <2> QED BY <1>0, <1>1, <1>2, <2>1 DEF TypeOK
<1>6. OneProcessPerId'
  BY <1>4 DEF ExecInv, OneProcessPerId
<1>7. ASSUME NEW i \in Ids PROVE MapOK(i)'
  BY <1>1 DEF ExecInv, MapOK
<1>8. ASSUME NEW e \in Entries PROVE EntOK(e)'
  BY <1>1 DEF ExecInv, EntOK
<1>9. ASSUME NEW d \in Cancels PROVE StopOK(d)'
  BY <1>1, <1>2 DEF ExecInv, StopOK
<1>10. ASSUME NEW r \in Runs PROVE RunOK(r)'
  <2>0. run[r] \in Run /\ RunOK(r)
    BY <1>0 DEF ExecInv, TypeOK
  <2>1. CASE run'[r] = run[r]
    BY <1>1, <2>0, <2>1 DEF RunOK, HeldOK, ProcOK, RefusedOK, ResultOK, Active
  <2>2. CASE /\ run[r].entry = stop[c].entry /\ run[r].ctx = "live"
             /\ run'[r] = [run[r] EXCEPT !.ctx = "cancelled"]
    BY <1>0, <1>1, <2>0, <2>2 DEF CancelContext, StopOK, Run, RunOK, HeldOK, ProcOK,
       RefusedOK, ResultOK, Active
  <2> QED BY <1>3, <2>1, <2>2
<1> QED BY <1>5, <1>6, <1>7, <1>8, <1>9, <1>10 DEF ExecInv

-----------------------------------------------------------------------------
(* The theorems.                                                           *)

\* Every step keeps the invariant.
LEMMA NextExec == ExecInv /\ [Next]_vars => ExecInv'
<1> SUFFICES ASSUME ExecInv, [Next]_vars PROVE ExecInv'
  OBVIOUS
<1>1. ASSUME NEW r \in Runs, Execute(r) \/ Watchdog(r) \/ System(r)
      PROVE  ExecInv'
  BY <1>1, ReserveKeeps, DuplicateKeeps, SetupFailsKeeps, EntryKeeps,
     FinishRefusedKeeps, ProcessKeeps, ProcessResultKeeps, ReleaseKeeps
     DEF Execute, Watchdog
<1>2. ASSUME NEW c \in Cancels, Cancel(c) \/ ExpireRefusal(c) PROVE ExecInv'
  BY <1>2, LookupKeeps, RefusalKeeps, MarkKeeps, ContextKeeps, ExpireKeeps
     DEF Cancel
<1>3. CASE UNCHANGED vars
  BY <1>3 DEF vars, ExecInv, TypeOK, OneProcessPerId, MapOK, EntOK, StopOK, RunOK,
     HeldOK, ProcOK, RefusedOK, ResultOK, Active
<1> QED BY <1>1, <1>2, <1>3 DEF Next

\* The invariant holds throughout.
LEMMA ExecInvariant == Spec => []ExecInv
BY InitExec, NextExec, PTL DEF Spec

\* Every reachable state of the executor is well typed, for any number of
\* calls and ids: in particular a marker is always a cancel command.
THEOREM ExecutorTyped == Spec => []TypeOK
<1>1. ExecInv => TypeOK
  BY DEF ExecInv
<1> QED BY <1>1, ExecInvariant, PTL

\* A redelivered script never runs beside itself: reserve() admits one Execute
\* of an id at a time, also across refusal records, their adoption and their
\* expiry.
THEOREM OneProcess == Spec => []OneProcessPerId
<1>1. ExecInv => OneProcessPerId
  BY DEF ExecInv
<1> QED BY <1>1, ExecInvariant, PTL

\* A cancel that came before its script, and whose record the script meets, is
\* obeyed: Execute starts no process for it and names a cancel in its result.
THEOREM RefusalsObeyed == Spec => []RefusalObeyed
<1>1. ExecInv => RefusalObeyed
  BY DEF ExecInv, RunOK, RefusedOK, RefusalObeyed
<1> QED BY <1>1, ExecInvariant, PTL

\* A kill that was not the time limit's carries the cancel command that asked
\* for it, and no result names a cancel of another execution.
THEOREM KillsMarked == Spec => []KillIsMarked
<1>1. ExecInv => KillIsMarked
  BY DEF ExecInv, RunOK, ResultOK, KillIsMarked
<1> QED BY <1>1, ExecInvariant, PTL
=============================================================================
