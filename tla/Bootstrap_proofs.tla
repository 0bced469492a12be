-------------------------- MODULE Bootstrap_proofs --------------------------
(***************************************************************************)
(* The safety properties of Bootstrap for every number of threads,         *)
(* requests and signals.                                                   *)
(*                                                                         *)
(* Two arguments meet in the inductive invariant.  A start is alone        *)
(* (_start_lock), and until it spawns nothing is alive unless a stop has   *)
(* overtaken it.  A stop is alone (_stop_lock), the group it deals with    *)
(* stays the tracked one, and every start under way is of an earlier       *)
(* generation.  The main thread complicates the second: a handler suspends *)
(* what it interrupts, so the holder of _stop_lock may be a frame.         *)
(*                                                                         *)
(* Most actions are quiet: they add no group, change neither what is       *)
(* tracked nor the generation, and only give locks back.  One lemma shows  *)
(* that a quiet step keeps the invariant; what is left per action is that  *)
(* it is quiet, and a proof of its own for the few that are not.           *)
(***************************************************************************)
EXTENDS Bootstrap, TLAPS

Preparing == {"install", "build", "broken", "spawn"}
Inside    == StopPc \ {"stop"}
Facing    == {"signal", "wait", "kill", "settle", "stuck", "reap"}

StartsAlone == \A c \in Caller : call[c].pc \in StartPc => startLock = c

MainStops ==
    /\ call[Main].pc \in {"idle"} \cup StopPc
    /\ \A i \in DOMAIN frames : frames[i].pc \in {"idle"} \cup StopPc
    /\ \A i \in DOMAIN frames : frames[i].proc <= Len(procs)

StopsAlone ==
    /\ \A t \in Thread : call[t].pc \in Inside => stopLock = t
    /\ \A i \in DOMAIN frames : frames[i].pc \in Inside => stopLock = Main
    /\ \A i, j \in DOMAIN frames :
          frames[i].pc \in Inside /\ frames[j].pc \in Inside => i = j
    /\ \A i \in DOMAIN frames : frames[i].pc \in Inside => call[Main].pc \notin Inside

\* What a stop knows of the group it deals with.
Faces(x) ==
    /\ x.pc \in Facing => x.proc = tracked
    /\ x.pc = "reap" => ~Alive(x.proc)

StopFaces ==
    /\ \A t \in Thread : Faces(call[t])
    /\ \A i \in DOMAIN frames : Faces(frames[i])

Generations ==
    /\ \A t \in Thread : call[t].gen <= gen
    /\ \A i \in DOMAIN frames : frames[i].gen <= gen
    /\ stopLock # Nobody =>
          /\ stopping
          /\ \A c \in Caller : call[c].pc \in Preparing => call[c].gen < gen

NothingBefore ==
    \A c \in Caller :
        call[c].pc \in Preparing /\ call[c].gen = gen
            => \A p \in DOMAIN procs : ~Alive(p)

\* A stop that is about to return has said what became of the group.
Settled ==
    /\ \A t \in Thread : call[t].pc = "stopped" => phase \in {"STOPPED", "FAILED"}
    /\ \A i \in DOMAIN frames : frames[i].pc = "stopped" => phase \in {"STOPPED", "FAILED"}

IInv ==
    /\ TypeOK /\ OneProcess /\ StoppedIsGone
    /\ StartsAlone /\ MainStops /\ StopsAlone /\ StopFaces
    /\ Generations /\ NothingBefore /\ Settled

-----------------------------------------------------------------------------
(***************************************************************************)
(* What the helpers of Bootstrap do to the threads and the groups.         *)
(***************************************************************************)
Pc == {"idle"} \cup StartPc \cup StopPc

\* Thread t, and no other, is somewhere else.
Moved(t) ==
    /\ call' \in [Thread -> Call]
    /\ \A u \in Thread \ {t} : call'[u] = call[u]

\* No group is added, and none that is gone comes back.
NoBirth ==
    /\ procs' \in Seq(Group) /\ Len(procs') = Len(procs)
    /\ \A q \in 1 .. Len(procs) : procs[q].st = "gone" => procs'[q].st = "gone"

LEMMA Numbers ==
    ASSUME TypeOK
    PROVE  /\ gen \in Nat /\ Len(procs) \in Nat /\ Len(frames) \in Nat
           /\ \A t \in Thread : call[t].gen \in Nat /\ call[t].proc \in Nat
           /\ \A i \in DOMAIN frames : frames[i].gen \in Nat /\ frames[i].proc \in Nat
  <1>1. \A i \in DOMAIN frames : frames[i] \in Call
    BY DEF TypeOK
  <1>. QED BY <1>1 DEF TypeOK, Call

LEMMA IdleIsCall == \A pc \in Pc : [Idle EXCEPT !.pc = pc] \in Call
  BY DEF Idle, Call, Pc, StartPc, StopPc

LEMMA GotoMoves ==
    ASSUME TypeOK, NEW t \in Thread, NEW pc \in Pc, Goto(t, pc)
    PROVE  /\ Moved(t) /\ call'[t].pc = pc
           /\ call'[t].gen = call[t].gen /\ call'[t].proc = call[t].proc
  BY DEF TypeOK, Goto, Moved, Call, Pc, StartPc, StopPc

LEMMA LeaveMoves ==
    ASSUME TypeOK, NEW t \in Thread, NEW pc \in Pc, Leave(t, pc)
    PROVE  Moved(t) /\ call'[t].pc = pc /\ call'[t].gen = 0 /\ call'[t].proc = 0
  <1>1. [Idle EXCEPT !.pc = pc] \in Call
    BY IdleIsCall
  <1>2. /\ [Idle EXCEPT !.pc = pc].pc = pc
        /\ [Idle EXCEPT !.pc = pc].gen = 0
        /\ [Idle EXCEPT !.pc = pc].proc = 0
    BY DEF Idle
  <1>. QED BY <1>1, <1>2 DEF TypeOK, Leave, Moved

LEMMA PutMoves ==
    ASSUME TypeOK, NEW t \in Thread, NEW x \in Call, call' = [call EXCEPT ![t] = x]
    PROVE  Moved(t) /\ call'[t] = x
  BY DEF TypeOK, Moved

LEMMA KillNoBirth ==
    ASSUME TypeOK, NEW p \in Nat, p <= Len(procs), Kill(p)
    PROVE  NoBirth
  <1>1. CASE Alive(p)
    <2>1. p \in 1 .. Len(procs) /\ procs[p] \in Group
      BY <1>1 DEF TypeOK, Alive
    <2>2. procs' = [procs EXCEPT ![p] = [procs[p] EXCEPT !.killed = TRUE]]
      BY <1>1 DEF Kill
    <2>3. [procs[p] EXCEPT !.killed = TRUE] \in Group
      BY <2>1 DEF Group
    <2>4. [procs[p] EXCEPT !.killed = TRUE].st = procs[p].st
      BY <2>1 DEF Group
    <2>. QED BY <2>1, <2>2, <2>3, <2>4 DEF TypeOK, NoBirth
  <1>2. CASE ~Alive(p)
    BY <1>2 DEF TypeOK, Kill, NoBirth
  <1>. QED BY <1>1, <1>2

LEMMA DiesNoBirth ==
    ASSUME TypeOK, NEW p \in DOMAIN procs, NEW st \in {"orphans", "gone"}, Dies(p, st),
           procs[p].st # "gone"
    PROVE  NoBirth
  <1>1. p \in 1 .. Len(procs) /\ procs[p] \in Group
    BY DEF TypeOK
  <1>2. procs' = [procs EXCEPT ![p] = [procs[p] EXCEPT !.st = st]]
    BY DEF Dies
  <1>3. [procs[p] EXCEPT !.st = st] \in Group
    BY <1>1 DEF Group
  <1>. QED BY <1>1, <1>2, <1>3 DEF TypeOK, NoBirth

(***************************************************************************)
(* A step of thread t that starts nothing, leaves what is tracked alone    *)
(* and takes no generation.  Most actions are such steps.                  *)
(***************************************************************************)
Scalars ==
    /\ phase \in Phase /\ stopping \in BOOLEAN
    /\ startLock \in Caller \cup {Nobody} /\ stopLock \in Thread \cup {Nobody}
    /\ main \in {"serving", "closing", "final", "exiting", "exited"}
    /\ stopEvent \in BOOLEAN /\ calls \in Nat /\ signals \in Nat

Quiet(t) ==
    /\ Scalars' /\ Moved(t) /\ NoBirth
    /\ UNCHANGED <<tracked, gen, frames>>
    /\ phase' = "STOPPED" => phase = "STOPPED"
    /\ stopLock # Nobody => phase' \in {phase, "FAILED"}
    /\ call'[t].pc = "stopped" => call[t].pc = "stopped" \/ phase' = "FAILED"
    /\ call'[t].gen \in {0, call[t].gen} /\ call'[t].proc \in {0, call[t].proc}
    /\ call'[t].pc \in StartPc => startLock' = t
    /\ call'[t].pc \in Inside => call[t].pc \in Inside
    /\ call'[t].pc \in Preparing => call[t].pc \in Preparing /\ call'[t].gen = call[t].gen
    /\ call'[t].pc \in Facing => call[t].pc \in Facing /\ call'[t].proc = call[t].proc
    /\ call'[t].pc = "reap" => ~Alive(call[t].proc)
    /\ \A c \in Caller \ {t} : startLock = c => startLock' = c
    /\ \/ stopLock' = stopLock /\ stopping' = stopping
       \/ call[t].pc \in Inside /\ call'[t].pc \notin Inside /\ stopLock' = Nobody
    /\ t = Main => call'[Main].pc \in {"idle"} \cup StopPc

LEMMA QuietKeeps ==
    ASSUME IInv, NEW t \in Thread, Quiet(t)
    PROVE  IInv'
  <1>. USE BootstrapAssumption DEF IInv
  <1>1. /\ Moved(t) /\ NoBirth
        /\ tracked' = tracked /\ gen' = gen /\ frames' = frames
    BY DEF Quiet
  <1>2. \A u \in Thread : call[u] \in Call /\ call'[u] \in Call
    BY <1>1 DEF TypeOK, Moved
  <1>3. \A i \in DOMAIN frames : frames[i] \in Call
    BY DEF TypeOK
  <1>4. DOMAIN procs' = DOMAIN procs /\ DOMAIN procs = 1 .. Len(procs) /\ Len(procs) \in Nat
    BY <1>1 DEF TypeOK, NoBirth
  <1>5. TypeOK'
    <2>1. \A u \in Thread : call'[u].proc <= Len(procs)
      BY <1>1, <1>4 DEF Quiet, Moved, TypeOK
    <2>. QED BY <2>1, <1>1 DEF TypeOK, Scalars, Quiet, Moved, NoBirth
  <1>6. \A p \in Nat : p <= Len(procs) /\ ~Alive(p) => ~Alive(p)'
    BY <1>1, <1>4 DEF NoBirth, Alive
  <1>7. OneProcess'
    BY <1>1, <1>4, <1>6 DEF OneProcess, TypeOK
  <1>8. StoppedIsGone'
    BY <1>4, <1>6 DEF StoppedIsGone, Quiet
  <1>9. StartsAlone'
    BY <1>1 DEF StartsAlone, Quiet, Moved, Thread
  <1>10. MainStops'
    <2>1. call'[Main].pc \in {"idle"} \cup StopPc
      BY <1>1 DEF MainStops, Quiet, Moved, Thread
    <2>. QED BY <2>1, <1>1 DEF MainStops, NoBirth
  <1>11. StopsAlone'
    BY <1>1 DEF StopsAlone, Quiet, Moved, Thread
  <1>12. StopFaces'
    <2>1. ASSUME NEW i \in DOMAIN frames'
          PROVE  Faces(frames[i])'
      <3>1. frames'[i] = frames[i] /\ frames[i] \in Call /\ Faces(frames[i])
        BY <1>1, <1>3 DEF StopFaces
      <3>2. frames[i].proc <= Len(procs) /\ frames[i].proc \in Nat
        BY <1>1, <3>1 DEF MainStops, Call
      <3>. QED BY <3>1, <3>2, <1>1, <1>6 DEF Faces
    <2>2. ASSUME NEW u \in Thread
          PROVE  Faces(call[u])'
      <3>1. Faces(call[u]) /\ call[u].proc <= Len(procs) /\ call[u].proc \in Nat
        BY <1>2 DEF StopFaces, TypeOK, Call
      <3>2. CASE u # t
        <4>1. call'[u] = call[u]
          BY <3>2, <1>1 DEF Moved
        <4>. QED BY <4>1, <3>1, <1>1, <1>6 DEF Faces
      <3>3. CASE u = t
        BY <3>3, <3>1, <1>1, <1>2, <1>6 DEF Faces, Quiet, Facing
      <3>. QED BY <3>2, <3>3
    <2>. QED BY <2>1, <2>2 DEF StopFaces
  <1>13. Generations'
    <2>1. ASSUME NEW u \in Thread
          PROVE  call'[u].gen <= gen
      <3>1. call[u].gen <= gen /\ 0 <= gen
        BY DEF Generations, TypeOK
      <3>2. call'[u].gen \in {0, call[u].gen}
        BY DEF Quiet, Moved
      <3>. QED BY <3>1, <3>2
    <2>2. ASSUME stopLock' # Nobody
          PROVE  stopping' /\ \A c \in Caller : call'[c].pc \in Preparing => call'[c].gen < gen
      BY <2>2, <1>1 DEF Generations, Quiet, Moved, Thread
    <2>. QED BY <2>1, <2>2, <1>1 DEF Generations
  <1>14. NothingBefore'
    BY <1>1, <1>4, <1>6 DEF NothingBefore, Quiet, Moved, Thread
  <1>15. Settled'
    <2>1. \A u \in Thread : call[u].pc = "stopped" => phase' \in {"STOPPED", "FAILED"}
      BY DEF Settled, StopsAlone, Quiet, Inside, StopPc, Thread
    <2>2. \A i \in DOMAIN frames : frames[i].pc = "stopped" => phase' \in {"STOPPED", "FAILED"}
      BY DEF Settled, StopsAlone, Quiet, Inside, StopPc, Thread
    <2>. QED BY <1>1, <2>1, <2>2 DEF Settled, Quiet, Moved
  <1>. QED BY <1>7, <1>8, <1>9, <1>10, <1>11, <1>12, <1>13, <1>14, <1>5, <1>15

-----------------------------------------------------------------------------
(***************************************************************************)
(* The quiet actions.                                                      *)
(***************************************************************************)
LEMMA StillQuiet ==
    ASSUME IInv, Scalars', NoBirth, phase' \in {phase, "FAILED"},
           UNCHANGED <<gen, stopping, tracked, startLock, stopLock, call, frames>>
    PROVE  Quiet(Main)
  <1>1. Main \in Thread /\ call[Main] \in Call
    BY DEF IInv, TypeOK, Thread
  <1>2. Moved(Main)
    BY DEF IInv, TypeOK, Moved
  <1>3. call[Main].pc \in {"idle"} \cup StopPc
    BY DEF IInv, MainStops
  <1>4. call[Main].pc = "reap" => ~Alive(call[Main].proc)
    BY <1>1 DEF IInv, StopFaces, Faces
  <1>. QED BY <1>2, <1>3, <1>4 DEF Quiet, StartPc, StopPc, Preparing

LEMMA BeginStartQuiet ==
    ASSUME IInv, NEW c \in Caller, BeginStart(c)
    PROVE  Quiet(c)
  <1>. USE BootstrapAssumption DEF IInv
  <1>1. PICK b \in BOOLEAN : call' = [call EXCEPT ![c] = Start(b)]
    BY DEF BeginStart
  <1>2. /\ Start(b) \in Call /\ Start(b).pc = "check"
        /\ Start(b).gen = 0 /\ Start(b).proc = 0
    BY DEF Start, Idle, Call, StartPc, StopPc
  <1>3. c \in Thread /\ Moved(c) /\ call'[c] = Start(b)
    BY <1>1, <1>2, PutMoves DEF Thread
  <1>4. /\ startLock = Nobody /\ startLock' = c /\ calls' = calls + 1
        /\ UNCHANGED <<phase, gen, stopping, tracked, procs, stopLock, main, frames,
                       stopEvent, signals>>
    BY DEF BeginStart, service
  <1>5. Scalars' /\ NoBirth
    BY <1>4 DEF Scalars, NoBirth, TypeOK
  <1>. QED BY <1>2, <1>3, <1>4, <1>5 DEF Quiet, StartPc, StopPc, Inside, Preparing, Facing

LEMMA BeginStopQuiet ==
    ASSUME IInv, NEW c \in Caller, BeginStop(c)
    PROVE  Quiet(c)
  <1>. USE BootstrapAssumption DEF IInv
  <1>1. PICK b \in BOOLEAN : call' = [call EXCEPT ![c] = Stop(b)]
    BY DEF BeginStop
  <1>2. /\ Stop(b) \in Call /\ Stop(b).pc = "stop"
        /\ Stop(b).gen = 0 /\ Stop(b).proc = 0
    BY DEF Stop, Idle, Call, StartPc, StopPc
  <1>3. c \in Thread /\ Moved(c) /\ call'[c] = Stop(b)
    BY <1>1, <1>2, PutMoves DEF Thread
  <1>4. /\ calls' = calls + 1
        /\ UNCHANGED <<phase, gen, stopping, tracked, procs, startLock, stopLock, main,
                       frames, stopEvent, signals>>
    BY DEF BeginStop, service, locks
  <1>5. Scalars' /\ NoBirth
    BY <1>4 DEF Scalars, NoBirth, TypeOK
  <1>. QED BY <1>2, <1>3, <1>4, <1>5 DEF Quiet, StartPc, StopPc, Inside, Preparing, Facing

LEMMA StartInstallQuiet ==
    ASSUME IInv, NEW c \in Caller, StartInstall(c)
    PROVE  Quiet(c)
  <1>. USE BootstrapAssumption DEF IInv
  <1>. c \in Thread
    BY DEF Thread
  <1>1. call[c].pc = "install"
    BY DEF StartInstall
  <1>2. stopLock # Nobody => call[c].gen # gen
    BY <1>1, Numbers DEF Generations, Preparing
  <1>3. /\ Moved(c)
        /\ call[c].pc = "install"
        /\ \/ call'[c].pc = "release" /\ call'[c].gen = 0 /\ call'[c].proc = 0
           \/ call'[c].pc = "build" /\ call'[c].gen = call[c].gen /\ call'[c].proc = call[c].proc
    BY GotoMoves, LeaveMoves DEF StartInstall, Pc, StartPc
  <1>4. /\ phase' = phase \/ (phase' = "INSTALLING" /\ call[c].gen = gen)
        /\ UNCHANGED <<gen, stopping, tracked, procs, startLock, stopLock, main,
                       frames, stopEvent, calls, signals>>
    BY DEF StartInstall, Cancelled, locks, process
  <1>5. Scalars' /\ NoBirth
    BY <1>4 DEF Scalars, NoBirth, TypeOK, Phase
  <1>. QED
    BY <1>2, <1>3, <1>4, <1>5 DEF Quiet, StartPc, StopPc, Inside,
       Preparing, Facing, StartsAlone

LEMMA StartBuildQuiet ==
    ASSUME IInv, NEW c \in Caller, StartBuild(c)
    PROVE  Quiet(c)
  <1>. USE BootstrapAssumption DEF IInv
  <1>. c \in Thread
    BY DEF Thread
  <1>1. /\ Moved(c)
        /\ call[c].pc = "build" /\ call'[c].pc \in {"spawn", "broken"}
        /\ call'[c].gen = call[c].gen /\ call'[c].proc = call[c].proc
    BY GotoMoves DEF StartBuild, Pc, StartPc
  <1>2. /\ UNCHANGED <<phase, gen, stopping, tracked, procs, startLock, stopLock,
                       main, frames, stopEvent, calls, signals>>
    BY DEF StartBuild, service, locks, process
  <1>3. Scalars' /\ NoBirth
    BY <1>2 DEF Scalars, NoBirth, TypeOK, Phase
  <1>. QED
    BY <1>1, <1>2, <1>3 DEF Quiet, StartPc, StopPc, Inside, Preparing,
       Facing, StartsAlone

LEMMA StartBrokenQuiet ==
    ASSUME IInv, NEW c \in Caller, StartBroken(c)
    PROVE  Quiet(c)
  <1>. USE BootstrapAssumption DEF IInv
  <1>. c \in Thread
    BY DEF Thread
  <1>1. /\ Moved(c)
        /\ call[c].pc = "broken" /\ call'[c].pc = "release"
        /\ call'[c].gen = 0 /\ call'[c].proc = 0
    BY LeaveMoves DEF StartBroken, Pc, StartPc
  <1>2. /\ phase' \in {phase, "FAILED"}
        /\ UNCHANGED <<gen, stopping, tracked, procs, startLock, stopLock, main,
                       frames, stopEvent, calls, signals>>
    BY DEF StartBroken, locks, process
  <1>3. Scalars' /\ NoBirth
    BY <1>2 DEF Scalars, NoBirth, TypeOK, Phase
  <1>. QED
    BY <1>1, <1>2, <1>3 DEF Quiet, StartPc, StopPc, Inside, Preparing,
       Facing, StartsAlone

LEMMA StartGraceQuiet ==
    ASSUME IInv, NEW c \in Caller, StartGrace(c)
    PROVE  Quiet(c)
  <1>. USE BootstrapAssumption DEF IInv
  <1>. c \in Thread
    BY DEF Thread
  <1>1. /\ Moved(c)
        /\ call[c].pc = "grace" /\ call'[c].pc = "release"
        /\ call'[c].gen = 0 /\ call'[c].proc = 0
    BY LeaveMoves DEF StartGrace, Pc, StartPc
  <1>2. /\ phase' \in {phase, "FAILED"}
        /\ UNCHANGED <<gen, stopping, tracked, procs, startLock, stopLock, main,
                       frames, stopEvent, calls, signals>>
    BY DEF StartGrace, locks, process
  <1>3. Scalars' /\ NoBirth
    BY <1>2 DEF Scalars, NoBirth, TypeOK, Phase
  <1>. QED
    BY <1>1, <1>2, <1>3 DEF Quiet, StartPc, StopPc, Inside, Preparing,
       Facing, StartsAlone

LEMMA StartReleaseQuiet ==
    ASSUME IInv, NEW c \in Caller, StartRelease(c)
    PROVE  Quiet(c)
  <1>. USE BootstrapAssumption DEF IInv
  <1>. c \in Thread
    BY DEF Thread
  <1>. Idle \in Call /\ Idle.pc = "idle" /\ Idle.gen = 0 /\ Idle.proc = 0
    BY DEF Idle, Call
  <1>1. /\ Moved(c)
        /\ call[c].pc = "release" /\ call'[c].pc = "idle"
        /\ call'[c].gen = 0 /\ call'[c].proc = 0
    BY PutMoves DEF StartRelease
  <1>2. /\ startLock' = Nobody
        /\ UNCHANGED <<phase, gen, stopping, tracked, procs, stopLock, main,
                       frames, stopEvent, calls, signals>>
    BY DEF StartRelease, service, process
  <1>3. Scalars' /\ NoBirth
    BY <1>2 DEF Scalars, NoBirth, TypeOK, Phase
  <1>. QED
    BY <1>1, <1>2, <1>3 DEF Quiet, StartPc, StopPc, Inside, Preparing,
       Facing, StartsAlone

LEMMA AnsweredQuiet ==
    ASSUME IInv, NEW c \in Caller, Answered(c)
    PROVE  Quiet(c)
  <1>. USE BootstrapAssumption DEF IInv
  <1>. c \in Thread
    BY DEF Thread
  <1>. Idle \in Call /\ Idle.pc = "idle" /\ Idle.gen = 0 /\ Idle.proc = 0
    BY DEF Idle, Call
  <1>1. /\ Moved(c)
        /\ call[c].pc = "stopped" /\ call'[c].pc = "idle"
        /\ call'[c].gen = 0 /\ call'[c].proc = 0
    BY PutMoves DEF Answered, StopRelease
  <1>2. /\ stopping' = FALSE /\ stopLock' = Nobody
        /\ UNCHANGED <<phase, gen, tracked, procs, startLock, main, frames,
                       stopEvent, calls, signals>>
    BY DEF Answered, StopRelease
  <1>3. Scalars' /\ NoBirth
    BY <1>2 DEF Scalars, NoBirth, TypeOK, Phase
  <1>. QED
    BY <1>1, <1>2, <1>3 DEF Quiet, StartPc, StopPc, Inside, Preparing,
       Facing

LEMMA FinishedQuiet ==
    ASSUME IInv, Finished
    PROVE  Quiet(Main)
  <1>. USE BootstrapAssumption DEF IInv
  <1>. Main \in Thread
    BY DEF Thread
  <1>. Idle \in Call /\ Idle.pc = "idle" /\ Idle.gen = 0 /\ Idle.proc = 0
    BY DEF Idle, Call
  <1>1. /\ Moved(Main)
        /\ call[Main].pc = "stopped" /\ call'[Main].pc = "idle"
        /\ call'[Main].gen = 0 /\ call'[Main].proc = 0
    BY PutMoves DEF Finished, StopRelease
  <1>2. /\ stopping' = FALSE /\ stopLock' = Nobody /\ main' = "exiting"
        /\ UNCHANGED <<phase, gen, tracked, procs, startLock, frames, stopEvent,
                       calls, signals>>
    BY DEF Finished, StopRelease
  <1>3. Scalars' /\ NoBirth
    BY <1>2 DEF Scalars, NoBirth, TypeOK, Phase
  <1>. QED
    BY <1>1, <1>2, <1>3 DEF Quiet, StartPc, StopPc, Inside, Preparing,
       Facing

LEMMA StopSignalQuiet ==
    ASSUME IInv, NEW t \in Thread, StopSignal(t)
    PROVE  Quiet(t)
  <1>. USE BootstrapAssumption DEF IInv
  <1>. t \in Thread
    BY DEF Thread
  <1>. call[t] \in Call /\ call[t].proc \in Nat /\ call[t].proc <= Len(procs)
    BY DEF TypeOK, Call
  <1>1. /\ Moved(t)
        /\ call[t].pc = "signal" /\ call'[t].pc = "wait"
        /\ call'[t].gen = call[t].gen /\ call'[t].proc = call[t].proc
    BY GotoMoves DEF StopSignal, Pc, StopPc
  <1>2. /\ UNCHANGED <<phase, gen, stopping, tracked, startLock, stopLock, main,
                       frames, stopEvent, calls, signals>>
    BY DEF StopSignal, locks, process
  <1>3. NoBirth
    BY KillNoBirth DEF StopSignal, NoBirth, TypeOK
  <1>4. Scalars'
    BY <1>2 DEF Scalars, TypeOK, Phase
  <1>. QED
    BY <1>1, <1>2, <1>4, <1>3 DEF Quiet, StartPc, StopPc, Inside,
       Preparing, Facing

LEMMA StopKillQuiet ==
    ASSUME IInv, NEW t \in Thread, StopKill(t)
    PROVE  Quiet(t)
  <1>. USE BootstrapAssumption DEF IInv
  <1>. t \in Thread
    BY DEF Thread
  <1>. call[t] \in Call /\ call[t].proc \in Nat /\ call[t].proc <= Len(procs)
    BY DEF TypeOK, Call
  <1>1. /\ Moved(t)
        /\ call[t].pc = "kill" /\ call'[t].pc = "settle"
        /\ call'[t].gen = call[t].gen /\ call'[t].proc = call[t].proc
    BY GotoMoves DEF StopKill, Pc, StopPc
  <1>2. /\ UNCHANGED <<phase, gen, stopping, tracked, startLock, stopLock, main,
                       frames, stopEvent, calls, signals>>
    BY DEF StopKill, locks, process
  <1>3. NoBirth
    BY KillNoBirth DEF StopKill, NoBirth, TypeOK
  <1>4. Scalars'
    BY <1>2 DEF Scalars, TypeOK, Phase
  <1>. QED
    BY <1>1, <1>2, <1>4, <1>3 DEF Quiet, StartPc, StopPc, Inside,
       Preparing, Facing

LEMMA StopWaitQuiet ==
    ASSUME IInv, NEW t \in Thread, StopWait(t)
    PROVE  Quiet(t)
  <1>. USE BootstrapAssumption DEF IInv
  <1>. t \in Thread
    BY DEF Thread
  <1>1. PICK pc \in {"kill", "reap"} :
           call[t].pc = "wait" /\ Goto(t, pc) /\ (pc = "reap" => ~Alive(call[t].proc))
    BY DEF StopWait
  <1>2. Moved(t) /\ call'[t].pc = pc /\ call'[t].gen = call[t].gen /\ call'[t].proc = call[t].proc
    BY <1>1, GotoMoves DEF Pc, StopPc
  <1>3. /\ Moved(t)
        /\ call[t].pc = "wait" /\ call'[t].gen = call[t].gen /\ call'[t].proc = call[t].proc
        /\ call'[t].pc \in {"kill", "reap"}
        /\ call'[t].pc = "reap" => ~Alive(call[t].proc)
    BY <1>1, <1>2
  <1>4. /\ UNCHANGED <<phase, gen, stopping, tracked, procs, startLock, stopLock,
                       main, frames, stopEvent, calls, signals>>
    BY DEF StopWait, service, locks, process
  <1>5. Scalars' /\ NoBirth
    BY <1>4 DEF Scalars, NoBirth, TypeOK, Phase
  <1>. QED
    BY <1>3, <1>4, <1>5 DEF Quiet, StartPc, StopPc, Inside, Preparing,
       Facing

LEMMA StopSettleQuiet ==
    ASSUME IInv, NEW t \in Thread, StopSettle(t)
    PROVE  Quiet(t)
  <1>. USE BootstrapAssumption DEF IInv
  <1>. t \in Thread
    BY DEF Thread
  <1>1. PICK pc \in {"stuck", "reap"} :
           call[t].pc = "settle" /\ Goto(t, pc) /\ (pc = "reap" => ~Alive(call[t].proc))
    BY DEF StopSettle
  <1>2. Moved(t) /\ call'[t].pc = pc /\ call'[t].gen = call[t].gen /\ call'[t].proc = call[t].proc
    BY <1>1, GotoMoves DEF Pc, StopPc
  <1>3. /\ Moved(t)
        /\ call[t].pc = "settle" /\ call'[t].gen = call[t].gen /\ call'[t].proc = call[t].proc
        /\ call'[t].pc \in {"stuck", "reap"}
        /\ call'[t].pc = "reap" => ~Alive(call[t].proc)
    BY <1>1, <1>2
  <1>4. /\ UNCHANGED <<phase, gen, stopping, tracked, procs, startLock, stopLock,
                       main, frames, stopEvent, calls, signals>>
    BY DEF StopSettle, service, locks, process
  <1>5. Scalars' /\ NoBirth
    BY <1>4 DEF Scalars, NoBirth, TypeOK, Phase
  <1>. QED
    BY <1>3, <1>4, <1>5 DEF Quiet, StartPc, StopPc, Inside, Preparing,
       Facing

LEMMA StopStuckQuiet ==
    ASSUME IInv, NEW t \in Thread, StopStuck(t)
    PROVE  Quiet(t)
  <1>. USE BootstrapAssumption DEF IInv
  <1>. t \in Thread
    BY DEF Thread
  <1>1. /\ Moved(t)
        /\ call[t].pc = "stuck" /\ call'[t].pc = "stopped"
        /\ call'[t].gen = 0 /\ call'[t].proc = 0
    BY LeaveMoves DEF StopStuck, Pc, StopPc
  <1>2. /\ phase' = "FAILED"
        /\ UNCHANGED <<gen, stopping, tracked, procs, startLock, stopLock, main,
                       frames, stopEvent, calls, signals>>
    BY DEF StopStuck, locks, process
  <1>3. Scalars' /\ NoBirth
    BY <1>2 DEF Scalars, NoBirth, TypeOK, Phase
  <1>. QED
    BY <1>1, <1>2, <1>3 DEF Quiet, StartPc, StopPc, Inside, Preparing,
       Facing

LEMMA DrainQuiet ==
    ASSUME IInv, Drain
    PROVE  Quiet(Main)
  <1>1. /\ main' = "closing"
        /\ UNCHANGED call
        /\ UNCHANGED <<phase, gen, stopping, tracked, procs, startLock, stopLock,
                       frames, stopEvent, calls, signals>>
    BY DEF Drain, service, locks
  <1>2. Scalars' /\ NoBirth
    BY <1>1 DEF IInv, TypeOK, Scalars, NoBirth, Phase
  <1>. QED BY <1>1, <1>2, StillQuiet

LEMMA ExitQuiet ==
    ASSUME IInv, Exit
    PROVE  Quiet(Main)
  <1>1. /\ main' = "exited"
        /\ UNCHANGED call
        /\ UNCHANGED <<phase, gen, stopping, tracked, procs, startLock, stopLock,
                       frames, stopEvent, calls, signals>>
    BY DEF Exit, service, locks
  <1>2. Scalars' /\ NoBirth
    BY <1>1 DEF IInv, TypeOK, Scalars, NoBirth, Phase
  <1>. QED BY <1>1, <1>2, StillQuiet

LEMMA StatusQuiet ==
    ASSUME IInv, Status
    PROVE  Quiet(Main)
  <1>1. /\ phase' \in {phase, "FAILED"}
        /\ UNCHANGED call
        /\ UNCHANGED <<gen, stopping, tracked, procs, startLock, stopLock, main,
                       frames, stopEvent, calls, signals>>
    BY DEF Status, Refreshed, locks, process
  <1>2. Scalars' /\ NoBirth
    BY <1>1 DEF IInv, TypeOK, Scalars, NoBirth, Phase
  <1>. QED BY <1>1, <1>2, StillQuiet

LEMMA CloseQuiet ==
    ASSUME IInv, Close
    PROVE  Quiet(Main)
  <1>. USE BootstrapAssumption DEF IInv
  <1>. Main \in Thread
    BY DEF Thread
  <1>1. /\ main' \in {"exiting", "final"}
        /\ UNCHANGED <<phase, gen, stopping, tracked, procs, startLock, stopLock,
                       frames, stopEvent, calls, signals>>
    BY DEF Close, service, locks
  <1>2. Scalars' /\ NoBirth
    BY <1>1 DEF Scalars, NoBirth, TypeOK
  <1>3. CASE UNCHANGED call
    BY <1>1, <1>2, <1>3, StillQuiet
  <1>4. CASE call' = [call EXCEPT ![Main] = Stop(FALSE)]
    <2>1. /\ Stop(FALSE) \in Call /\ Stop(FALSE).pc = "stop"
          /\ Stop(FALSE).gen = 0 /\ Stop(FALSE).proc = 0
      BY DEF Stop, Idle, Call, StartPc, StopPc
    <2>2. Moved(Main) /\ call'[Main] = Stop(FALSE)
      BY <1>4, <2>1, PutMoves
    <2>. QED BY <1>1, <1>2, <2>1, <2>2
             DEF Quiet, StartPc, StopPc, Inside, Preparing, Facing
  <1>. QED BY <1>3, <1>4 DEF Close

LEMMA DiesQuiet ==
    ASSUME IInv, NEW p \in DOMAIN procs, LeaderExits(p) \/ GroupEnds(p)
    PROVE  Quiet(Main)
  <1>1. PICK st \in {"orphans", "gone"} : Dies(p, st) /\ procs[p].st # "gone"
    BY DEF LeaderExits, GroupEnds
  <1>2. NoBirth
    BY <1>1, DiesNoBirth DEF IInv
  <1>3. /\ UNCHANGED call
        /\ UNCHANGED <<phase, gen, stopping, tracked, startLock, stopLock, main,
                       frames, stopEvent, calls, signals>>
    BY <1>1 DEF Dies, locks, process
  <1>4. Scalars'
    BY <1>3 DEF IInv, TypeOK, Scalars
  <1>. QED BY <1>2, <1>3, <1>4, StillQuiet

-----------------------------------------------------------------------------
(***************************************************************************)
(* The other actions, one step per conjunct that they can disturb.         *)
(***************************************************************************)
LEMMA StartCheckKeeps ==
    ASSUME IInv, NEW c \in Caller, StartCheck(c)
    PROVE  IInv'
  <1>. USE BootstrapAssumption DEF IInv
  <1>. c \in Thread /\ c # Main
    BY DEF Thread
  <1>1. UNCHANGED <<stopping, tracked, procs, startLock, stopLock, main, frames,
                    stopEvent, calls, signals>>
    BY DEF StartCheck, locks, process
  <1>2. CASE Refused
    <2>1. call[c].pc = "check" /\ Leave(c, "release") /\ gen' = gen /\ phase' \in {phase, "FAILED"}
      BY <1>2 DEF StartCheck, Refreshed
    <2>2. Moved(c) /\ call'[c].pc = "release" /\ call'[c].gen = 0 /\ call'[c].proc = 0
      BY <2>1, LeaveMoves DEF Pc, StartPc
    <2>3. Scalars' /\ NoBirth
      BY <1>1, <2>1 DEF Scalars, NoBirth, TypeOK, Phase
    <2>4. Quiet(c)
      BY <1>1, <2>1, <2>2, <2>3
         DEF Quiet, StartPc, StopPc, Inside, Preparing, Facing, StartsAlone
    <2>. QED BY <2>4, QuietKeeps
  <1>3. CASE ~Refused
    <2>1. /\ call[c].pc = "check" /\ ~stopping /\ ~Alive(tracked)
          /\ gen' = gen + 1 /\ phase' \in {"INSTALLING", "STARTING"}
          /\ \E pc \in {"install", "build"} :
                call' = [call EXCEPT ![c].pc = pc, ![c].gen = gen + 1]
      BY <1>3 DEF StartCheck, Refused
    <2>2. /\ Moved(c) /\ call'[c].pc \in {"install", "build"}
          /\ call'[c].gen = gen + 1 /\ call'[c].proc = call[c].proc
      <3>1. PICK pc \in {"install", "build"} :
               call' = [call EXCEPT ![c].pc = pc, ![c].gen = gen + 1]
        BY <2>1
      <3>2. DEFINE x == [call[c] EXCEPT !.pc = pc, !.gen = gen + 1]
      <3>3. call[c] \in Call /\ gen + 1 \in Nat
        BY DEF TypeOK
      <3>4. x \in Call /\ x.pc = pc /\ x.gen = gen + 1 /\ x.proc = call[c].proc
        BY <3>3 DEF Call, StartPc
      <3>5. call' = [call EXCEPT ![c] = x]
        BY <3>1
      <3>. QED BY <3>4, <3>5, PutMoves
    <2>3. DOMAIN procs = 1 .. Len(procs) /\ \A p \in DOMAIN procs : ~Alive(p)
      BY <2>1 DEF OneProcess, TypeOK
    <2>4. TypeOK'
      BY <1>1, <2>1, <2>2 DEF TypeOK, Phase, Moved
    <2>5. stopLock = Nobody
      BY <2>1 DEF Generations
    <2>6. OneProcess' /\ StoppedIsGone'
      BY <1>1, <2>1 DEF OneProcess, StoppedIsGone, Alive
    <2>7. StartsAlone'
      BY <1>1, <2>1, <2>2 DEF StartsAlone, Moved, Thread, StartPc
    <2>8. MainStops'
      BY <1>1, <2>2 DEF MainStops, Moved, Thread
    <2>9. StopsAlone'
      BY <1>1, <2>2 DEF StopsAlone, Moved, Inside, StopPc, Thread
    <2>10. StopFaces'
      BY <1>1, <2>2 DEF StopFaces, Faces, Facing, Alive, Moved
    <2>11. Generations'
      <3>1. ASSUME NEW u \in Thread
            PROVE  call'[u].gen <= gen + 1
        <4>1. call[u].gen <= gen /\ call[u].gen \in Nat /\ gen \in Nat
          BY Numbers DEF Generations
        <4>2. call'[u].gen \in {gen + 1, call[u].gen}
          BY <2>2 DEF Moved
        <4>. QED BY <4>1, <4>2
      <3>2. ASSUME NEW i \in DOMAIN frames
            PROVE  frames[i].gen <= gen + 1
        <4>1. frames[i].gen <= gen /\ frames[i].gen \in Nat /\ gen \in Nat
          BY Numbers DEF Generations
        <4>. QED BY <4>1
      <3>. QED BY <1>1, <2>1, <2>5, <3>1, <3>2 DEF Generations
    <2>12. NothingBefore'
      BY <1>1, <2>3 DEF NothingBefore, Alive
    <2>13. Settled'
      BY <1>1, <2>2, <2>5 DEF Settled, StopsAlone, Moved, Inside, StopPc, Thread
    <2>. QED BY <2>4, <2>6, <2>7, <2>8, <2>9, <2>10, <2>11, <2>12, <2>13
  <1>. QED BY <1>2, <1>3

LEMMA StartSpawnKeeps ==
    ASSUME IInv, NEW c \in Caller, StartSpawn(c)
    PROVE  IInv'
  <1>. USE BootstrapAssumption DEF IInv
  <1>. c \in Thread /\ c # Main
    BY DEF Thread
  <1>1. /\ call[c].pc = "spawn"
        /\ UNCHANGED <<gen, stopping, startLock, stopLock, main, frames, stopEvent, calls,
                       signals>>
    BY DEF StartSpawn, locks, process
  <1>2. CASE Leave(c, "release") /\ phase' \in {phase, "FAILED"} /\ UNCHANGED <<tracked, procs>>
    <2>1. Moved(c) /\ call'[c].pc = "release" /\ call'[c].gen = 0 /\ call'[c].proc = 0
      BY <1>2, LeaveMoves DEF Pc, StartPc
    <2>2. Scalars' /\ NoBirth
      BY <1>1, <1>2 DEF Scalars, NoBirth, TypeOK, Phase
    <2>3. Quiet(c)
      BY <1>1, <1>2, <2>1, <2>2
         DEF Quiet, StartPc, StopPc, Inside, Preparing, Facing, StartsAlone
    <2>. QED BY <2>3, QuietKeeps
  <1>3. CASE /\ ~Cancelled(c)
             /\ procs' = Append(procs, [st |-> "up", killed |-> FALSE])
             /\ tracked' = Len(procs) + 1
             /\ phase' = "RUNNING"
             /\ call' = [call EXCEPT ![c].pc = "grace", ![c].proc = Len(procs) + 1]
    <2>1. /\ procs' \in Seq(Group) /\ Len(procs) \in Nat /\ Len(procs') = Len(procs) + 1
          /\ \A q \in 1 .. Len(procs) : procs'[q] = procs[q]
      <3>1. [st |-> "up", killed |-> FALSE] \in Group
        BY DEF Group
      <3>. QED BY <1>3, <3>1 DEF TypeOK
    <2>2. /\ Moved(c) /\ call'[c].pc = "grace"
          /\ call'[c].gen = call[c].gen /\ call'[c].proc = Len(procs) + 1
      <3>1. DEFINE x == [call[c] EXCEPT !.pc = "grace", !.proc = Len(procs) + 1]
      <3>2. call[c] \in Call /\ Len(procs) + 1 \in Nat
        BY <2>1 DEF TypeOK
      <3>3. x \in Call /\ x.pc = "grace" /\ x.gen = call[c].gen /\ x.proc = Len(procs) + 1
        BY <3>2 DEF Call, StartPc
      <3>4. call' = [call EXCEPT ![c] = x]
        BY <1>3
      <3>. QED BY <3>3, <3>4, PutMoves
    <2>3. \A q \in 1 .. Len(procs) : ~Alive(q) /\ ~Alive(q)'
      <3>1. \A q \in DOMAIN procs : ~Alive(q)
        BY <1>1, <1>3 DEF NothingBefore, Cancelled, Preparing
      <3>. QED BY <3>1, <2>1 DEF Alive, TypeOK
    <2>4. TypeOK'
      <3>1. ASSUME NEW u \in Thread
            PROVE  call'[u].proc <= Len(procs')
        <4>1. call[u].proc <= Len(procs) /\ call[u].proc \in Nat
          BY Numbers DEF TypeOK
        <4>2. call'[u].proc \in {Len(procs) + 1, call[u].proc}
          BY <2>2 DEF Moved
        <4>. QED BY <2>1, <4>1, <4>2
      <3>. QED BY <1>1, <1>3, <2>1, <2>2, <3>1 DEF TypeOK, Phase, Moved
    <2>5. OneProcess'
      <3>1. DOMAIN procs' = 1 .. Len(procs) + 1
        BY <2>1
      <3>2. \A q \in 1 .. Len(procs) + 1 : q \in 1 .. Len(procs) \/ q = Len(procs) + 1
        BY <2>1
      <3>. QED BY <1>3, <2>3, <3>1, <3>2 DEF OneProcess
    <2>6. StoppedIsGone'
      BY <1>3 DEF StoppedIsGone
    <2>7. StartsAlone'
      BY <1>1, <2>2 DEF StartsAlone, Moved, Thread, StartPc
    <2>8. MainStops'
      <3>1. ASSUME NEW i \in DOMAIN frames
            PROVE  frames[i].proc <= Len(procs')
        <4>1. frames[i].proc <= Len(procs) /\ frames[i].proc \in Nat
          BY Numbers DEF MainStops
        <4>. QED BY <2>1, <4>1
      <3>2. call'[Main] = call[Main]
        BY <2>2 DEF Moved, Thread
      <3>. QED BY <1>1, <3>1, <3>2 DEF MainStops
    <2>9. StopsAlone'
      BY <1>1, <2>2 DEF StopsAlone, Moved, Inside, StopPc, Thread
    <2>10. stopLock = Nobody
      BY <1>1, <1>3 DEF Generations, Preparing, Cancelled, TypeOK
    <2>11. StopFaces'
      <3>1. ASSUME NEW u \in Thread
            PROVE  call'[u].pc \notin Facing
        <4>1. call[u].pc \notin Inside
          BY <2>10 DEF StopsAlone, Thread
        <4>. QED BY <2>2, <4>1 DEF Moved, Inside, Facing, StopPc
      <3>2. \A i \in DOMAIN frames : frames[i].pc \notin Facing
        BY <2>10 DEF StopsAlone, Inside, Facing, StopPc, Thread
      <3>. QED BY <1>1, <3>1, <3>2 DEF StopFaces, Faces, Facing
    <2>12. Generations'
      BY <1>1, <2>2, <2>10 DEF Generations, Moved
    <2>13. NothingBefore'
      <3>1. \A d \in Caller : call'[d].pc \notin Preparing
        BY <1>1, <2>2 DEF StartsAlone, Moved, Preparing, StartPc, Thread
      <3>. QED BY <3>1 DEF NothingBefore
    <2>14. Settled'
      BY <1>1, <2>2, <2>10 DEF Settled, StopsAlone, Moved, Inside, StopPc, Thread
    <2>. QED BY <2>4, <2>5, <2>6, <2>7, <2>8, <2>9, <2>11, <2>12, <2>13, <2>14
  <1>. QED BY <1>2, <1>3 DEF StartSpawn

LEMMA StopAcquireKeeps ==
    ASSUME IInv, NEW t \in Thread, StopAcquire(t)
    PROVE  IInv'
  <1>. USE BootstrapAssumption DEF IInv
  <1>1. /\ call[t].pc = "stop" /\ stopLock = Nobody /\ stopLock' = t
        /\ gen' = gen + 1 /\ stopping' = TRUE
        /\ UNCHANGED <<phase, tracked, procs, startLock, main, frames, stopEvent, calls,
                       signals>>
    BY DEF StopAcquire, process
  <1>2. /\ Moved(t) /\ call'[t].pc = "halt"
        /\ call'[t].gen = call[t].gen /\ call'[t].proc = call[t].proc
    BY GotoMoves DEF StopAcquire, Pc, StopPc
  <1>3. TypeOK'
    BY <1>1, <1>2 DEF TypeOK, Moved
  <1>4. OneProcess' /\ StoppedIsGone'
    BY <1>1 DEF OneProcess, StoppedIsGone, Alive
  <1>5. StartsAlone'
    BY <1>1, <1>2 DEF StartsAlone, Moved, Thread, StartPc
  <1>6. MainStops'
    BY <1>1, <1>2 DEF MainStops, Moved, Thread, StopPc
  <1>7. StopsAlone'
    <2>1. \A u \in Thread : call[u].pc \notin Inside
      BY <1>1 DEF StopsAlone, Thread
    <2>2. \A i \in DOMAIN frames : frames[i].pc \notin Inside
      BY <1>1 DEF StopsAlone, Thread
    <2>. QED BY <1>1, <1>2, <2>1, <2>2 DEF StopsAlone, Moved
  <1>8. StopFaces'
    BY <1>1, <1>2 DEF StopFaces, Faces, Facing, Alive, Moved
  <1>9. ASSUME NEW u \in Thread
         PROVE  call'[u].gen <= gen + 1 /\ call'[u].gen < gen + 1 /\ call'[u].gen # gen + 1
    <2>1. call[u].gen <= gen /\ call[u].gen \in Nat /\ gen \in Nat
      BY Numbers DEF Generations
    <2>2. call'[u].gen = call[u].gen
      BY <1>2 DEF Moved
    <2>. QED BY <2>1, <2>2
  <1>10. Generations'
    <2>1. ASSUME NEW u \in Thread
          PROVE  call'[u].gen <= gen + 1 /\ call'[u].gen < gen + 1
      BY <1>9
    <2>2. ASSUME NEW i \in DOMAIN frames
          PROVE  frames[i].gen <= gen + 1
      <3>1. frames[i].gen <= gen /\ frames[i].gen \in Nat /\ gen \in Nat
        BY Numbers DEF Generations
      <3>. QED BY <3>1
    <2>. QED BY <1>1, <2>1, <2>2 DEF Generations, Thread
  <1>11. NothingBefore'
    BY <1>1, <1>9 DEF NothingBefore, Thread
  <1>12. Settled'
    BY <1>1, <1>2 DEF Settled, Moved
  <1>. QED BY <1>3, <1>4, <1>5, <1>6, <1>7, <1>8, <1>10, <1>11, <1>12

LEMMA AloneInside ==
    ASSUME IInv, NEW t \in Thread, call[t].pc \in Inside
    PROVE  /\ stopLock = t
           /\ \A u \in Thread \ {t} : call[u].pc \notin Inside
           /\ \A i \in DOMAIN frames : frames[i].pc \notin Inside
  BY DEF IInv, StopsAlone, Thread

\* A stop that finds or has made an end of the tracked group.
LEMMA StoppedKeeps ==
    ASSUME IInv, NEW t \in Thread, call[t].pc \in Inside, ~Alive(tracked),
           tracked' = 0, phase' = "STOPPED", Leave(t, "stopped"),
           UNCHANGED <<gen, stopping, procs, startLock, stopLock, main, frames, stopEvent,
                       calls, signals>>
    PROVE  IInv'
  <1>. USE BootstrapAssumption DEF IInv
  <1>1. Moved(t) /\ call'[t].pc = "stopped" /\ call'[t].gen = 0 /\ call'[t].proc = 0
    BY LeaveMoves DEF Pc, StopPc
  <1>2. /\ stopLock = t
        /\ \A u \in Thread \ {t} : call[u].pc \notin Inside
        /\ \A i \in DOMAIN frames : frames[i].pc \notin Inside
    BY AloneInside
  <1>3. TypeOK'
    <2>1. \A u \in Thread : call'[u].proc <= Len(procs)
      BY <1>1 DEF TypeOK, Moved
    <2>. QED BY <1>1, <2>1 DEF TypeOK, Phase, Moved
  <1>4. \A p \in DOMAIN procs : ~Alive(p)
    BY DEF OneProcess
  <1>5. OneProcess' /\ StoppedIsGone'
    BY <1>4 DEF OneProcess, StoppedIsGone, Alive
  <1>6. StartsAlone'
    BY <1>1 DEF StartsAlone, Moved, Thread, StartPc
  <1>7. MainStops'
    BY <1>1 DEF MainStops, Moved, Thread, StopPc
  <1>8. StopsAlone'
    BY <1>1, <1>2 DEF StopsAlone, Moved
  <1>9. StopFaces'
    <2>1. \A u \in Thread : call'[u].pc \notin Facing
      BY <1>1, <1>2 DEF Moved, Inside, Facing, StopPc
    <2>2. \A i \in DOMAIN frames : frames[i].pc \notin Facing
      BY <1>2 DEF Inside, Facing, StopPc
    <2>. QED BY <2>1, <2>2 DEF StopFaces, Faces, Facing
  <1>10. Generations'
    <2>1. \A u \in Thread : call'[u].gen <= gen
      BY <1>1, Numbers DEF Generations, Moved
    <2>. QED BY <1>1, <2>1 DEF Generations, Moved, Preparing, Thread
  <1>11. NothingBefore'
    BY <1>4 DEF NothingBefore, Alive
  <1>12. Settled'
    BY DEF Settled
  <1>. QED BY <1>3, <1>5, <1>6, <1>7, <1>8, <1>9, <1>10, <1>11, <1>12

LEMMA StopHaltKeeps ==
    ASSUME IInv, NEW t \in Thread, StopHalt(t)
    PROVE  IInv'
  <1>. USE BootstrapAssumption DEF IInv
  <1>1. /\ call[t].pc = "halt" /\ call[t].pc \in Inside
        /\ UNCHANGED <<gen, stopping, procs, startLock, stopLock, main, frames, stopEvent,
                       calls, signals>>
    BY DEF StopHalt, locks, process, Inside, StopPc
  <1>2. CASE ~Alive(tracked)
    BY <1>1, <1>2, StoppedKeeps DEF StopHalt
  <1>3. CASE Alive(tracked)
    <2>1. /\ tracked' = tracked /\ phase' = "STOPPING"
          /\ call' = [call EXCEPT ![t].pc = "signal", ![t].proc = tracked]
      BY <1>3 DEF StopHalt
    <2>2. /\ Moved(t) /\ call'[t].pc = "signal"
          /\ call'[t].gen = call[t].gen /\ call'[t].proc = tracked
      <3>1. DEFINE x == [call[t] EXCEPT !.pc = "signal", !.proc = tracked]
      <3>2. call[t] \in Call /\ tracked \in Nat
        BY DEF TypeOK
      <3>3. x \in Call /\ x.pc = "signal" /\ x.gen = call[t].gen /\ x.proc = tracked
        BY <3>2 DEF Call, StopPc
      <3>4. call' = [call EXCEPT ![t] = x]
        BY <2>1
      <3>. QED BY <3>3, <3>4, PutMoves
    <2>3. /\ stopLock = t
          /\ \A u \in Thread \ {t} : call[u].pc \notin Inside
          /\ \A i \in DOMAIN frames : frames[i].pc \notin Inside
      BY <1>1, AloneInside
    <2>4. TypeOK'
      <3>1. \A u \in Thread : call'[u].proc <= Len(procs)
        BY <2>2 DEF TypeOK, Moved
      <3>. QED BY <1>1, <2>1, <2>2, <3>1 DEF TypeOK, Phase, Moved
    <2>5. OneProcess' /\ StoppedIsGone'
      BY <1>1, <2>1 DEF OneProcess, StoppedIsGone, Alive
    <2>6. StartsAlone'
      BY <1>1, <2>2 DEF StartsAlone, Moved, Thread, StartPc
    <2>7. MainStops'
      BY <1>1, <2>2 DEF MainStops, Moved, Thread, StopPc
    <2>8. StopsAlone'
      BY <1>1, <2>2, <2>3 DEF StopsAlone, Moved
    <2>9. StopFaces'
      <3>1. ASSUME NEW u \in Thread
            PROVE  /\ call'[u].pc \in Facing => call'[u].proc = tracked
                   /\ call'[u].pc # "reap"
        BY <2>2, <2>3 DEF Moved, Inside, Facing, StopPc
      <3>2. \A i \in DOMAIN frames : frames[i].pc \notin Facing
        BY <2>3 DEF Inside, Facing, StopPc
      <3>. QED BY <1>1, <2>1, <3>1, <3>2 DEF StopFaces, Faces, Facing
    <2>10. Generations'
      BY <1>1, <2>2 DEF Generations, Moved, Preparing, Thread
    <2>11. NothingBefore'
      BY <1>1, <2>2 DEF NothingBefore, Alive, Moved, Preparing, Thread
    <2>12. Settled'
      BY <1>1, <2>2, <2>3 DEF Settled, Moved, Inside, StopPc
    <2>. QED BY <2>4, <2>5, <2>6, <2>7, <2>8, <2>9, <2>10, <2>11, <2>12
  <1>. QED BY <1>2, <1>3

LEMMA StopReapKeeps ==
    ASSUME IInv, NEW t \in Thread, StopReap(t)
    PROVE  IInv'
  <1>1. call[t].pc = "reap" /\ call[t].pc \in Inside
    BY DEF StopReap, Inside, StopPc
  <1>2. ~Alive(tracked)
    BY <1>1 DEF IInv, StopFaces, Faces, Facing
  <1>3. /\ tracked' = 0 /\ phase' = "STOPPED" /\ Leave(t, "stopped")
        /\ UNCHANGED <<gen, stopping, procs, startLock, stopLock, main, frames, stopEvent,
                       calls, signals>>
    BY DEF StopReap, locks, process
  <1>. QED BY <1>1, <1>2, <1>3, StoppedKeeps

\* A handler suspends the main thread wherever it is.
LEMMA SignalKeeps ==
    ASSUME IInv, Signal
    PROVE  IInv'
  <1>. USE BootstrapAssumption DEF IInv
  <1>. Main \in Thread
    BY DEF Thread
  <1>1. /\ calls' = calls + 1 /\ signals' = signals + 1
        /\ UNCHANGED <<phase, gen, stopping, tracked, procs, startLock, stopLock, main,
                       stopEvent>>
    BY DEF Signal, service, locks
  <1>2. /\ Moved(Main) /\ call'[Main].pc = "stop"
        /\ call'[Main].gen = 0 /\ call'[Main].proc = 0
    <2>1. /\ Stop(FALSE) \in Call /\ Stop(FALSE).pc = "stop"
          /\ Stop(FALSE).gen = 0 /\ Stop(FALSE).proc = 0
      BY DEF Stop, Idle, Call, StartPc, StopPc
    <2>. QED BY <2>1, PutMoves DEF Signal
  <1>3. /\ frames' \in Seq(Call) /\ Len(frames) \in Nat
        /\ DOMAIN frames' = 1 .. Len(frames) + 1 /\ DOMAIN frames = 1 .. Len(frames)
        /\ \A i \in DOMAIN frames : frames'[i] = frames[i]
        /\ frames'[Len(frames) + 1] = call[Main]
    <2>1. call[Main] \in Call /\ frames \in Seq(Call) /\ frames' = Append(frames, call[Main])
      BY DEF TypeOK, Signal
    <2>. QED BY <2>1
  <1>4. \A i \in DOMAIN frames' : i \in DOMAIN frames \/ frames'[i] = call[Main]
    BY <1>3
  <1>5. TypeOK'
    <2>1. \A u \in Thread : call'[u].proc <= Len(procs)
      BY <1>2 DEF TypeOK, Moved
    <2>2. calls' \in Nat /\ signals' \in Nat
      BY <1>1 DEF TypeOK
    <2>. QED BY <1>1, <1>2, <1>3, <2>1, <2>2 DEF TypeOK, Moved
  <1>6. OneProcess' /\ StoppedIsGone'
    BY <1>1 DEF OneProcess, StoppedIsGone, Alive
  <1>7. StartsAlone'
    BY <1>1, <1>2 DEF StartsAlone, Moved, Thread
  <1>8. MainStops'
    <2>1. call'[Main].pc \in {"idle"} \cup StopPc
      BY <1>2 DEF StopPc
    <2>2. call[Main].proc <= Len(procs)
      BY DEF TypeOK
    <2>. QED BY <1>1, <1>3, <1>4, <2>1, <2>2 DEF MainStops
  <1>9. StopsAlone'
    <2>1. \A u \in Thread : call'[u].pc \in Inside => stopLock = u
      BY <1>2 DEF StopsAlone, Moved, Inside
    <2>2. call[Main].pc \in Inside =>
             stopLock = Main /\ \A i \in DOMAIN frames : frames[i].pc \notin Inside
      BY AloneInside
    <2>3. \A i \in DOMAIN frames' : frames'[i].pc \in Inside => stopLock = Main
      BY <1>3, <1>4, <2>2 DEF StopsAlone
    <2>4. ASSUME NEW i \in DOMAIN frames', NEW j \in DOMAIN frames',
                 frames'[i].pc \in Inside, frames'[j].pc \in Inside
          PROVE  i = j
      <3>1. CASE call[Main].pc \in Inside
        BY <3>1, <2>2, <2>4, <1>3
      <3>2. CASE call[Main].pc \notin Inside
        BY <3>2, <2>4, <1>3, <1>4 DEF StopsAlone
      <3>. QED BY <3>1, <3>2
    <2>5. call'[Main].pc \notin Inside
      BY <1>2 DEF Inside
    <2>. QED BY <1>1, <2>1, <2>3, <2>4, <2>5 DEF StopsAlone
  <1>10. StopFaces'
    <2>2. ASSUME NEW u \in Thread
          PROVE  /\ call'[u].pc \in Facing => call'[u].proc = tracked
                 /\ call'[u].pc = "reap" => ~Alive(call'[u].proc)
      BY <1>2 DEF StopFaces, Faces, Moved, Facing
    <2>3. ASSUME NEW i \in DOMAIN frames'
          PROVE  /\ frames'[i].pc \in Facing => frames'[i].proc = tracked
                 /\ frames'[i].pc = "reap" => ~Alive(frames'[i].proc)
      BY <1>3, <1>4 DEF StopFaces, Faces
    <2>. QED BY <1>1, <2>2, <2>3 DEF StopFaces, Faces, Alive
  <1>11. Generations'
    <2>1. \A u \in Thread : call'[u].gen <= gen
      BY <1>2, Numbers DEF Generations, Moved
    <2>2. \A i \in DOMAIN frames' : frames'[i].gen <= gen
      BY <1>3, <1>4 DEF Generations
    <2>. QED BY <1>1, <1>2, <2>1, <2>2 DEF Generations, Moved, Thread
  <1>12. NothingBefore'
    BY <1>1, <1>2 DEF NothingBefore, Alive, Moved, Thread
  <1>13. Settled'
    BY <1>1, <1>2, <1>3, <1>4 DEF Settled, Moved
  <1>. QED BY <1>5, <1>6, <1>7, <1>8, <1>9, <1>10, <1>11, <1>12, <1>13

\* The handler returns and the main thread resumes what it was doing.
LEMMA HandledKeeps ==
    ASSUME IInv, Handled
    PROVE  IInv'
  <1>. USE BootstrapAssumption DEF IInv
  <1>. Main \in Thread
    BY DEF Thread
  <1>1. /\ call[Main].pc = "stopped" /\ stopping' = FALSE /\ stopLock' = Nobody
        /\ stopEvent' = TRUE
        /\ UNCHANGED <<phase, gen, tracked, procs, startLock, main, calls, signals>>
    BY DEF Handled, StopRelease
  <1>2. /\ frames \in Seq(Call) /\ Len(frames) \in Nat /\ Len(frames) > 0
        /\ DOMAIN frames = 1 .. Len(frames) /\ Len(frames) \in DOMAIN frames
        /\ frames[Len(frames)] \in Call
    <2>1. frames \in Seq(Call) /\ frames # <<>>
      BY DEF Handled, TypeOK
    <2>. QED BY <2>1
  <1>3. Moved(Main) /\ call'[Main] = frames[Len(frames)]
    BY <1>2, PutMoves DEF Handled
  <1>4. /\ frames' \in Seq(Call) /\ DOMAIN frames' \subseteq DOMAIN frames
        /\ \A i \in DOMAIN frames' : frames'[i] = frames[i]
    BY <1>2 DEF Handled
  <1>5. /\ \A u \in Thread \ {Main} : call[u].pc \notin Inside
        /\ \A i \in DOMAIN frames : frames[i].pc \notin Inside
    BY <1>1, AloneInside DEF Inside, StopPc
  <1>6. /\ \A u \in Thread : call'[u].pc \notin Inside
        /\ \A i \in DOMAIN frames' : frames'[i].pc \notin Inside
    BY <1>2, <1>3, <1>4, <1>5 DEF Moved
  <1>7. TypeOK'
    <2>1. \A u \in Thread : call'[u].proc <= Len(procs)
      BY <1>2, <1>3 DEF TypeOK, Moved, MainStops
    <2>. QED BY <1>1, <1>3, <1>4, <2>1 DEF TypeOK, Moved
  <1>8. OneProcess' /\ StoppedIsGone'
    BY <1>1 DEF OneProcess, StoppedIsGone, Alive
  <1>9. StartsAlone'
    BY <1>1, <1>3 DEF StartsAlone, Moved, Thread
  <1>10. MainStops'
    BY <1>1, <1>2, <1>3, <1>4 DEF MainStops
  <1>11. StopsAlone'
    BY <1>6 DEF StopsAlone
  <1>12. StopFaces'
    BY <1>6 DEF StopFaces, Faces, Inside, Facing, StopPc
  <1>13. Generations'
    <2>1. \A u \in Thread : call'[u].gen <= gen
      BY <1>2, <1>3 DEF Generations, Moved
    <2>. QED BY <1>1, <1>4, <2>1 DEF Generations
  <1>14. NothingBefore'
    BY <1>1, <1>3 DEF NothingBefore, Alive, Moved, Thread
  <1>15. Settled'
    BY <1>6 DEF Settled, Inside, StopPc
  <1>. QED BY <1>7, <1>8, <1>9, <1>10, <1>11, <1>12, <1>13, <1>14, <1>15

-----------------------------------------------------------------------------
LEMMA InitIInv == Init => IInv
  <1>. SUFFICES ASSUME Init PROVE IInv
    OBVIOUS
  <1>. USE BootstrapAssumption DEF Init
  <1>1. Idle \in Call /\ Idle.pc = "idle" /\ Idle.gen = 0 /\ Idle.proc = 0
    BY DEF Idle, Call
  <1>2. frames \in Seq(Call) /\ procs \in Seq(Group) /\ Len(procs) = 0 /\ Len(frames) = 0
    OBVIOUS
  <1>3. \A t \in Thread : call[t] = Idle
    OBVIOUS
  <1>4. TypeOK
    <2>1. call \in [Thread -> Call] /\ \A t \in Thread : call[t].proc <= Len(procs)
      BY <1>1, <1>2
    <2>2. tracked \in Nat /\ tracked <= Len(procs)
      BY <1>2
    <2>. QED BY <1>2, <2>1, <2>2 DEF TypeOK, Phase
  <1>5. OneProcess /\ StoppedIsGone /\ NothingBefore
    BY <1>2 DEF OneProcess, StoppedIsGone, NothingBefore
  <1>6. StartsAlone /\ MainStops /\ StopsAlone /\ StopFaces
    BY <1>1, <1>2, <1>3
       DEF StartsAlone, MainStops, StopsAlone, StopFaces, Faces, Facing, Inside, StartPc,
           StopPc, Thread
  <1>7. Generations
    BY <1>1, <1>2, <1>3 DEF Generations
  <1>8. Settled
    BY <1>1, <1>2, <1>3 DEF Settled
  <1>. QED BY <1>4, <1>5, <1>6, <1>7, <1>8 DEF IInv

LEMMA StopKeeps ==
    ASSUME IInv, NEW t \in Thread, StopStep(t)
    PROVE  IInv'
  <1>1. CASE StopAcquire(t)
    BY <1>1, StopAcquireKeeps
  <1>2. CASE StopHalt(t)
    BY <1>2, StopHaltKeeps
  <1>3. CASE StopSignal(t)
    BY <1>3, StopSignalQuiet, QuietKeeps
  <1>4. CASE StopWait(t)
    BY <1>4, StopWaitQuiet, QuietKeeps
  <1>5. CASE StopKill(t)
    BY <1>5, StopKillQuiet, QuietKeeps
  <1>6. CASE StopSettle(t)
    BY <1>6, StopSettleQuiet, QuietKeeps
  <1>7. CASE StopStuck(t)
    BY <1>7, StopStuckQuiet, QuietKeeps
  <1>8. CASE StopReap(t)
    BY <1>8, StopReapKeeps
  <1>. QED BY <1>1, <1>2, <1>3, <1>4, <1>5, <1>6, <1>7, <1>8 DEF StopStep

LEMMA CallerKeeps ==
    ASSUME IInv, NEW c \in Caller, BeginStart(c) \/ BeginStop(c) \/ CallerStep(c)
    PROVE  IInv'
  <1>. c \in Thread
    BY DEF Thread
  <1>1. CASE BeginStart(c)
    BY <1>1, BeginStartQuiet, QuietKeeps
  <1>2. CASE BeginStop(c)
    BY <1>2, BeginStopQuiet, QuietKeeps
  <1>3. CASE Answered(c)
    BY <1>3, AnsweredQuiet, QuietKeeps
  <1>4. CASE StartStep(c)
    <2>1. CASE StartCheck(c)
      BY <2>1, StartCheckKeeps
    <2>2. CASE StartInstall(c)
      BY <2>2, StartInstallQuiet, QuietKeeps
    <2>3. CASE StartBuild(c)
      BY <2>3, StartBuildQuiet, QuietKeeps
    <2>4. CASE StartBroken(c)
      BY <2>4, StartBrokenQuiet, QuietKeeps
    <2>5. CASE StartSpawn(c)
      BY <2>5, StartSpawnKeeps
    <2>6. CASE StartGrace(c)
      BY <2>6, StartGraceQuiet, QuietKeeps
    <2>7. CASE StartRelease(c)
      BY <2>7, StartReleaseQuiet, QuietKeeps
    <2>. QED BY <1>4, <2>1, <2>2, <2>3, <2>4, <2>5, <2>6, <2>7 DEF StartStep
  <1>5. CASE StopStep(c)
    BY <1>5, StopKeeps
  <1>. QED BY <1>1, <1>2, <1>3, <1>4, <1>5 DEF CallerStep

LEMMA MainKeeps ==
    ASSUME IInv, MainStep
    PROVE  IInv'
  <1>. Main \in Thread
    BY DEF Thread
  <1>1. CASE StopStep(Main)
    BY <1>1, StopKeeps
  <1>2. CASE Handled
    BY <1>2, HandledKeeps
  <1>3. CASE Finished
    BY <1>3, FinishedQuiet, QuietKeeps
  <1>4. CASE Drain
    BY <1>4, DrainQuiet, QuietKeeps
  <1>5. CASE Close
    BY <1>5, CloseQuiet, QuietKeeps
  <1>6. CASE Exit
    BY <1>6, ExitQuiet, QuietKeeps
  <1>. QED BY <1>1, <1>2, <1>3, <1>4, <1>5, <1>6 DEF MainStep

LEMMA NextKeeps == IInv /\ [Next]_vars => IInv'
  <1>. SUFFICES ASSUME IInv, [Next]_vars PROVE IInv'
    OBVIOUS
  <1>. Main \in Thread
    BY DEF Thread
  <1>1. CASE \E c \in Caller : BeginStart(c) \/ BeginStop(c) \/ CallerStep(c)
    BY <1>1, CallerKeeps
  <1>2. CASE Signal
    BY <1>2, SignalKeeps
  <1>3. CASE MainStep
    BY <1>3, MainKeeps
  <1>4. CASE Status
    BY <1>4, StatusQuiet, QuietKeeps
  <1>5. CASE \E p \in DOMAIN procs : LeaderExits(p) \/ GroupEnds(p)
    BY <1>5, DiesQuiet, QuietKeeps
  <1>6. CASE UNCHANGED vars
    <2>1. UNCHANGED <<phase, gen, stopping, tracked, procs, startLock, stopLock, call, main,
                      frames, stopEvent, calls, signals>>
      BY <1>6 DEF vars, service, locks, process
    <2>2. Scalars' /\ NoBirth
      BY <2>1 DEF IInv, TypeOK, Scalars, NoBirth
    <2>. QED BY <2>1, <2>2, StillQuiet, QuietKeeps
  <1>. QED BY <1>1, <1>2, <1>3, <1>4, <1>5, <1>6 DEF Next

LEMMA Invariant == Spec => []IInv
  BY InitIInv, NextKeeps, PTL DEF Spec

\* Every variable of the supervisor keeps its type, whatever interleaves.
THEOREM BootstrapTyped == Spec => []TypeOK
  <1>1. IInv => TypeOK
    BY DEF IInv
  <1>. QED BY <1>1, Invariant, PTL

\* service.py never runs two model servers in a container, nor one that
\* _process does not name, for any number of request threads and signals.
THEOREM BootstrapOneProcess == Spec => []OneProcess
  <1>1. IInv => OneProcess
    BY DEF IInv
  <1>. QED BY <1>1, Invariant, PTL

\* When the phase is STOPPED nothing that was ever spawned is left, children of
\* a crashed leader included.
THEOREM BootstrapStoppedIsGone == Spec => []StoppedIsGone
  <1>1. IInv => StoppedIsGone
    BY DEF IInv
  <1>. QED BY <1>1, Invariant, PTL

-----------------------------------------------------------------------------
(***************************************************************************)
(* The action properties: whose step it is, then what that step does.      *)
(***************************************************************************)
LEMMA StopOthers ==
    ASSUME TypeOK, NEW t \in Thread, StopStep(t)
    PROVE  \A u \in Thread \ {t} : call'[u] = call[u]
  <1>1. PICK x : call' = [call EXCEPT ![t] = x]
    <2>1. CASE StopAcquire(t)
      BY <2>1 DEF StopAcquire, Goto
    <2>2. CASE StopHalt(t)
      BY <2>2 DEF StopHalt, Leave
    <2>3. CASE StopSignal(t)
      BY <2>3 DEF StopSignal, Goto
    <2>4. CASE StopWait(t)
      BY <2>4 DEF StopWait, Goto
    <2>5. CASE StopKill(t)
      BY <2>5 DEF StopKill, Goto
    <2>6. CASE StopSettle(t)
      BY <2>6 DEF StopSettle, Goto
    <2>7. CASE StopStuck(t)
      BY <2>7 DEF StopStuck, Leave
    <2>8. CASE StopReap(t)
      BY <2>8 DEF StopReap, Leave
    <2>. QED BY <2>1, <2>2, <2>3, <2>4, <2>5, <2>6, <2>7, <2>8 DEF StopStep
  <1>. QED BY <1>1 DEF TypeOK

LEMMA StartOthers ==
    ASSUME TypeOK, NEW c \in Caller, StartStep(c)
    PROVE  \A u \in Thread \ {c} : call'[u] = call[u]
  <1>1. PICK x : call' = [call EXCEPT ![c] = x]
    <2>1. CASE StartCheck(c)
      BY <2>1 DEF StartCheck, Leave
    <2>2. CASE StartInstall(c)
      BY <2>2 DEF StartInstall, Leave, Goto
    <2>3. CASE StartBuild(c)
      BY <2>3 DEF StartBuild, Goto
    <2>4. CASE StartBroken(c)
      BY <2>4 DEF StartBroken, Leave
    <2>5. CASE StartSpawn(c)
      BY <2>5 DEF StartSpawn, Leave
    <2>6. CASE StartGrace(c)
      BY <2>6 DEF StartGrace, Leave
    <2>7. CASE StartRelease(c)
      BY <2>7 DEF StartRelease
    <2>. QED BY <2>1, <2>2, <2>3, <2>4, <2>5, <2>6, <2>7 DEF StartStep
  <1>. QED BY <1>1 DEF TypeOK, Thread

\* A thread that serves requests is moved by its own steps only.
LEMMA OwnSteps ==
    ASSUME TypeOK, Next, NEW c \in Caller, call'[c] # call[c]
    PROVE  BeginStart(c) \/ BeginStop(c) \/ CallerStep(c)
  <1>. USE BootstrapAssumption
  <1>. c \in Thread /\ Main \in Thread /\ c # Main
    BY DEF Thread
  <1>1. ASSUME NEW d \in Caller, BeginStart(d) \/ BeginStop(d) \/ CallerStep(d), d # c
        PROVE  FALSE
    <2>. d \in Thread
      BY DEF Thread
    <2>1. CASE BeginStart(d)
      BY <1>1, <2>1 DEF BeginStart, TypeOK
    <2>2. CASE BeginStop(d)
      BY <1>1, <2>2 DEF BeginStop, TypeOK
    <2>3. CASE StartStep(d)
      BY <1>1, <2>3, StartOthers
    <2>4. CASE StopStep(d)
      BY <1>1, <2>4, StopOthers
    <2>5. CASE Answered(d)
      BY <1>1, <2>5 DEF Answered, TypeOK
    <2>. QED BY <1>1, <2>1, <2>2, <2>3, <2>4, <2>5 DEF CallerStep
  <1>2. ~Signal
    BY DEF Signal, TypeOK
  <1>3. ~MainStep
    <2>1. ~StopStep(Main)
      BY StopOthers
    <2>2. ~Handled
      BY DEF Handled, TypeOK
    <2>3. ~Finished
      BY DEF Finished, TypeOK
    <2>4. ~Close
      BY DEF Close, TypeOK
    <2>5. ~Drain /\ ~Exit
      BY DEF Drain, Exit
    <2>. QED BY <2>1, <2>2, <2>3, <2>4, <2>5 DEF MainStep
  <1>4. ~Status /\ ~(\E p \in DOMAIN procs : LeaderExits(p) \/ GroupEnds(p))
    BY DEF Status, LeaderExits, GroupEnds, Dies
  <1>. QED BY <1>1, <1>2, <1>3, <1>4 DEF Next

\* A start that a stop has overtaken does and says nothing any more.
THEOREM BootstrapCancelledIsSilent == Spec => CancelledIsSilent
  <1>. DEFINE Silent ==
          \A c \in Caller :
             call[c].pc \in StartPc \ {"check"} /\ Cancelled(c) /\ call'[c].pc # call[c].pc
                 => UNCHANGED <<phase, tracked, procs>>
  <1>1. IInv /\ [Next]_vars => [Silent]_vars
    <2>. SUFFICES ASSUME IInv, Next, NEW c \in Caller, call[c].pc \in StartPc \ {"check"},
                         Cancelled(c), call'[c].pc # call[c].pc
                  PROVE  UNCHANGED <<phase, tracked, procs>>
      OBVIOUS
    <2>1. BeginStart(c) \/ BeginStop(c) \/ CallerStep(c)
      BY OwnSteps DEF IInv
    <2>2. StartStep(c)
      <3>1. ~BeginStart(c) /\ ~BeginStop(c) /\ ~Answered(c)
        BY DEF BeginStart, BeginStop, Answered, StopRelease, StartPc
      <3>2. ~StopStep(c)
        BY DEF StopStep, StopAcquire, StopHalt, StopSignal, StopWait, StopKill, StopSettle,
               StopStuck, StopReap, StartPc
      <3>. QED BY <2>1, <3>1, <3>2 DEF CallerStep
    <2>3. CASE StartInstall(c)
      BY <2>3 DEF StartInstall
    <2>4. CASE StartBuild(c) \/ StartRelease(c)
      BY <2>4 DEF StartBuild, StartRelease, service
    <2>5. CASE StartBroken(c)
      BY <2>5 DEF StartBroken
    <2>6. CASE StartSpawn(c)
      BY <2>6 DEF StartSpawn
    <2>7. CASE StartGrace(c)
      BY <2>7 DEF StartGrace
    <2>8. ~StartCheck(c)
      BY DEF StartCheck
    <2>. QED BY <2>2, <2>3, <2>4, <2>5, <2>6, <2>7, <2>8 DEF StartStep
  <1>. QED BY <1>1, Invariant, PTL DEF Spec, CancelledIsSilent

LEMMA MainMoves ==
    ASSUME Next, main' # main
    PROVE  Finished \/ Drain \/ Close \/ Exit
  <1>1. ASSUME NEW t, StopStep(t)
        PROVE  FALSE
    BY <1>1 DEF StopStep, StopAcquire, StopHalt, StopSignal, StopWait, StopKill, StopSettle,
                StopStuck, StopReap, process
  <1>2. ASSUME NEW c, BeginStart(c) \/ BeginStop(c) \/ CallerStep(c)
        PROVE  FALSE
    <2>1. ~StartStep(c)
      BY DEF StartStep, StartCheck, StartInstall, StartBuild, StartBroken, StartSpawn,
             StartGrace, StartRelease, process
    <2>. QED BY <1>1, <1>2, <2>1 DEF BeginStart, BeginStop, CallerStep, Answered
  <1>3. ~Signal /\ ~Handled /\ ~Status
    BY DEF Signal, Handled, Status, process
  <1>4. ~(\E p \in DOMAIN procs : LeaderExits(p) \/ GroupEnds(p))
    BY DEF LeaderExits, GroupEnds, Dies, process
  <1>. QED BY <1>1, <1>2, <1>3, <1>4 DEF Next, MainStep

\* The process exits when nothing is left of what it supervised, or when it has
\* said that a group survived SIGKILL.
THEOREM BootstrapShutdownCleans == Spec => ShutdownCleans
  <1>. DEFINE Clean ==
          main' = "exiting" /\ main # "exiting"
              => phase' = "FAILED" \/ \A p \in DOMAIN procs' : ~Alive(p)'
  <1>1. IInv /\ [Next]_vars => [Clean]_vars
    <2>. SUFFICES ASSUME IInv, Next, main' = "exiting", main # "exiting"
                  PROVE  phase' = "FAILED" \/ \A p \in DOMAIN procs' : ~Alive(p)'
      OBVIOUS
    <2>1. StoppedIsGone'
      BY NextKeeps DEF IInv
    <2>2. Finished \/ Close
      BY MainMoves DEF Drain, Exit
    <2>3. CASE Finished
      <3>1. call[Main].pc = "stopped" /\ phase' = phase
        BY <2>3 DEF Finished, StopRelease
      <3>2. phase \in {"STOPPED", "FAILED"}
        BY <3>1 DEF IInv, Settled, Thread
      <3>. QED BY <2>1, <3>1, <3>2 DEF StoppedIsGone
    <2>4. CASE Close
      <3>1. phase' = "STOPPED"
        BY <2>4 DEF Close, service
      <3>. QED BY <2>1, <3>1 DEF StoppedIsGone
    <2>. QED BY <2>2, <2>3, <2>4
  <1>. QED BY <1>1, Invariant, PTL DEF Spec, ShutdownCleans
=============================================================================
