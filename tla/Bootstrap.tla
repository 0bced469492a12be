------------------------------ MODULE Bootstrap ------------------------------
(***************************************************************************)
(* The service supervisor inside a container (service.py) under the        *)
(* threads of its HTTP server (server.py) and the shutdown of the process  *)
(* that runs them (__main__.py).                                           *)
(*                                                                         *)
(* A caller is a thread of the ThreadingHTTPServer.  It serves one request *)
(* after the other on a connection that stays open, so requests arrive     *)
(* until the process is gone, whatever has become of the accept loop.      *)
(* _lock is held for one step of a thread, so a step is what the code does *)
(* inside one "with self._lock" or between two of them.                    *)
(*                                                                         *)
(* Exit codes, error texts, the history and the clock are left out: a      *)
(* deadline may pass at any time.  A start that finds _start_lock taken    *)
(* changes nothing and is not a step.                                      *)
(***************************************************************************)
EXTENDS Naturals, Sequences

CONSTANTS
    Caller,         \* threads that serve requests
    Main,           \* the main thread, which runs the signal handlers
    Nobody,         \* no thread
    MaxCalls,       \* requests and signals
    MaxSignals      \* signals

ASSUME BootstrapAssumption ==
    /\ Main \notin Caller /\ Nobody \notin Caller \cup {Main} /\ Main # Nobody
    /\ MaxCalls \in Nat /\ MaxSignals \in Nat

VARIABLES
    phase,          \* state.phase
    gen,            \* _generation
    stopping,       \* _stopping
    tracked,        \* _process, 0 for None
    procs,          \* the process groups spawned so far, in order
    startLock,      \* _start_lock: its holder
    stopLock,       \* _stop_lock: its holder
    call,           \* where each thread is
    main,           \* where the main thread is outside signal handlers
    frames,         \* what the signal handlers of the main thread interrupted
    stopEvent,      \* stop_event of command_serve
    calls,          \* requests and signals so far
    signals         \* signals so far

service == <<phase, gen, stopping, tracked, procs>>
locks   == <<startLock, stopLock>>
process == <<main, frames, stopEvent, calls, signals>>
vars    == <<service, locks, call, process>>

Thread == Caller \cup {Main}
Phase  == {"IDLE", "INSTALLING", "STARTING", "RUNNING", "STOPPING", "STOPPED", "FAILED"}

(***************************************************************************)
(* A group is "up" while its leader runs, "orphans" when only children of  *)
(* the leader are left, and then "gone".  killed: it was sent SIGKILL.  SIGTERM *)
(* is not remembered, because a group may end at any time anyway.          *)
(***************************************************************************)
Group == [st : {"up", "orphans", "gone"}, killed : BOOLEAN]

StartPc == {"check", "install", "build", "broken", "spawn", "grace", "release"}
StopPc  == {"stop", "halt", "signal", "wait", "kill", "settle", "stuck", "reap", "stopped"}

\* opt is prepare_environment of a start and force of a stop; gen and proc are
\* the thread's own generation and process.
Call == [pc : {"idle"} \cup StartPc \cup StopPc, opt : BOOLEAN, gen : Nat, proc : Nat]

Idle     == [pc |-> "idle", opt |-> FALSE, gen |-> 0, proc |-> 0]
Stop(f)  == [Idle EXCEPT !.pc = "stop", !.opt = f]
Start(p) == [Idle EXCEPT !.pc = "check", !.opt = p]

Polled(p) == p # 0 /\ procs[p].st # "up"      \* process.poll() is not None
Alive(p)  == p # 0 /\ procs[p].st # "gone"    \* _process_alive

\* _refresh_process.
Refreshed_Crashed == IF phase = "RUNNING" /\ Polled(tracked) THEN "CRASHED" ELSE phase
Refreshed_GroupGone == IF phase = "RUNNING" /\ ~Alive(tracked) THEN "FAILED" ELSE phase
Refreshed == IF phase = "RUNNING" /\ Polled(tracked) THEN "FAILED" ELSE phase

Goto(t, pc)  == call' = [call EXCEPT ![t].pc = pc]
Leave(t, pc) == call' = [call EXCEPT ![t] = [Idle EXCEPT !.pc = pc]]

Init ==
    /\ phase = "IDLE" /\ gen = 0 /\ stopping = FALSE
    /\ tracked = 0 /\ procs = <<>>
    /\ startLock = Nobody /\ stopLock = Nobody
    /\ call = [t \in Thread |-> Idle]
    /\ main = "serving" /\ frames = <<>> /\ stopEvent = FALSE
    /\ calls = 0 /\ signals = 0

Running == main # "exited"

-----------------------------------------------------------------------------
(***************************************************************************)
(* Starting.                                                               *)
(***************************************************************************)
BeginStart(c) ==
    /\ Running /\ call[c].pc = "idle" /\ calls < MaxCalls
    /\ startLock = Nobody
    /\ startLock' = c
    /\ \E prepare \in BOOLEAN : call' = [call EXCEPT ![c] = Start(prepare)]
    /\ calls' = calls + 1
    /\ UNCHANGED <<service, stopLock, main, frames, stopEvent, signals>>

Refused_PhaseOnly ==
    stopping \/ Refreshed \in {"RUNNING", "STARTING", "INSTALLING", "STOPPING"}
Refused ==
    \/ stopping
    \/ Alive(tracked)
    \/ Refreshed \in {"RUNNING", "STARTING", "INSTALLING", "STOPPING"}

StartCheck(c) ==
    /\ call[c].pc = "check"
    /\ \/ /\ Refused
          /\ phase' = Refreshed
          /\ Leave(c, "release")
          /\ UNCHANGED gen
       \/ /\ ~Refused
          /\ gen' = gen + 1
          /\ phase' = IF call[c].opt THEN "INSTALLING" ELSE "STARTING"
          /\ call' = [call EXCEPT ![c].pc = IF call[c].opt THEN "install" ELSE "build",
                                  ![c].gen = gen + 1]
    /\ UNCHANGED <<stopping, tracked, procs, locks, process>>

Cancelled(c) == call[c].gen # gen

StartInstall(c) ==
    /\ call[c].pc = "install"
    /\ IF Cancelled(c)
       THEN Leave(c, "release") /\ UNCHANGED phase
       ELSE Goto(c, "build") /\ phase' = "INSTALLING"
    /\ UNCHANGED <<gen, stopping, tracked, procs, locks, process>>

\* installer.prepare and the command, outside _lock; either may raise.
StartBuild(c) ==
    /\ call[c].pc = "build"
    /\ \E next \in {"spawn", "broken"} : Goto(c, next)
    /\ UNCHANGED <<service, locks, process>>

StartBroken_Unguarded(c) ==
    /\ call[c].pc = "broken"
    /\ phase' = "FAILED"
    /\ Leave(c, "release")
    /\ UNCHANGED <<gen, stopping, tracked, procs, locks, process>>
StartBroken(c) ==
    /\ call[c].pc = "broken"
    /\ phase' = IF Cancelled(c) THEN phase ELSE "FAILED"
    /\ Leave(c, "release")
    /\ UNCHANGED <<gen, stopping, tracked, procs, locks, process>>

StartSpawn(c) ==
    /\ call[c].pc = "spawn"
    /\ \/ /\ Cancelled(c)
          /\ Leave(c, "release")
          /\ UNCHANGED <<phase, tracked, procs>>
       \/ /\ ~Cancelled(c)                            \* Popen raised
          /\ phase' = "FAILED"
          /\ Leave(c, "release")
          /\ UNCHANGED <<tracked, procs>>
       \/ /\ ~Cancelled(c)
          /\ procs' = Append(procs, [st |-> "up", killed |-> FALSE])
          /\ tracked' = Len(procs) + 1
          /\ phase' = "RUNNING"
          /\ call' = [call EXCEPT ![c].pc = "grace", ![c].proc = Len(procs) + 1]
    /\ UNCHANGED <<gen, stopping, locks, process>>

StartGrace(c) ==
    /\ call[c].pc = "grace"
    /\ phase' = IF ~Cancelled(c) /\ Polled(call[c].proc) THEN "FAILED" ELSE phase
    /\ Leave(c, "release")
    /\ UNCHANGED <<gen, stopping, tracked, procs, locks, process>>

StartRelease(c) ==
    /\ call[c].pc = "release"
    /\ startLock' = Nobody
    /\ call' = [call EXCEPT ![c] = Idle]
    /\ UNCHANGED <<service, stopLock, process>>

-----------------------------------------------------------------------------
(***************************************************************************)
(* Stopping.                                                               *)
(***************************************************************************)
BeginStop(c) ==
    /\ Running /\ call[c].pc = "idle" /\ calls < MaxCalls
    /\ \E force \in BOOLEAN : call' = [call EXCEPT ![c] = Stop(force)]
    /\ calls' = calls + 1
    /\ UNCHANGED <<service, locks, main, frames, stopEvent, signals>>

StopAcquire(t) ==
    /\ call[t].pc = "stop"
    /\ stopLock = Nobody
    /\ stopLock' = t
    /\ gen' = gen + 1
    /\ stopping' = TRUE
    /\ Goto(t, "halt")
    /\ UNCHANGED <<phase, tracked, procs, startLock, process>>

StopHalt(t) ==
    /\ call[t].pc = "halt"
    /\ \/ /\ ~Alive(tracked)
          /\ tracked' = 0
          /\ phase' = "STOPPED"
          /\ Leave(t, "stopped")
       \/ /\ Alive(tracked)
          /\ phase' = "STOPPING"
          /\ call' = [call EXCEPT ![t].pc = "signal", ![t].proc = tracked]
          /\ UNCHANGED tracked
    /\ UNCHANGED <<gen, stopping, procs, locks, process>>

\* _kill: the whole group, if anything of it is left.
Kill(p) ==
    procs' = IF Alive(p) THEN [procs EXCEPT ![p].killed = TRUE] ELSE procs

StopSignal(t) ==
    /\ call[t].pc = "signal"
    /\ IF call[t].opt THEN Kill(call[t].proc) ELSE UNCHANGED procs
    /\ Goto(t, "wait")
    /\ UNCHANGED <<phase, gen, stopping, tracked, locks, process>>

\* The loop ends when the group is gone or the deadline has passed.
StopWait_LeaderOnly(t) ==
    /\ call[t].pc = "wait"
    /\ Goto(t, IF Polled(call[t].proc) THEN "reap" ELSE "kill")
    /\ UNCHANGED <<service, locks, process>>
StopWait(t) ==
    /\ call[t].pc = "wait"
    /\ Goto(t, IF Alive(call[t].proc) THEN "kill" ELSE "reap")
    /\ UNCHANGED <<service, locks, process>>

StopKill_Forgotten(t) ==
    /\ call[t].pc = "kill"
    /\ Goto(t, "settle")
    /\ UNCHANGED <<service, locks, process>>
StopKill(t) ==
    /\ call[t].pc = "kill"
    /\ Kill(call[t].proc)
    /\ Goto(t, "settle")
    /\ UNCHANGED <<phase, gen, stopping, tracked, locks, process>>

StopSettle(t) ==
    /\ call[t].pc = "settle"
    /\ Goto(t, IF Alive(call[t].proc) THEN "stuck" ELSE "reap")
    /\ UNCHANGED <<service, locks, process>>

\* Still alive after the kill: the group stays tracked.
StopStuck(t) ==
    /\ call[t].pc = "stuck"
    /\ phase' = "FAILED"
    /\ Leave(t, "stopped")
    /\ UNCHANGED <<gen, stopping, tracked, procs, locks, process>>

StopReap(t) ==
    /\ call[t].pc = "reap"
    /\ tracked' = 0
    /\ phase' = "STOPPED"
    /\ Leave(t, "stopped")
    /\ UNCHANGED <<gen, stopping, procs, locks, process>>

StopRelease_NotFailed(t) ==
    /\ call[t].pc = "stopped"
    /\ stopping' = FALSE
    /\ stopLock' = IF phase = "FAILED" THEN stopLock ELSE Nobody
    /\ UNCHANGED <<phase, gen, tracked, procs, startLock, calls, signals>>
StopRelease(t) ==
    /\ call[t].pc = "stopped"
    /\ stopping' = FALSE
    /\ stopLock' = Nobody
    /\ UNCHANGED <<phase, gen, tracked, procs, startLock, calls, signals>>

\* stop returns: to the HTTP client,
Answered(c) ==
    /\ StopRelease(c)
    /\ call' = [call EXCEPT ![c] = Idle]
    /\ UNCHANGED <<main, frames, stopEvent>>

\* into a signal handler, which sets the event and resumes what it interrupted,
Handled ==
    /\ StopRelease(Main)
    /\ frames # <<>>
    /\ stopEvent' = TRUE
    /\ call' = [call EXCEPT ![Main] = frames[Len(frames)]]
    /\ frames' = SubSeq(frames, 1, Len(frames) - 1)
    /\ UNCHANGED main

\* or into the finally of command_serve.
Finished ==
    /\ StopRelease(Main)
    /\ frames = <<>>
    /\ call' = [call EXCEPT ![Main] = Idle]
    /\ main' = "exiting"
    /\ UNCHANGED <<frames, stopEvent>>

StartStep(c) ==
    \/ StartCheck(c) \/ StartInstall(c) \/ StartBuild(c) \/ StartBroken(c)
    \/ StartSpawn(c) \/ StartGrace(c) \/ StartRelease(c)

StopStep(t) ==
    \/ StopAcquire(t) \/ StopHalt(t) \/ StopSignal(t) \/ StopWait(t)
    \/ StopKill(t) \/ StopSettle(t) \/ StopStuck(t) \/ StopReap(t)

CallerStep(c) == Running /\ (StartStep(c) \/ StopStep(c) \/ Answered(c))

-----------------------------------------------------------------------------
(***************************************************************************)
(* The main thread.  A signal is handled in it between two bytecodes,      *)
(* also while it waits for a lock or is inside stop for an earlier signal. *)
(***************************************************************************)
Signal ==
    /\ Running /\ calls < MaxCalls /\ signals < MaxSignals
    /\ frames' = Append(frames, call[Main])
    /\ call' = [call EXCEPT ![Main] = Stop(FALSE)]
    /\ calls' = calls + 1
    /\ signals' = signals + 1
    /\ UNCHANGED <<service, locks, main, stopEvent>>

\* serve_forever returns after server.shutdown.
Drain ==
    /\ main = "serving" /\ stopEvent /\ frames = <<>>
    /\ main' = "closing"
    /\ UNCHANGED <<service, locks, call, frames, stopEvent, calls, signals>>

Close_Trusting ==
    /\ main = "closing" /\ frames = <<>>
    /\ main' = "exiting"
    /\ UNCHANGED <<service, locks, call, frames, stopEvent, calls, signals>>

\* The finally of command_serve.
Close ==
    /\ main = "closing" /\ frames = <<>>
    /\ IF phase = "STOPPED"
       THEN main' = "exiting" /\ UNCHANGED call
       ELSE main' = "final" /\ call' = [call EXCEPT ![Main] = Stop(FALSE)]
    /\ UNCHANGED <<service, locks, frames, stopEvent, calls, signals>>

\* Handler threads are daemons and end with the process; groups do not.
Exit ==
    /\ main = "exiting" /\ frames = <<>>
    /\ main' = "exited"
    /\ UNCHANGED <<service, locks, call, frames, stopEvent, calls, signals>>

MainStep ==
    Running /\ (StopStep(Main) \/ Handled \/ Finished \/ Drain \/ Close \/ Exit)

-----------------------------------------------------------------------------
(***************************************************************************)
(* Status and health requests, and the groups themselves, which are not    *)
(* followed any further than the process that supervises them.             *)
(***************************************************************************)
Status ==
    /\ Running
    /\ phase' = Refreshed
    /\ UNCHANGED <<gen, stopping, tracked, procs, locks, call, process>>

Dies(p, st) ==
    /\ Running
    /\ procs' = [procs EXCEPT ![p].st = st]
    /\ UNCHANGED <<phase, gen, stopping, tracked, locks, call, process>>

LeaderExits(p) == procs[p].st = "up" /\ Dies(p, "orphans")
GroupEnds(p)   == procs[p].st # "gone" /\ Dies(p, "gone")
Killed(p)      == procs[p].killed /\ GroupEnds(p)

Next ==
    \/ \E c \in Caller : BeginStart(c) \/ BeginStop(c) \/ CallerStep(c)
    \/ Signal
    \/ MainStep
    \/ Status
    \/ \E p \in DOMAIN procs : LeaderExits(p) \/ GroupEnds(p)

Spec == Init /\ [][Next]_vars

(***************************************************************************)
(* Threads run; a group that was sent SIGKILL ends some day; the control   *)
(* plane polls the status.  Nothing else dies, arrives or is signalled by  *)
(* necessity.                                                              *)
(***************************************************************************)
Fairness ==
    /\ \A c \in Caller : WF_vars(CallerStep(c))
    /\ WF_vars(MainStep)
    /\ WF_vars(Status)
    /\ \A p \in 1 .. MaxCalls : WF_vars(p \in DOMAIN procs /\ Killed(p))

FairSpec == Spec /\ Fairness

-----------------------------------------------------------------------------
TypeOK ==
    /\ phase \in Phase /\ gen \in Nat /\ stopping \in BOOLEAN
    /\ procs \in Seq(Group)
    /\ tracked \in Nat /\ tracked <= Len(procs)
    /\ startLock \in Caller \cup {Nobody}
    /\ stopLock \in Thread \cup {Nobody}
    /\ call \in [Thread -> Call]
    /\ \A t \in Thread : call[t].proc <= Len(procs)
    /\ main \in {"serving", "closing", "final", "exiting", "exited"}
    /\ frames \in Seq(Call) /\ stopEvent \in BOOLEAN
    /\ calls \in Nat /\ signals \in Nat

\* However starts, stops, crashes and signals interleave, a container never runs
\* two model servers, nor one that _process does not name and no stop can reach:
\* a group that still holds GPU memory is the one that is tracked.
OneProcess == \A p \in DOMAIN procs : Alive(p) => p = tracked

\* STOPPED is reported only when nothing that was ever started is left, the
\* orphans of a crashed leader included; the control plane releases or reuses the
\* container on the strength of it.
StoppedIsGone == phase = "STOPPED" => \A p \in DOMAIN procs : ~Alive(p)

\* A start that a stop has overtaken no longer says or does anything: not the
\* failure of its preparation, not a process, not the crash of a process that was
\* stopped on purpose.
CancelledIsSilent ==
    [][\A c \in Caller :
          call[c].pc \in StartPc \ {"check"} /\ Cancelled(c) /\ call'[c].pc # call[c].pc
              => UNCHANGED <<phase, tracked, procs>>]_vars

\* When the process has decided to exit, what it supervised is gone, or it says
\* FAILED because the group survived SIGKILL.
ShutdownCleans ==
    [][main' = "exiting" /\ main # "exiting"
          => phase' = "FAILED" \/ \A p \in DOMAIN procs' : ~Alive(p)']_vars

\* A signal handler that interrupted the main thread inside stop waits for the
\* _stop_lock its own thread holds.
SelfBlocked == stopLock = Main /\ call[Main].pc = "stop"

\* A request is answered, and after a signal the process exits, unless a second
\* signal caught the main thread inside stop.  No order of the three locks and no
\* process that ignores its signals makes a caller wait for ever.
CallsEnd ==
    /\ \A c \in Caller :
          call[c].pc # "idle" ~> call[c].pc = "idle" \/ ~Running \/ SelfBlocked
    /\ signals > 0 ~> ~Running \/ SelfBlocked

\* Once a stop has found a group alive the group ends, even if it ignores SIGTERM
\* and outlives the deadline, unless the stop itself never gets that far.
StopKills ==
    \A p \in 1 .. MaxCalls :
        (\E t \in Thread : call[t].pc = "signal" /\ call[t].proc = p)
            ~> (p \in DOMAIN procs => ~Alive(p)) \/ ~Running \/ SelfBlocked

\* A service whose leader has exited does not stay RUNNING, also when its
\* children live on.
CrashIsReported ==
    phase = "RUNNING" /\ Polled(tracked) ~> phase # "RUNNING" \/ ~Running
=============================================================================
