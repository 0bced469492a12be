------------------------------ MODULE Lifecycle ------------------------------
(***************************************************************************)
(* The life of one capacity instance under internal/controller: the        *)
(* goroutines that drive it (reconcile rounds, planner starts, operator    *)
(* calls, partner events), the per-instance operation lock they share, the *)
(* database row they write through the store, and the three systems they   *)
(* talk to: the Router, the bootstrap inside the container and the partner *)
(* platform.  Instances share nothing but the start gate, so one is enough.*)
(*                                                                         *)
(* A thread is a goroutine in the middle of an operation: the place it has *)
(* reached, the copy of the row it carries across calls, and the branch it *)
(* came from.  A step ends where the code leaves the process (a call to    *)
(* the Router, the bootstrap or the partner) or commits a transaction;     *)
(* between two steps every other thread may run and the process may crash. *)
(*                                                                         *)
(* An operator named X_Variant is X with a plausible bug: it shows that a  *)
(* property would notice the bug, and no specification uses it.            *)
(***************************************************************************)
EXTENDS Store, FiniteSets

CONSTANTS
    Thread, NoThread,           \* goroutines; nobody holds the lock
    Reconciler,                 \* the goroutine of the periodic reconcile round
    Caller,                     \* which entry points are exercised, see below
    Fault,                      \* which failures may happen, see below
    MaxFaults,                  \* bound: how many failures may happen
    MaxIdent,                   \* bound: how many identities the partner issues
    PrepareMaxAttempts, StartMaxAttempts, StartRetryMaxRearms,
    LostFailureThreshold, ReadinessFailureThreshold, HealthFailureThreshold

ASSUME LifecycleAssumption ==
    /\ NoThread \notin Thread
    /\ Reconciler \in Thread
    /\ Caller \subseteq {"plan", "drain", "requeue", "reclaim", "release", "round",
                         "revoke", "move", "offer"}
    /\ Fault \subseteq {"crash", "router", "bootstrap", "partner", "partition",
                        "restart", "death", "degrade", "timeout", "delete",
                        "cancel"}
    /\ {MaxFaults, StartRetryMaxRearms} \subseteq Nat
    /\ {MaxIdent, PrepareMaxAttempts, StartMaxAttempts, LostFailureThreshold,
        ReadinessFailureThreshold, HealthFailureThreshold} \subseteq Nat \ {0}

VARIABLES
    row,        \* capacity_instances: the instance row
    ops,        \* operations: retry state per operation kind and lease
    lock,       \* Controller.instanceOperation(id): its holder
    thread,     \* what every goroutine is doing
    streak,     \* in-memory counters of missed probes
    boot,       \* stages a restarted process still has before it
    epoch,      \* Router: worker ids of an earlier epoch are unknown
    mem,        \* Router: membership per service URL
    proc,       \* bootstrap: supervised process per container
    reach,      \* whether the container of an identity answers
    held,       \* whether the partner still lists the instance
    issued,     \* the newest identity the partner gave the instance
    clock,      \* whether the drain deadline / the cooldown has passed
    faults      \* failures so far

dbVars == <<row, ops>>
ctlVars == <<lock, thread, streak, boot>>
routerVars == <<epoch, mem>>
nodeVars == <<proc, reach, held, issued>>
vars == <<row, ops, lock, thread, streak, boot, epoch, mem,
          proc, reach, held, issued, clock, faults>>

Ident == 1..MaxIdent
OpKind == {"prepare", "start", "drain", "release"}

\* What a restarted process has still to do: resume operations, then listen.
BootStage == OpKind \cup {"listen"}

\* An operation row: terminal or missing, retryable now, or waiting for NextRetryAt.
OpStatus == {"closed", "open", "gated"}

Phase == {"IDLE", "RUNNING", "FAILED", "STOPPED", "GONE"}

\* The places a goroutine can be suspended at.
Place == {"idle", "reclaim", "update", "probe", "unreach", "lost", "act",
          "prepare", "prepared", "prepfail",
          "start", "launch", "health", "restarting", "healthy", "registering",
          "register", "open", "serve", "fail", "settle", "rearm",
          "drain", "draincommit", "reclaimerr", "finish", "drained", "drainfail",
          "release", "releasing", "return", "returned", "returnfail",
          "revoked", "allocate"}

\* Why it is there: the branch it came from, or the phase the probe observed.
Branch == {"", "reclaim", "revoke", "plain", "planner", "retry", "resume",
           "settle", "settled", "reg"} \cup Phase

NoCopy == FreshRow(0)
Idle == [pc |-> "idle", copy |-> NoCopy, fresh |-> FALSE, why |-> ""]

TypeOK ==
    /\ row \in Row
    /\ ops \in [OpKind \X Ident -> OpStatus]
    /\ lock \in Thread \cup {NoThread}
    /\ thread \in [Thread -> [pc : Place, copy : Row, fresh : BOOLEAN, why : Branch]]
    /\ streak \in [unreachable : Nat, unhealthy : Nat]
    /\ boot \subseteq BootStage
    /\ epoch \in Nat
    /\ mem \in [Ident -> [listed : BOOLEAN, type : AnyRole, ready : BOOLEAN]]
    /\ proc \in [Ident -> [phase : Phase, role : AnyRole, ok : BOOLEAN]]
    /\ reach \in [Ident -> BOOLEAN]
    /\ held \in BOOLEAN
    /\ issued \in Ident
    /\ clock \in [drain : BOOLEAN, cool : BOOLEAN]
    /\ faults \in 0..MaxFaults

NotListed == [listed |-> FALSE, type |-> NoRole, ready |-> FALSE]
FreshContainer == [phase |-> "IDLE", role |-> NoRole, ok |-> FALSE]
NoContainer == [phase |-> "GONE", role |-> NoRole, ok |-> FALSE]

(***************************************************************************)
(* The partner has offered identity 1 and CAPACITY_ADDED has inserted the  *)
(* row; the preparation intent is the next thing the handler commits.      *)
(***************************************************************************)
Init ==
    /\ row = FreshRow(1)
    /\ ops = [o \in OpKind \X Ident |-> "closed"]
    /\ lock = NoThread
    /\ thread = [t \in Thread |-> Idle]
    /\ streak = [unreachable |-> 0, unhealthy |-> 0]
    /\ boot = {}
    /\ epoch = 1
    /\ mem = [i \in Ident |-> NotListed]
    /\ proc = [i \in Ident |-> IF i = 1 THEN FreshContainer ELSE NoContainer]
    /\ reach = [i \in Ident |-> i = 1]
    /\ held = TRUE
    /\ issued = 1
    /\ clock = [drain |-> FALSE, cool |-> FALSE]
    /\ faults = 0

-----------------------------------------------------------------------------
(***************************************************************************)
(* Moving a goroutine.                                                     *)
(***************************************************************************)
At(pc, copy, why) == [pc |-> pc, copy |-> copy, fresh |-> FALSE, why |-> why]

\* The goroutine goes on, holding whatever it holds.
Goto(t, pc, copy, why) ==
    /\ thread' = [thread EXCEPT ![t] = At(pc, copy, why)]
    /\ UNCHANGED lock

\* The goroutine goes on as the holder of the instance lock.
Hold(t, pc, copy, why) ==
    /\ thread' = [thread EXCEPT ![t] = At(pc, copy, why)]
    /\ lock' = t

\* The operation returns; a deferred Unlock releases the lock.
End(t) ==
    /\ thread' = [thread EXCEPT ![t] = Idle]
    /\ lock' = IF lock = t THEN NoThread ELSE lock

\* A committed write bumps updated_at: every other snapshot is outdated.
Outdated(t, next) ==
    [u \in Thread |-> IF u = t THEN next ELSE [thread[u] EXCEPT !.fresh = FALSE]]

WriteGoto(t, pc, copy, why) ==
    /\ thread' = Outdated(t, At(pc, copy, why))
    /\ UNCHANGED lock

WriteHold(t, pc, copy, why) ==
    /\ thread' = Outdated(t, At(pc, copy, why))
    /\ lock' = t

WriteEnd(t) ==
    /\ thread' = Outdated(t, Idle)
    /\ lock' = IF lock = t THEN NoThread ELSE lock

Free == lock = NoThread
MayLock_Ignored(t) == t \in Thread
MayLock(t) == lock \in {NoThread, t}

(***************************************************************************)
(* One transaction: the merged row and the operation row, or nothing.      *)
(***************************************************************************)
Commit_Unmerged(next, opsNext) ==
    /\ Accepts(row, next)
    /\ row' = next
    /\ ops' = opsNext

Commit(next, opsNext) ==
    /\ Accepts(row, next)
    /\ row' = Merged(row, next)
    /\ ops' = opsNext

Refused(next) ==
    /\ ~Accepts(row, next)
    /\ UNCHANGED dbVars

Put(kind, ident, status) == [ops EXCEPT ![<<kind, ident>>] = status]

\* The start budget is used up.
Spent_OneMore(r) == r.start > StartMaxAttempts

Spent(r) == r.start >= StartMaxAttempts

\* operationRetryDue: nothing is waiting for NextRetryAt under the row's lease.
Due_Inverted(kind) == ops[<<kind, row.ident>>] = "gated"

Due(kind) == ops[<<kind, row.ident>>] # "gated"

Fails(kind) ==
    /\ kind \in Fault
    /\ faults < MaxFaults
    /\ faults' = faults + 1

Works == UNCHANGED faults

\* A bootstrap call to the container of identity i fails.
BootstrapError(i) == (~reach[i] /\ Works) \/ (reach[i] /\ Fails("bootstrap"))

BootstrapAnswers(i) == reach[i] /\ Works

(***************************************************************************)
(* Router.  The worker id of a URL is stable while the Router lives.       *)
(***************************************************************************)
WorkerId(i) == <<epoch, i>>

Listed(i) == i \in Ident /\ mem[i].listed

\* The Router lists the URL under this role.
Member_AnyRole(i, role) == Listed(i)

Member(i, role) == Listed(i) /\ mem[i].type = role

ResolvedWorker_FromRow(r) == r.worker

\* FindWorkerByURL for a row whose id column is empty.
ResolvedWorker(r) ==
    IF r.worker = NoWorker /\ HasService(r) /\ Listed(r.ident)
    THEN WorkerId(r.ident) ELSE r.worker

\* SetReadiness(worker, false); an unknown worker counts as closed.
Closed(worker) ==
    [i \in Ident |->
        IF mem[i].listed /\ worker = WorkerId(i)
        THEN [mem[i] EXCEPT !.ready = FALSE] ELSE mem[i]]

\* closeReadiness(instance)
CloseReadiness(r) == mem' = Closed(ResolvedWorker(r)) /\ UNCHANGED epoch
-----------------------------------------------------------------------------
(***************************************************************************)
(* runPrepare: validate the container, then leave PREPARING.               *)
(***************************************************************************)

\* The bootstrap reports "ok" unless its process failed or does not answer.
BootstrapOk(i) ==
    /\ proc[i].phase \notin {"FAILED", "GONE"}
    /\ proc[i].phase = "RUNNING" => proc[i].ok

Prepare(t) ==
    LET self == thread[t] IN
    /\ self.pc = "prepare"
    /\ UNCHANGED <<dbVars, streak, boot, routerVars, nodeVars, clock>>
    /\ \/ /\ \/ ~MayLock(t)
             \/ row.inst # "PREPARING"
             \/ self.why # "resume" /\ ~Due("prepare")
          /\ End(t) /\ Works
       \/ /\ MayLock(t)
          /\ row.inst = "PREPARING"
          /\ self.why = "resume" \/ Due("prepare")
          /\ \/ /\ BootstrapAnswers(row.ident)
                /\ BootstrapOk(row.ident)
                /\ Hold(t, "prepared", row, proc[row.ident].phase)
             \/ /\ BootstrapAnswers(row.ident)
                /\ ~BootstrapOk(row.ident)
                /\ Hold(t, "prepfail", row, "")
             \/ /\ BootstrapError(row.ident)
                /\ Hold(t, "prepfail", row, "")

\* A service that is still running keeps its role and re-enters as FAILED.
PreparedRow(copy, phase) ==
    LET adopt == copy.role \in Role /\ phase = "RUNNING" IN
    [copy EXCEPT !.inst = "IDLE",
                 !.svc  = IF adopt THEN "FAILED" ELSE "NONE",
                 !.role = IF adopt THEN copy.role ELSE NoRole,
                 !.prep = 0]

\* prepare_attempts is only compared with its limit, so it saturates there.
PrepareFailedRow(copy) ==
    LET exhausted == copy.prep + 1 >= PrepareMaxAttempts IN
    [copy EXCEPT !.prep = IF exhausted THEN PrepareMaxAttempts ELSE copy.prep + 1,
                 !.inst = IF exhausted THEN "LOST" ELSE copy.inst]

PrepareCommit(t) ==
    LET self == thread[t]
        next == IF self.pc = "prepared" THEN PreparedRow(self.copy, self.why)
                ELSE PrepareFailedRow(self.copy)
        op   == IF next.inst = "PREPARING" THEN "gated" ELSE "closed"
    IN
    /\ self.pc \in {"prepared", "prepfail"}
    /\ UNCHANGED <<streak, boot, routerVars, nodeVars, clock, faults>>
    /\ \/ Commit(next, Put("prepare", self.copy.ident, op)) /\ WriteEnd(t)
       \/ Refused(next) /\ End(t)

-----------------------------------------------------------------------------
(***************************************************************************)
(* StartService and finishStart.                                           *)
(***************************************************************************)

\* Under the lock: record the role, STARTING and one more attempt.
StartService(t) ==
    LET self == thread[t]
        next == [row EXCEPT !.role = self.copy.role, !.svc = "STARTING",
                            !.start = @ + 1]
    IN
    /\ self.pc = "start"
    /\ Free
    /\ UNCHANGED <<streak, boot, routerVars, nodeVars, clock, faults>>
    /\ \/ /\ row.inst = "IDLE" /\ row.svc # "SERVING"
          /\ ~row.pr /\ ~HasUpdate(row)
          /\ Commit(next, Put("start", row.ident, "open"))
          /\ WriteHold(t, "launch", next, self.why)
       \/ /\ \/ row.inst # "IDLE" \/ row.svc = "SERVING"
             \/ row.pr \/ HasUpdate(row)
             \/ ~Accepts(row, next)
          /\ UNCHANGED dbVars
          /\ End(t)

Running(role) == [phase |-> "RUNNING", role |-> role, ok |-> FALSE]
Exited_Unknown(p) == [p EXCEPT !.phase = "EXITED", !.ok = FALSE]
Exited(p) == [p EXCEPT !.phase = "FAILED", !.ok = FALSE]

\* launcher.Start: a RUNNING service of the same role is adopted.
Launch(t) ==
    LET self == thread[t]
        i    == self.copy.ident
        role == self.copy.role
        spawned == [proc EXCEPT ![i] = Running(role)]
    IN
    /\ self.pc = "launch"
    /\ UNCHANGED <<dbVars, streak, boot, routerVars, reach, held, issued, clock>>
    /\ \/ /\ BootstrapAnswers(i)
          /\ proc[i].phase # "RUNNING"
          /\ proc' = spawned
          /\ Goto(t, "health", self.copy, self.why)
       \/ /\ BootstrapAnswers(i)
          /\ proc[i].phase = "RUNNING"
          /\ UNCHANGED proc
          /\ Goto(t, IF proc[i].role = role THEN "health" ELSE "fail",
                  self.copy, self.why)
       \/ /\ BootstrapError(i)
          /\ UNCHANGED proc
          /\ Goto(t, "fail", self.copy, self.why)
       \/ /\ reach[i] /\ Fails("bootstrap")      \* done, but the reply is lost
          /\ proc[i].phase # "RUNNING"
          /\ proc' = spawned
          /\ Goto(t, "fail", self.copy, self.why)
       \/ /\ reach[i] /\ Fails("death")          \* exits within the start-up grace
          /\ proc[i].phase # "RUNNING"
          /\ proc' = [proc EXCEPT ![i] = Exited(Running(role))]
          /\ Goto(t, "fail", self.copy, self.why)

(***************************************************************************)
(* waitHealthy and the identity check.  The wait ends when the model       *)
(* answers, when its process died, when a reclaim was requested or when    *)
(* start_timeout runs out.                                                 *)
(***************************************************************************)
Health(t) ==
    LET self == thread[t]
        p    == proc[self.copy.ident]
        up   == reach[self.copy.ident]
    IN
    /\ self.pc = "health"
    /\ UNCHANGED <<dbVars, streak, boot, routerVars, nodeVars, clock>>
    /\ \/ /\ ~row.pr
          /\ up /\ p.phase = "RUNNING" /\ p.ok /\ p.role = self.copy.role
          /\ Works /\ Goto(t, "healthy", self.copy, self.why)
       \/ /\ \/ row.pr
             \/ up /\ p.phase = "RUNNING" /\ p.ok /\ p.role # self.copy.role
             \/ up /\ p.phase = "FAILED"
             \/ ~up \/ p.phase \notin {"RUNNING", "FAILED"}
          /\ Works /\ Goto(t, "fail", self.copy, self.why)
       \/ /\ up /\ p.phase = "RUNNING" /\ ~p.ok
          /\ Fails("timeout") /\ Goto(t, "fail", self.copy, self.why)

\* settleService re-enters STARTING before HEALTHY; finishStart does not.
NextService(pc) ==
    CASE pc = "restarting"  -> "STARTING"
      [] pc = "healthy"     -> "HEALTHY"
      [] pc = "registering" -> "REGISTERING"

NextPlace(pc) ==
    CASE pc = "restarting"  -> "healthy"
      [] pc = "healthy"     -> "registering"
      [] pc = "registering" -> "register"

\* One transaction per service state; a refusal abandons the start as it is.
Advance(t) ==
    LET self == thread[t]
        next == [self.copy EXCEPT !.svc = NextService(self.pc)]
    IN
    /\ self.pc \in {"restarting", "healthy", "registering"}
    /\ UNCHANGED <<streak, boot, routerVars, nodeVars, clock, faults>>
    /\ \/ Commit(next, ops) /\ WriteGoto(t, NextPlace(self.pc), next, self.why)
       \/ Refused(next) /\ End(t)

\* failStart books a Router failure met while settling under OpRegister.
RouterFailure(why) == IF why \in {"settle", "settled"} THEN "reg" ELSE why

(***************************************************************************)
(* register: reuse a membership of the same role, replace one of another   *)
(* role (close it, remove it, add it again), add a missing one.  A fresh   *)
(* membership may or may not be routable before readiness is opened.       *)
(***************************************************************************)
Register(t) ==
    LET self == thread[t]
        i    == self.copy.ident
        role == self.copy.role
        again == self.why = "settle" /\ self.copy.svc = "SERVING"
                     /\ self.copy.worker = WorkerId(i)
        copy == [self.copy EXCEPT !.worker = WorkerId(i)]
        Added(ready) == [listed |-> TRUE, type |-> role, ready |-> ready]
    IN
    /\ self.pc = "register"
    /\ UNCHANGED <<dbVars, streak, boot, epoch, nodeVars, clock>>
    /\ \/ /\ Member(i, role)
          /\ UNCHANGED mem
          /\ Works /\ Goto(t, "open", copy, IF again THEN "settled" ELSE self.why)
       \/ /\ ~Member(i, role)
          /\ \E ready \in BOOLEAN : mem' = [mem EXCEPT ![i] = Added(ready)]
          /\ Works /\ Goto(t, "open", copy, self.why)
       \/ /\ \/ UNCHANGED mem
             \/ /\ mem[i].listed /\ mem[i].type # role
                /\ \/ mem' = [mem EXCEPT ![i].ready = FALSE]
                   \/ mem' = [mem EXCEPT ![i] = NotListed]
             \/ /\ ~mem[i].listed
                /\ mem' = [mem EXCEPT ![i] = Added(FALSE)]
          /\ Fails("router")
          /\ Goto(t, "fail", self.copy, RouterFailure(self.why))

\* ensureReadiness: the worker has to exist; readiness is opened if it is not.
Open(t) ==
    LET self == thread[t]
        i    == self.copy.ident
        known == mem[i].listed /\ self.copy.worker = WorkerId(i)
    IN
    /\ self.pc = "open"
    /\ UNCHANGED <<dbVars, streak, boot, epoch, nodeVars, clock>>
    /\ \/ /\ known /\ self.why = "settled" /\ mem[i].ready
          /\ UNCHANGED mem /\ Works /\ End(t)
       \/ /\ known /\ ~(self.why = "settled" /\ mem[i].ready)
          /\ mem' = [mem EXCEPT ![i].ready = TRUE]
          /\ Works /\ Goto(t, "serve", self.copy, self.why)
       \/ /\ ~known /\ UNCHANGED mem /\ Works
          /\ Goto(t, "fail", self.copy, RouterFailure(self.why))
       \/ /\ known /\ UNCHANGED mem /\ Fails("router")
          /\ Goto(t, "fail", self.copy, RouterFailure(self.why))

\* A service that reaches SERVING owes nothing of its start budget.
ServingRow(copy) ==
    IF copy.svc = "SERVING" THEN copy
    ELSE [copy EXCEPT !.svc = "SERVING", !.start = 0, !.rearms = 0, !.parked = FALSE]

Serve(t) ==
    LET self == thread[t]
        next == ServingRow(self.copy)
        opsNext == IF self.why \in {"settle", "settled"} THEN ops
                   ELSE Put("start", self.copy.ident, "closed")
    IN
    /\ self.pc = "serve"
    /\ UNCHANGED <<streak, boot, routerVars, nodeVars, clock, faults>>
    /\ \/ Commit(next, opsNext) /\ WriteEnd(t)
       \/ Refused(next) /\ End(t)

\* failStart: FAILED, and parked with a stamp once the budget is spent.
FailedRow_Unstamped(copy) == [copy EXCEPT !.svc = "FAILED"]

FailedRow(copy) ==
    [copy EXCEPT !.svc = "FAILED", !.parked = Spent(copy)]

FailStart(t) ==
    LET self == thread[t]
        next == FailedRow(self.copy)
        opsNext == IF self.why = "reg" THEN ops
                   ELSE Put("start", self.copy.ident,
                            IF next.parked THEN "closed" ELSE "gated")
    IN
    /\ self.pc = "fail"
    /\ UNCHANGED <<streak, boot, routerVars, nodeVars, faults>>
    /\ \/ /\ Commit(next, opsNext) /\ WriteEnd(t)
          /\ clock' = [clock EXCEPT !.cool = @ /\ ~next.parked]
       \/ Refused(next) /\ End(t) /\ UNCHANGED clock
-----------------------------------------------------------------------------
(***************************************************************************)
(* beginDrain: close readiness, then enter DRAINING.  A drain for a        *)
(* reclaim or a revoke is to release the container afterwards; a plain one *)
(* leaves it idle.  Escalating a plain drain is done by the merge in the   *)
(* store: every caller that releases has requested the reclaim first.      *)
(***************************************************************************)
Releases(why) == why \in {"reclaim", "revoke"}

\* Callers that reclaim record the error; the others just return it.
DrainError(t, copy, why) ==
    IF Releases(why) THEN Hold(t, "reclaimerr", copy, why) ELSE End(t)

BeginDrain(t) ==
    LET self == thread[t]
        copy == [row EXCEPT !.worker = ResolvedWorker(row)]
        closes == row.svc \notin {"NONE", "DRAINING"}
    IN
    /\ self.pc = "drain"
    /\ MayLock(t)
    /\ UNCHANGED <<dbVars, streak, boot, epoch, nodeVars, clock>>
    /\ \/ /\ row.svc = "DRAINING"
          /\ UNCHANGED mem /\ Works /\ End(t)
       \/ /\ row.svc = "NONE"
          /\ UNCHANGED mem /\ Works
          /\ IF Releases(self.why) THEN Hold(t, "release", row, self.why) ELSE End(t)
       \/ /\ closes
          /\ mem' = Closed(copy.worker)
          /\ Works /\ Hold(t, "draincommit", copy, self.why)
       \/ /\ closes
          /\ mem' \in {mem, Closed(copy.worker)}
          /\ Fails("router") /\ DrainError(t, row, self.why)

\* A pending reclaim has set the deadline already and keeps it.
DrainCommit(t) ==
    LET self == thread[t]
        next == [self.copy EXCEPT !.svc = "DRAINING", !.deadline = TRUE,
                                  !.pr = Releases(self.why)]
    IN
    /\ self.pc = "draincommit"
    /\ UNCHANGED <<streak, boot, routerVars, nodeVars, faults>>
    /\ \/ /\ Commit(next, Put("drain", self.copy.ident, "open"))
          /\ clock' = [clock EXCEPT !.drain = @ /\ row.pr]
          /\ IF self.why = "reclaim" THEN WriteHold(t, "finish", Merged(row, next), self.why)
             ELSE WriteEnd(t)
       \/ /\ Refused(next)
          /\ UNCHANGED clock
          /\ DrainError(t, row, self.why)

\* recordReclaimError: FAILED plus the pending reclaim, retried after a delay.
ReclaimErr(t) ==
    LET self == thread[t]
        next == [row EXCEPT !.svc = IF @ \in {"NONE", "DRAINING"} THEN @ ELSE "FAILED"]
    IN
    /\ self.pc = "reclaimerr"
    /\ UNCHANGED <<streak, boot, routerVars, nodeVars, clock, faults>>
    /\ \/ /\ row.pr
          /\ Commit(next, Put("drain", row.ident, "gated"))
          /\ WriteEnd(t)
       \/ /\ ~row.pr \/ ~Accepts(row, next)
          /\ UNCHANGED dbVars
          /\ End(t)

(***************************************************************************)
(* finishDrain: wait for the load to reach zero or the deadline to pass,   *)
(* stop the process, leave the instance idle and go on to its release or   *)
(* to its new identity.                                                    *)
(***************************************************************************)
Stopped_NotAwaited(i) == [proc EXCEPT ![i].ok = FALSE]
Stopped(i) == [proc EXCEPT ![i].phase = "STOPPED", ![i].ok = FALSE]

\* The Router can report the load only of a worker it lists.
LoadKnown == row.worker # NoWorker /\ Listed(row.ident)

FinishDrain(t) ==
    LET self == thread[t]
        i    == row.ident
        gone == row.inst # "LOST" /\ ~held
        live == self.copy.ident = i /\ row.svc = "DRAINING"
        due  == live /\ ~gone /\ (clock.drain \/ LoadKnown)
    IN
    /\ self.pc = "finish"
    /\ MayLock(t)
    /\ UNCHANGED <<dbVars, streak, boot, routerVars, reach, held, issued, clock>>
    /\ \/ /\ ~live \/ (~gone /\ ~clock.drain)
          /\ UNCHANGED proc /\ Works /\ End(t)
       \/ /\ (live /\ gone) \/ (due /\ row.inst = "LOST")
          /\ UNCHANGED proc /\ Works /\ Hold(t, "drained", row, self.why)
       \/ /\ due /\ row.inst # "LOST" /\ BootstrapAnswers(i)
          /\ proc' = Stopped(i)
          /\ Hold(t, "drained", row, self.why)
       \/ /\ due /\ row.inst # "LOST" /\ BootstrapError(i)
          /\ UNCHANGED proc
          /\ Hold(t, "drainfail", row, self.why)
       \/ /\ due /\ row.inst # "LOST" /\ reach[i] /\ Fails("bootstrap")
          /\ proc' = Stopped(i)                  \* done, but the reply is lost
          /\ Hold(t, "drainfail", row, self.why)

DrainedRow(copy) ==
    [copy EXCEPT !.svc = "NONE", !.role = NoRole,
                 !.start = 0, !.rearms = 0, !.parked = FALSE,
                 !.deadline = FALSE, !.pr = FALSE]

\* applyInstanceUpdate, and back to the preparation pipeline.
MovedRow(copy) ==
    [DrainedRow(copy) EXCEPT !.inst = "PREPARING", !.ident = copy.pu.ident,
                             !.seen = copy.pu.at, !.prep = 0,
                             !.worker = NoWorker, !.pu = NoUpdate]

Drained(t) ==
    LET self  == thread[t]
        moves == HasUpdate(self.copy) /\ ~self.copy.pr
        next  == IF moves THEN MovedRow(self.copy) ELSE DrainedRow(self.copy)
        ok    == IF moves THEN AcceptsUpdate(row, next) ELSE Accepts(row, next)
    IN
    /\ self.pc = "drained"
    /\ UNCHANGED <<streak, boot, routerVars, nodeVars, faults>>
    /\ \/ /\ ok
          /\ row' = IF moves THEN Updated(row, next) ELSE Merged(row, next)
          /\ ops' = Put("drain", self.copy.ident, "closed")
          /\ clock' = [clock EXCEPT !.drain = @ /\ row'.deadline]
          /\ IF self.copy.pr THEN WriteHold(t, "release", row', "reclaim") ELSE WriteEnd(t)
       \/ /\ ~ok
          /\ UNCHANGED <<dbVars, clock>>
          /\ End(t)

DrainFail(t) ==
    LET self == thread[t]
        next == self.copy
    IN
    /\ self.pc = "drainfail"
    /\ UNCHANGED <<streak, boot, routerVars, nodeVars, clock, faults>>
    /\ \/ Commit(next, Put("drain", self.copy.ident, "gated")) /\ WriteEnd(t)
       \/ Refused(next) /\ End(t)

(***************************************************************************)
(* BeginRelease: record RELEASING, give the container back, record         *)
(* RELEASED.  It takes no lock itself: some callers hold it, the operator  *)
(* and the retry of an interrupted release do not.                         *)
(***************************************************************************)
BeginRelease(t) ==
    LET self == thread[t]
        skip == row.inst = "RELEASED" \/ HasService(row) \/ ~Due("release")
    IN
    /\ self.pc = "release"
    /\ UNCHANGED <<dbVars, streak, boot, routerVars, nodeVars, clock, faults>>
    /\ IF skip THEN End(t) ELSE Goto(t, "releasing", row, self.why)

Releasing(t) ==
    LET self == thread[t]
        next == [self.copy EXCEPT !.inst = "RELEASING"]
    IN
    /\ self.pc = "releasing"
    /\ UNCHANGED <<streak, boot, routerVars, nodeVars, clock, faults>>
    /\ \/ /\ Commit(next, Put("release", self.copy.ident, "open"))
          /\ WriteGoto(t, "return", next, self.why)
       \/ /\ Refused(next)
          /\ IF self.why = "revoke" THEN Goto(t, "reclaimerr", row, self.why) ELSE End(t)

(***************************************************************************)
(* adapter.ReleaseInstance names the instance, not the lease: it returns   *)
(* whatever container the partner holds under that name.  A container the  *)
(* partner does not list is released already.                              *)
(***************************************************************************)
GiveBack ==
    /\ held' = FALSE
    /\ proc' = [proc EXCEPT ![issued] = NoContainer]
    /\ reach' = [reach EXCEPT ![issued] = FALSE]
    /\ UNCHANGED issued

Return(t) ==
    LET self == thread[t] IN
    /\ self.pc = "return"
    /\ UNCHANGED <<dbVars, streak, boot, routerVars, clock>>
    /\ \/ held /\ GiveBack /\ Works /\ Goto(t, "returned", self.copy, self.why)
       \/ ~held /\ UNCHANGED nodeVars /\ Works /\ Goto(t, "returned", self.copy, self.why)
       \/ /\ Fails("partner")
          /\ UNCHANGED nodeVars \/ (held /\ GiveBack)
          /\ Goto(t, "returnfail", self.copy, self.why)

Returned(t) ==
    LET self == thread[t]
        next == IF self.pc = "returned"
                THEN [self.copy EXCEPT !.inst = "RELEASED", !.pr = FALSE,
                                       !.deadline = FALSE, !.role = NoRole]
                ELSE self.copy
        op   == IF self.pc = "returned" THEN "closed" ELSE "gated"
    IN
    /\ self.pc \in {"returned", "returnfail"}
    /\ UNCHANGED <<streak, boot, routerVars, nodeVars, faults>>
    /\ \/ /\ Commit(next, Put("release", self.copy.ident, op))
          /\ clock' = [clock EXCEPT !.drain = @ /\ row'.deadline]
          /\ IF self.why = "revoke" /\ self.pc = "returnfail"
             THEN WriteGoto(t, "reclaimerr", row', self.why) ELSE WriteEnd(t)
       \/ /\ Refused(next)
          /\ UNCHANGED clock
          /\ IF self.why = "revoke" THEN Goto(t, "reclaimerr", row, self.why) ELSE End(t)
-----------------------------------------------------------------------------
(***************************************************************************)
(* ReconcileOnce and reconcileInstance: take a snapshot of the row and     *)
(* branch on it.  The snapshot is acted on after a network call, and only  *)
(* some branches look at the row again.                                    *)
(***************************************************************************)
IdleThread(t) == thread[t] = Idle
Booted == boot = {}

Reconcile(t) ==
    /\ t = Reconciler \/ "round" \in Caller
    /\ Booted /\ IdleThread(t)
    /\ row.inst # "RELEASED"
    /\ LET pc == IF row.pr THEN "reclaim"
                 ELSE IF HasUpdate(row) /\ row.svc # "DRAINING" THEN "update"
                 ELSE IF row.inst = "RELEASING" THEN "release"
                 ELSE "probe"
       IN  thread' = [thread EXCEPT ![t] = [At(pc, row, "") EXCEPT !.fresh = TRUE]]
    /\ UNCHANGED <<dbVars, lock, streak, boot, routerVars, nodeVars, clock, faults>>

\* reconcileReclaim looks at the row again, but not at pending_release.
ReclaimStep(t) ==
    LET self == thread[t]
        none == row.svc = "NONE"
    IN
    /\ self.pc = "reclaim"
    /\ UNCHANGED <<dbVars, streak, boot, routerVars, nodeVars, clock, faults>>
    /\ \/ /\ \/ ~MayLock(t)
             \/ row.inst = "RELEASED"
             \/ none /\ ~Due("release")
             \/ ~none /\ ~Due("drain")
          /\ End(t)
       \/ /\ MayLock(t)
          /\ row.inst # "RELEASED"
          /\ \/ none /\ Due("release") /\ Hold(t, "release", row, "reclaim")
             \/ /\ ~none /\ Due("drain")
                /\ Hold(t, IF row.svc = "DRAINING" THEN "finish" ELSE "drain",
                        row, "reclaim")

UpdateStep(t) ==
    LET self == thread[t] IN
    /\ self.pc = "update"
    /\ UNCHANGED <<dbVars, streak, boot, routerVars, nodeVars, clock, faults>>
    /\ IF MayLock(t) THEN Hold(t, "drain", row, "plain") ELSE End(t)

\* Probe: the health of the endpoint in the snapshot.
Probe(t) ==
    LET self == thread[t]
        i    == self.copy.ident
    IN
    /\ self.pc = "probe"
    /\ UNCHANGED <<dbVars, lock, streak, boot, routerVars, nodeVars, clock>>
    /\ \/ /\ BootstrapAnswers(i)
          /\ thread' = [thread EXCEPT ![t].pc = "act", ![t].why = proc[i].phase]
       \/ /\ BootstrapError(i)
          /\ thread' = [thread EXCEPT ![t].pc = "unreach"]

\* An unreachable container: count the miss, and condemn it at the threshold.
Unreach(t) ==
    LET self == thread[t]
        wasLost == self.copy.inst = "LOST"
        misses == IF wasLost THEN streak.unreachable ELSE streak.unreachable + 1
        condemn == wasLost \/ misses >= LostFailureThreshold
    IN
    /\ self.pc = "unreach"
    /\ UNCHANGED <<dbVars, boot, epoch, nodeVars, clock>>
    /\ \/ /\ ~MayLock(t) \/ ~self.fresh
          /\ UNCHANGED <<streak, mem>> /\ Works /\ End(t)
       \/ /\ MayLock(t) /\ self.fresh /\ ~condemn
          /\ streak' = [streak EXCEPT !.unreachable = misses]
          /\ UNCHANGED mem /\ Works /\ End(t)
       \/ /\ MayLock(t) /\ self.fresh /\ condemn
          /\ streak' = [streak EXCEPT !.unreachable = IF wasLost THEN 0 ELSE LostFailureThreshold]
          /\ mem' = Closed(ResolvedWorker(self.copy)) /\ Works
          /\ IF wasLost THEN End(t) ELSE Hold(t, "lost", self.copy, "")
       \/ /\ MayLock(t) /\ self.fresh /\ condemn
          /\ streak' = [streak EXCEPT !.unreachable = IF wasLost THEN @ ELSE LostFailureThreshold]
          /\ UNCHANGED mem /\ Fails("router")
          /\ IF wasLost THEN End(t) ELSE Hold(t, "lost", self.copy, "reg")

\* markLost stores LOST even when readiness could not be closed.
Lost(t) ==
    LET self == thread[t]
        next == [self.copy EXCEPT !.inst = "LOST"]
    IN
    /\ self.pc = "lost"
    /\ UNCHANGED <<boot, routerVars, nodeVars, clock, faults>>
    /\ \/ /\ Commit(next, ops) /\ WriteEnd(t)
          /\ streak' = [streak EXCEPT !.unreachable = IF self.why = "reg" THEN @ ELSE 0]
       \/ Refused(next) /\ End(t) /\ UNCHANGED streak

(***************************************************************************)
(* The container answered.  Each action below is one branch of the rest of *)
(* reconcileInstance; self.why is the phase the probe observed.            *)
(***************************************************************************)
Answered(t) ==
    /\ thread[t].pc = "act"
    /\ streak' = [streak EXCEPT !.unreachable = 0]
    /\ UNCHANGED boot

\* The process exited under a service the database believes in.
ExitedService(self) ==
    /\ self.why = "FAILED"
    /\ self.copy.inst = "IDLE"
    /\ self.copy.svc \notin {"FAILED", "DRAINING"}
    /\ self.copy.role \in Role

ActExited(t) ==
    LET self == thread[t]
        may  == MayLock(t) /\ ~row.pr /\ self.fresh
    IN
    /\ Answered(t) /\ ExitedService(self)
    /\ UNCHANGED <<dbVars, epoch, nodeVars, clock>>
    /\ \/ /\ ~may
          /\ UNCHANGED mem /\ Works /\ End(t)
       \/ /\ may
          /\ mem' = Closed(self.copy.worker) /\ Works
          /\ Hold(t, "fail", self.copy, "")
       \/ /\ may /\ self.copy.worker # NoWorker
          /\ mem' \in {mem, Closed(self.copy.worker)}
          /\ Fails("router") /\ End(t)

\* The container came back.  The snapshot is written as it is.
RecoveredRow(copy) ==
    [copy EXCEPT !.inst = "PREPARING",
                 !.svc  = IF @ = "NONE" THEN "NONE" ELSE "FAILED"]

ActLost(t) ==
    LET self == thread[t]
        next == RecoveredRow(self.copy)
    IN
    /\ Answered(t)
    /\ self.copy.inst = "LOST"
    /\ UNCHANGED <<routerVars, nodeVars, clock, faults>>
    /\ \/ /\ self.copy.svc = "DRAINING"
          /\ UNCHANGED dbVars
          /\ Goto(t, "finish", self.copy, "")
       \/ /\ self.copy.svc # "DRAINING" /\ Free
          /\ Commit(next, ops)
          /\ WriteGoto(t, "prepare", next, "")
       \/ /\ self.copy.svc # "DRAINING" /\ (~Free \/ ~Accepts(row, next))
          /\ UNCHANGED dbVars
          /\ End(t)

\* FAILED: repair a process that still runs, else retry, re-arm or stay parked.
ActFailed(t) ==
    LET self  == thread[t]
        copy  == self.copy
        runs  == proc[copy.ident].phase = "RUNNING" /\ copy.role \in Role
        spent == Spent(copy)
        rearm == copy.rearms < StartRetryMaxRearms /\ copy.parked /\ clock.cool
        Retry ==
            \/ spent /\ rearm /\ Goto(t, "rearm", copy, "")
            \/ ~spent /\ Due("start") /\ copy.role \in Role
               /\ Goto(t, "start", copy, "retry")
            \/ /\ (spent /\ ~rearm) \/ (~spent /\ (~Due("start") \/ copy.role \notin Role))
               /\ End(t)
    IN
    /\ Answered(t)
    /\ copy.inst = "IDLE" /\ copy.svc = "FAILED"
    /\ UNCHANGED <<dbVars, routerVars, nodeVars, clock>>
    /\ \/ BootstrapAnswers(copy.ident) /\ runs /\ Goto(t, "settle", copy, "")
       \/ BootstrapAnswers(copy.ident) /\ ~runs /\ Retry
       \/ BootstrapError(copy.ident) /\ Retry

\* STARTING without an owner for several rounds: resume it or condemn it.
ActStarting(t) ==
    LET self == thread[t]
        i    == self.copy.ident
    IN
    /\ Answered(t) /\ ~ExitedService(self)
    /\ self.copy.inst = "IDLE" /\ self.copy.svc = "STARTING"
    /\ UNCHANGED <<dbVars, routerVars, nodeVars, clock>>
    /\ \/ ~MayLock(t) /\ Works /\ End(t)
       \/ /\ MayLock(t) /\ BootstrapAnswers(i) /\ proc[i].phase = "RUNNING"
          /\ IF row.svc = "STARTING" THEN Hold(t, "health", row, "resume") ELSE End(t)
       \/ /\ MayLock(t)
          /\ BootstrapError(i) \/ (BootstrapAnswers(i) /\ proc[i].phase # "RUNNING")
          /\ Hold(t, "fail", self.copy, "")

\* Everything else goes on to its own operation, or nowhere.
ActOn(t) ==
    LET self == thread[t]
        copy == self.copy
        live == copy.svc \in {"HEALTHY", "REGISTERING", "SERVING"}
        drain == copy.svc = "DRAINING"
    IN
    /\ Answered(t) /\ ~ExitedService(self)
    /\ UNCHANGED <<dbVars, routerVars, nodeVars, clock, faults>>
    /\ \/ copy.inst = "PREPARING" /\ Goto(t, "prepare", copy, "")
       \/ copy.inst = "IDLE" /\ live /\ Goto(t, "settle", copy, "")
       \/ copy.inst = "IDLE" /\ drain /\ Due("drain") /\ Goto(t, "finish", copy, "")
       \/ /\ \/ copy.inst = "ALLOCATING"
             \/ copy.inst = "IDLE" /\ copy.svc = "NONE"
             \/ copy.inst = "IDLE" /\ drain /\ ~Due("drain")
          /\ End(t)

(***************************************************************************)
(* settleService: compare the row with the process and the Router, repair  *)
(* the membership, or condemn the process after enough missed probes.      *)
(***************************************************************************)
Larger == Later(ReadinessFailureThreshold, HealthFailureThreshold)

Settle(t) ==
    LET self == thread[t]
        i    == row.ident
        p    == proc[i]
        may  == /\ MayLock(t)
                /\ ~row.pr /\ ~HasUpdate(row) /\ row.inst = "IDLE"
                /\ row.svc \in {"FAILED", "HEALTHY", "REGISTERING", "SERVING"}
        runs == may /\ reach[i] /\ p.phase = "RUNNING"
        misses == IF streak.unhealthy < Larger THEN streak.unhealthy + 1 ELSE Larger
        next == CASE row.svc = "FAILED"  -> "restarting"
                  [] row.svc = "HEALTHY" -> "registering"
                  [] OTHER               -> "register"
    IN
    /\ self.pc = "settle"
    /\ UNCHANGED <<dbVars, boot, epoch, nodeVars, clock>>
    /\ \/ /\ ~may
          /\ UNCHANGED <<streak, mem>> /\ Works /\ End(t)
       \/ /\ may /\ BootstrapError(i)
          /\ UNCHANGED <<streak, mem>> /\ End(t)
       \/ /\ may /\ reach[i] /\ p.phase # "RUNNING"
          /\ UNCHANGED streak
          /\ \/ mem' = Closed(ResolvedWorker(row)) /\ Works /\ Hold(t, "fail", row, "settle")
             \/ UNCHANGED mem /\ Fails("router") /\ End(t)
       \/ /\ runs /\ p.role # row.role                 \* another role is running
          /\ UNCHANGED <<streak, mem>> /\ Works
          /\ Hold(t, "drain", row, "plain")
       \/ /\ runs /\ p.role = row.role /\ ~p.ok        \* busy: not counted
          /\ Listed(i) /\ row.worker \in {NoWorker, WorkerId(i)}
          /\ UNCHANGED <<streak, mem>> /\ Works /\ End(t)
       \/ /\ runs /\ p.role = row.role /\ ~p.ok        \* idle: one more miss
          /\ streak' = [streak EXCEPT !.unhealthy = misses]
          /\ \/ /\ Works
                /\ mem' = IF misses >= ReadinessFailureThreshold
                          THEN Closed(ResolvedWorker(row)) ELSE mem
                /\ IF misses >= HealthFailureThreshold
                   THEN Hold(t, "fail", row, "settle") ELSE End(t)
             \/ /\ misses >= ReadinessFailureThreshold
                /\ UNCHANGED mem /\ Fails("router") /\ End(t)
       \/ /\ runs /\ p.role = row.role /\ p.ok
          /\ streak' = [streak EXCEPT !.unhealthy = 0]
          /\ UNCHANGED mem /\ Works
          /\ Hold(t, next, row, "settle")

(***************************************************************************)
(* A spent start budget: rearmStartBudget after the cooldown, and          *)
(* RequeueService by the operator.                                         *)
(***************************************************************************)
Parked(r) ==
    /\ r.inst = "IDLE" /\ r.svc = "FAILED" /\ r.role \in Role
    /\ Spent(r)

Rearm(t) ==
    LET self == thread[t]
        next == [row EXCEPT !.start = 0, !.rearms = @ + 1, !.parked = FALSE]
        may  == /\ Parked(row) /\ ~row.pr /\ ~HasUpdate(row)
                /\ row.rearms < StartRetryMaxRearms /\ row.parked /\ clock.cool
    IN
    /\ self.pc = "rearm"
    /\ Free
    /\ UNCHANGED <<streak, boot, routerVars, nodeVars, clock, faults>>
    /\ \/ may /\ Commit(next, Put("start", row.ident, "open")) /\ WriteEnd(t)
       \/ ~may /\ UNCHANGED dbVars /\ End(t)

\* Operator calls that are one transaction need no goroutine of their own.
OutdateAll == thread' = [u \in Thread |-> [thread[u] EXCEPT !.fresh = FALSE]]

RequeueService ==
    LET next == [row EXCEPT !.start = 0, !.rearms = 0, !.parked = FALSE] IN
    /\ "requeue" \in Caller
    /\ Booted /\ Free
    /\ Parked(row)
    /\ Commit(next, Put("start", row.ident, "open"))
    /\ OutdateAll
    /\ UNCHANGED <<lock, streak, boot, routerVars, nodeVars, clock, faults>>

RequestReclaim ==
    /\ "reclaim" \in Caller
    /\ Booted
    /\ ~row.pr /\ row.inst # "RELEASED"
    /\ row' = RequestRelease(row)
    /\ clock' = [clock EXCEPT !.drain = @ /\ row.deadline]
    /\ OutdateAll
    /\ UNCHANGED <<ops, lock, streak, boot, routerVars, nodeVars, faults>>

(***************************************************************************)
(* Goroutines that begin in another way than by a reconcile round.         *)
(***************************************************************************)
Begin(t, caller) ==
    /\ caller \in Caller
    /\ Booted /\ IdleThread(t) /\ t # Reconciler

\* A failed start is retried by the reconciler, not raced by the planner.
assignable(r) == r.svc = "NONE" \/ (r.svc = "FAILED" /\ r.start < 1)

\* The planner assigns a role; reserveStart allows one such start at a time.
PlannerStart(t) ==
    /\ Begin(t, "plan")
    /\ row.inst = "IDLE" /\ row.role = NoRole /\ assignable(row)
    /\ ~row.pr /\ ~HasUpdate(row)
    /\ \A u \in Thread : thread[u].why # "planner"
    /\ \E role \in Role : Goto(t, "start", [row EXCEPT !.role = role], "planner")
    /\ UNCHANGED <<dbVars, streak, boot, routerVars, nodeVars, clock, faults>>

\* BeginDrain by the planner or the operator.
PlainDrain(t) ==
    /\ Begin(t, "drain")
    /\ HasService(row)
    /\ Goto(t, "drain", row, "plain")
    /\ UNCHANGED <<dbVars, streak, boot, routerVars, nodeVars, clock, faults>>

\* POST /release calls BeginRelease without the lock.
OperatorRelease(t) ==
    /\ Begin(t, "release")
    /\ row.inst # "RELEASED"
    /\ Goto(t, "release", row, "")
    /\ UNCHANGED <<dbVars, streak, boot, routerVars, nodeVars, clock, faults>>

\* CAPACITY_REVOKED for the current lease: the request is durable first.
Revoke(t) ==
    /\ Begin(t, "revoke")
    /\ row.inst # "RELEASED"
    /\ row' = RequestRelease(row)
    /\ clock' = [clock EXCEPT !.drain = @ /\ row.deadline]
    /\ thread' = IF row.pr THEN [thread EXCEPT ![t] = At("revoked", row, "revoke")]
                 ELSE Outdated(t, At("revoked", row, "revoke"))
    /\ UNCHANGED <<ops, lock, streak, boot, routerVars, nodeVars, faults>>

Revoked(t) ==
    LET self == thread[t] IN
    /\ self.pc = "revoked"
    /\ UNCHANGED <<dbVars, streak, boot, routerVars, nodeVars, clock, faults>>
    /\ IF Free /\ self.copy.ident = row.ident /\ row.pr
       THEN Hold(t, "drain", row, "revoke") ELSE End(t)

\* applyInstanceUpdate of the identity that is pending, if one is.
RebasedRow ==
    IF HasUpdate(row)
    THEN [row EXCEPT !.prep = 0, !.start = 0, !.rearms = 0, !.parked = FALSE,
                     !.pu = NoUpdate]
    ELSE row

\* CAPACITY_UPDATED: the partner observed identity `issued`.
CapacityUpdated(t) ==
    LET queued == [row EXCEPT !.pu = [ident |-> issued, at |-> issued]]
        moved  == [RebasedRow EXCEPT !.ident = issued, !.seen = issued]
        next   == IF row.inst \in {"IDLE", "LOST"}
                  THEN [moved EXCEPT !.inst = "PREPARING", !.prep = 0, !.start = 0,
                                     !.rearms = 0, !.parked = FALSE,
                                     !.worker = NoWorker]
                  ELSE moved
    IN
    /\ Begin(t, "move")
    /\ Free
    /\ held /\ issued # row.ident
    /\ ~row.pr /\ row.inst \notin {"RELEASING", "RELEASED"}
    /\ UNCHANGED <<streak, boot, routerVars, nodeVars, clock, faults>>
    /\ \/ /\ HasService(row) /\ Commit(queued, ops)
          /\ WriteHold(t, "drain", queued, "plain")
       \/ /\ ~HasService(row) /\ Commit(next, ops)
          /\ WriteEnd(t)

(***************************************************************************)
(* CAPACITY_ADDED: reoffer a released row under a distinct lease, or       *)
(* resume one that was left ALLOCATING; then commit the preparation        *)
(* intent and prepare.                                                     *)
(***************************************************************************)
Reoffer(t) ==
    /\ Begin(t, "offer")
    /\ Free
    /\ held
    /\ AcceptsReoffer(row, FreshRow(issued))
    /\ row' = Reoffered(row, FreshRow(issued))
    /\ ops' = [o \in OpKind \X Ident |-> "closed"]
    /\ WriteHold(t, "allocate", row', "")
    /\ UNCHANGED <<streak, boot, routerVars, nodeVars, clock, faults>>

ResumeAdd(t) ==
    /\ Booted /\ IdleThread(t) /\ Free
    /\ held /\ row.ident = issued
    /\ row.inst = "ALLOCATING" /\ ~row.pr
    /\ Hold(t, "allocate", row, "")
    /\ UNCHANGED <<dbVars, streak, boot, routerVars, nodeVars, clock, faults>>

Allocate(t) ==
    LET self == thread[t]
        next == [self.copy EXCEPT !.inst = "PREPARING"]
        may  == row.inst = "ALLOCATING" /\ Accepts(row, next)
    IN
    /\ self.pc = "allocate"
    /\ UNCHANGED <<streak, boot, routerVars, nodeVars, clock, faults>>
    /\ \/ /\ may /\ Commit(next, Put("prepare", self.copy.ident, "open"))
          /\ WriteGoto(t, "prepare", next, "resume")
       \/ ~may /\ UNCHANGED dbVars /\ End(t)
-----------------------------------------------------------------------------
(***************************************************************************)
(* Crash and recovery.  A crash loses goroutines, locks and counters.      *)
(* Recover replays the open operations before anything else begins; an     *)
(* operation of an earlier lease counts, because rows are found by id.     *)
(***************************************************************************)
Crash ==
    /\ Fails("crash")
    /\ thread' = [t \in Thread |-> Idle]
    /\ lock' = NoThread
    /\ streak' = [unreachable |-> 0, unhealthy |-> 0]
    /\ boot' = BootStage
    /\ UNCHANGED <<dbVars, routerVars, nodeVars, clock>>

\* The client of an API call went away: its context ends the call anywhere.
Cancel(t) ==
    /\ Fails("cancel")
    /\ t # Reconciler /\ ~IdleThread(t)
    /\ End(t)
    /\ UNCHANGED <<dbVars, streak, boot, routerVars, nodeVars, clock>>

Resumable(kind) ==
    /\ \E i \in Ident : ops[<<kind, i>>] = "open"
    /\ CASE kind = "prepare" -> ~row.pr /\ row.inst = "PREPARING"
         [] kind = "start"   -> /\ ~row.pr /\ ~HasUpdate(row)
                                /\ ~Spent(row)
                                /\ row.inst = "IDLE" /\ row.role \in Role
                                /\ row.svc \in {"FAILED", "NONE"}
                                /\ Due("start")
         [] kind = "drain"   -> row.svc = "DRAINING"
         [] kind = "release" -> row.inst = "RELEASING"

ResumePlace(kind) == IF kind = "drain" THEN "finish" ELSE kind

ResumeOpenOperation(kind) ==
    /\ kind \in boot
    /\ \A t \in Thread : IdleThread(t)
    /\ boot' = boot \ {kind}
    /\ IF Resumable(kind)
       THEN Goto(Reconciler, ResumePlace(kind), row, "resume")
       ELSE UNCHANGED <<thread, lock>>
    /\ UNCHANGED <<dbVars, streak, routerVars, nodeVars, clock, faults>>

\* main starts the reconcile loop and the listener when Recover has returned.
Listen ==
    /\ boot = {"listen"}
    /\ \A t \in Thread : IdleThread(t)
    /\ boot' = {}
    /\ UNCHANGED <<dbVars, lock, thread, streak, routerVars, nodeVars, clock, faults>>

-----------------------------------------------------------------------------
(***************************************************************************)
(* The world: containers, the Router, the partner and the passing of time. *)
(***************************************************************************)
worldUnchanged == UNCHANGED <<dbVars, ctlVars>>

Partition(i) ==
    /\ Fails("partition") /\ reach[i]
    /\ reach' = [reach EXCEPT ![i] = FALSE]
    /\ worldUnchanged /\ UNCHANGED <<routerVars, proc, held, issued, clock>>

Heal(i) ==
    /\ ~reach[i] /\ proc[i].phase # "GONE"
    /\ reach' = [reach EXCEPT ![i] = TRUE]
    /\ worldUnchanged /\ UNCHANGED <<routerVars, proc, held, issued, clock, faults>>

\* The model is loaded, or answers its health probe again.
Loaded(i) ==
    /\ proc[i].phase = "RUNNING" /\ ~proc[i].ok
    /\ proc' = [proc EXCEPT ![i].ok = TRUE]
    /\ worldUnchanged /\ UNCHANGED <<routerVars, reach, held, issued, clock, faults>>

Degrades(i) ==
    /\ Fails("degrade")
    /\ proc[i].phase = "RUNNING" /\ proc[i].ok
    /\ proc' = [proc EXCEPT ![i].ok = FALSE]
    /\ worldUnchanged /\ UNCHANGED <<routerVars, reach, held, issued, clock>>

Dies(i) ==
    /\ Fails("death")
    /\ proc[i].phase = "RUNNING"
    /\ proc' = [proc EXCEPT ![i] = Exited(@)]
    /\ worldUnchanged /\ UNCHANGED <<routerVars, reach, held, issued, clock>>

\* A Router that restarts starts without workers and names them anew.
RouterRestarts ==
    /\ Fails("restart")
    /\ epoch' = epoch + 1
    /\ mem' = [i \in Ident |-> NotListed]
    /\ worldUnchanged /\ UNCHANGED <<nodeVars, clock>>

\* The partner recreates the container; the old one may or may not linger.
PartnerMoves ==
    /\ "move" \in Caller
    /\ held /\ issued < MaxIdent
    /\ issued' = issued + 1
    /\ \E lingers \in BOOLEAN :
          LET gone == IF lingers THEN {} ELSE {issued} IN
          /\ lingers \/ "delete" \in Fault
          /\ proc' = [i \in Ident |-> IF i \in gone THEN NoContainer
                                      ELSE IF i = issued + 1 THEN FreshContainer
                                      ELSE proc[i]]
          /\ reach' = [i \in Ident |-> i = issued + 1 \/ (reach[i] /\ i \notin gone)]
    /\ worldUnchanged /\ UNCHANGED <<routerVars, held, clock, faults>>

PartnerOffers ==
    /\ "offer" \in Caller
    /\ row.inst = "RELEASED" /\ ~held /\ issued < MaxIdent
    /\ held' = TRUE
    /\ issued' = issued + 1
    /\ proc' = [proc EXCEPT ![issued + 1] = FreshContainer]
    /\ reach' = [reach EXCEPT ![issued + 1] = TRUE]
    /\ worldUnchanged /\ UNCHANGED <<routerVars, clock, faults>>

PartnerDeletes ==
    /\ Fails("delete")
    /\ held /\ GiveBack
    /\ worldUnchanged /\ UNCHANGED <<routerVars, clock>>

DeadlinePasses ==
    /\ row.deadline /\ ~clock.drain
    /\ clock' = [clock EXCEPT !.drain = TRUE]
    /\ worldUnchanged /\ UNCHANGED <<routerVars, nodeVars, faults>>

CooldownPasses ==
    /\ row.parked /\ ~clock.cool
    /\ clock' = [clock EXCEPT !.cool = TRUE]
    /\ worldUnchanged /\ UNCHANGED <<routerVars, nodeVars, faults>>

RetryPasses(o) ==
    /\ ops[o] = "gated"
    /\ ops' = [ops EXCEPT ![o] = "open"]
    /\ UNCHANGED <<row, ctlVars, routerVars, nodeVars, clock, faults>>

\* Once the instance is released nothing has to happen any more.
Rest ==
    /\ row.inst = "RELEASED"
    /\ \A t \in Thread : IdleThread(t)
    /\ UNCHANGED vars

-----------------------------------------------------------------------------
\* The next step of a goroutine that is in the middle of an operation.
Continue(t) ==
    \/ Prepare(t) \/ PrepareCommit(t)
    \/ StartService(t) \/ Launch(t) \/ Health(t) \/ Advance(t)
    \/ Register(t) \/ Open(t) \/ Serve(t) \/ FailStart(t)
    \/ BeginDrain(t) \/ DrainCommit(t) \/ ReclaimErr(t)
    \/ FinishDrain(t) \/ Drained(t) \/ DrainFail(t)
    \/ BeginRelease(t) \/ Releasing(t) \/ Return(t) \/ Returned(t)
    \/ ReclaimStep(t) \/ UpdateStep(t) \/ Probe(t) \/ Unreach(t) \/ Lost(t)
    \/ ActExited(t) \/ ActLost(t) \/ ActFailed(t) \/ ActStarting(t) \/ ActOn(t)
    \/ Settle(t) \/ Rearm(t) \/ Revoked(t) \/ Allocate(t)

Start(t) ==
    \/ Reconcile(t) \/ ResumeAdd(t)
    \/ PlannerStart(t) \/ PlainDrain(t) \/ OperatorRelease(t)
    \/ Revoke(t) \/ CapacityUpdated(t) \/ Reoffer(t)

Operator == RequeueService \/ RequestReclaim

Recovery == Crash \/ Listen \/ \E kind \in OpKind : ResumeOpenOperation(kind)

Clock ==
    \/ DeadlinePasses \/ CooldownPasses
    \/ \E o \in OpKind \X Ident : RetryPasses(o)

World ==
    \/ \E i \in Ident : \/ Partition(i) \/ Heal(i) \/ Loaded(i)
                        \/ Degrades(i) \/ Dies(i)
    \/ RouterRestarts \/ PartnerMoves \/ PartnerOffers \/ PartnerDeletes
    \/ Clock

Next ==
    \/ \E t \in Thread : Continue(t) \/ Start(t) \/ Cancel(t)
    \/ Operator \/ Recovery \/ World \/ Rest

Spec == Init /\ [][Next]_vars

(***************************************************************************)
(* Fairness.  The Go scheduler runs every goroutine and hands a free lock  *)
(* to a waiter (a mutex in starvation mode is FIFO, so strong fairness for *)
(* the steps that wait); the reconcile loop is a ticker; time passes; a    *)
(* failure that is repaired is repaired eventually.  Failures, operator    *)
(* calls, planner decisions and partner events are never assumed.          *)
(***************************************************************************)
Fairness ==
    /\ \A t \in Thread : SF_vars(Continue(t))
    /\ WF_vars(Reconcile(Reconciler))
    /\ \A t \in Thread : WF_vars(ResumeAdd(t))
    /\ WF_vars(Listen)
    /\ \A kind \in OpKind : WF_vars(ResumeOpenOperation(kind))
    /\ WF_vars(DeadlinePasses) /\ WF_vars(CooldownPasses)
    /\ \A o \in OpKind \X Ident : WF_vars(RetryPasses(o))
    /\ \A i \in Ident : WF_vars(Heal(i)) /\ WF_vars(Loaded(i))

FairSpec == Spec /\ Fairness
=============================================================================
