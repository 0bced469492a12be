------------------------------ MODULE Provision ------------------------------
(***************************************************************************)
(* Creation of containers on demand, from the request to the row in the    *)
(* capacity table: the provision jobs of internal/api/provision.go and     *)
(* their durable rows, the onboarding manager that installs a container    *)
(* over SSH, and EnrollPrepared at the end.                                *)
(*                                                                         *)
(* A job is known by its name.  A thread is the pipeline of a request or,  *)
(* after a restart, the pipeline resumed for a name.  A mutation of the    *)
(* tracker is one step and its storeRecord, which comes after the mutex is *)
(* released, another; a crash loses what was not stored.                   *)
(*                                                                         *)
(* Texts, credentials and the clock are left out: a deadline may pass at   *)
(* any time.  What is known of a platform is what its adapter expects of   *)
(* it.  Over ssh (partners/alayanew) a name is taken for ever, a queued    *)
(* request has an id, and a container that was placed does not go back     *)
(* into the queue.  A container that brings its own bootstrap is a Pod     *)
(* (partners/kubernetes): its id is its name, which is free again when the *)
(* Pod is gone.                                                            *)
(***************************************************************************)
EXTENDS Integers, Sequences, FiniteSets

CONSTANTS
    Request,        \* calls of RequestCapacity
    Name,           \* container names
    Setups          \* what is requested and how often something goes wrong

\* ladder: the names each request tries; path: its pipeline, each with a platform
\* of its own; taken: the names of released containers, which the ssh platform
\* never gives again; fresh: the status of a new container there; crashes, faults
\* (calls that fail) and cancels are bounds.
ASSUME ProvisionAssumption ==
    /\ Request \cap Name = {} /\ "none" \notin Request
    /\ \A s \in Setups :
          /\ DOMAIN s.ladder \subseteq Request
          /\ \A r \in DOMAIN s.ladder : s.ladder[r] \in Seq(Name) \ {<<>>}
          /\ s.path \in [DOMAIN s.ladder -> {"ssh", "self"}]
          /\ s.taken \subseteq Name /\ s.fresh \in {"queued", "running"}
          /\ s.crashes \in Nat /\ s.faults \in Nat /\ s.cancels \in Nat

VARIABLES
    setup,          \* the member of Setups that was chosen
    api,            \* where each call of RequestCapacity is
    job,            \* the tracker, provisionJobs.byName
    row,            \* the table provision_jobs
    pipe,           \* the pipelines
    op,             \* handleCancelProvision
    box,            \* the containers the platform was asked for, in order
    onb,            \* the onboarding jobs, in order, in memory and on disk
    runner,         \* RunOnce
    inst,           \* the capacity rows
    crashes, faults, cancels

jobs  == <<api, job, row, pipe, op>>
onboarding == <<onb, runner, inst>>
bounds == <<crashes, faults, cancels>>
vars  == <<setup, jobs, box, onboarding, bounds>>

Thread   == Request \cup Name
State    == {"QUEUED", "CREATING", "WAITING_SSH", "HANDING_OVER", "MANAGED", "FAILED", "CANCELLED"}
Terminal == {"MANAGED", "FAILED", "CANCELLED"}

\* key and box number the container, 0 for none; req is the request that
\* stands for the partner and the path.
Record == [state : State, key : Nat, box : Nat, req : Request]
None   == [state |-> "none", key |-> 0, box |-> 0, req |-> "none"]

\* seen: the status poll saw a container that exists; ctx: the context of the
\* pipeline is not cancelled; save: what storeRecord has yet to write.
Pc   == {"none", "begin", "create", "wait", "await", "submit", "node", "up", "enrol", "abandon"}
Gone == [pc |-> "none", name |-> "none", try |-> 1, box |-> 0, seen |-> FALSE, ctx |-> TRUE,
         req |-> "none", save |-> None]

Calm == [pc |-> "idle", name |-> "none", save |-> None]
Off  == [pc |-> "idle", job |-> 0]

-----------------------------------------------------------------------------
(***************************************************************************)
(* The tracker.  A record that is not there or was cancelled is not        *)
(* updated; the ids are written whatever its state.                        *)
(***************************************************************************)
Tracked(n) == job[n] # None
Cancelled(n) == Tracked(n) /\ job[n].state = "CANCELLED"

\* The record of name n after update, fail or hold.
Updated_Reopened(n, state) == IF Tracked(n) THEN [job[n] EXCEPT !.state = state] ELSE None
Updated(n, state) ==
    IF Tracked(n) /\ ~Cancelled(n) THEN [job[n] EXCEPT !.state = state] ELSE job[n]

\* Thread t makes rec the record of its name, has it to store, and goes on as next.
Write(t, rec, next) ==
    LET n == pipe[t].name
    IN  /\ job' = [job EXCEPT ![n] = rec]
        /\ pipe' = [pipe EXCEPT ![t] =
                       [next EXCEPT !.save = IF Cancelled(n) /\ rec = job[n] THEN None ELSE rec]]

Update(t, state, pc) ==
    Write(t, Updated(pipe[t].name, state), [pipe[t] EXCEPT !.pc = pc])

\* The goroutine returns; what it has yet to store is stored first.
Exit(t, state) == Write(t, Updated(pipe[t].name, state), [Gone EXCEPT !.name = pipe[t].name])

At(t, pc) == pipe[t].pc = pc /\ pipe[t].save = None
Fault     == faults < setup.faults /\ faults' = faults + 1
NoFault   == UNCHANGED faults

StoreRecord(t) ==
    /\ pipe[t].save # None
    /\ row' = [row EXCEPT ![pipe[t].name] = pipe[t].save]
    /\ pipe' = [pipe EXCEPT ![t] = IF @.pc = "none" THEN Gone ELSE [@ EXCEPT !.save = None]]
    /\ UNCHANGED <<setup, api, job, op, box, onboarding, bounds>>

-----------------------------------------------------------------------------
(***************************************************************************)
(* RequestCapacity: the name is checked in one critical section and added  *)
(* in another, which also stores the row.                                  *)
(***************************************************************************)
CheckName(r) ==
    /\ api[r] = "new"
    /\ api' = [api EXCEPT ![r] = IF Tracked(setup.ladder[r][1]) THEN "refused" ELSE "checked"]
    /\ UNCHANGED <<setup, job, row, pipe, op, box, onboarding, bounds>>

Add(r) ==
    /\ api[r] = "checked"
    /\ LET n   == setup.ladder[r][1]
           rec == [state |-> "QUEUED", key |-> 0, box |-> 0, req |-> r]
       IN  /\ job' = [job EXCEPT ![n] = rec]
           /\ row' = [row EXCEPT ![n] = rec]
           /\ pipe' = [pipe EXCEPT ![r] = [Gone EXCEPT !.pc = "begin", !.name = n, !.req = r]]
    /\ api' = [api EXCEPT ![r] = "done"]
    /\ UNCHANGED <<setup, op, box, onboarding, bounds>>

\* A resumed job goes on where its row says: with the id of the container, or
\* with the key of the request, or with neither.
Begin(t) ==
    LET rec == row[pipe[t].name]
        pc  == IF setup.path[pipe[t].req] = "self" THEN "node"
               ELSE IF t \in Request \/ rec.box + rec.key = 0 THEN "create"
               ELSE IF rec.box = 0 THEN "wait" ELSE "await"
    IN  /\ At(t, "begin")
        /\ Update(t, IF pc = "await" THEN "WAITING_SSH" ELSE "CREATING", pc)
    /\ UNCHANGED <<setup, api, row, op, box, onboarding, bounds>>

(***************************************************************************)
(* CreateInstance.  The reply may be lost when the platform has accepted.  *)
(***************************************************************************)
IsPod(c) == setup.path[box[c].req] = "self"
Taken(n) == n \in setup.taken \/ \E c \in DOMAIN box : box[c].name = n /\ ~IsPod(c)
Ordered(t) == Append(box, [name |-> pipe[t].name, req |-> pipe[t].req, st |-> setup.fresh])

\* setCreationKey
Create(t) ==
    /\ At(t, "create") /\ ~Taken(pipe[t].name) /\ pipe[t].ctx
    /\ box' = Ordered(t)
    /\ Write(t, IF Tracked(pipe[t].name) THEN [job[pipe[t].name] EXCEPT !.key = Len(box')] ELSE None,
             [pipe[t] EXCEPT !.pc = "wait", !.box = Len(box')])
    /\ UNCHANGED <<setup, api, row, op, onboarding, bounds>>

CreateFails(t) ==
    /\ At(t, "create") /\ Fault
    /\ box' \in {box} \cup (IF Taken(pipe[t].name) THEN {} ELSE {Ordered(t)})
    /\ Exit(t, "FAILED")
    /\ UNCHANGED <<setup, api, row, op, onboarding, crashes, cancels>>

(***************************************************************************)
(* The name is taken: a request moves its job to the next name of the      *)
(* ladder and steps over those that are tracked; a resumed job fails,      *)
(* because the container may be the one it asked for.                      *)
(***************************************************************************)
Ladder(t) == setup.ladder[pipe[t].req]

Climbs_Resumed(t) == pipe[t].try < Len(Ladder(t))
Climbs(t) == t \in Request /\ pipe[t].try < Len(Ladder(t))

\* The old row is deleted after the new one was written, and may stay behind.
Rename(t) ==
    LET from == pipe[t].name
        to   == Ladder(t)[pipe[t].try + 1]
    IN  IF Tracked(from) /\ ~Tracked(to)
        THEN /\ job' = [job EXCEPT ![to] = job[from], ![from] = None]
             /\ pipe' = [pipe EXCEPT ![t].name = to, ![t].try = @ + 1]
             /\ \/ row' = [row EXCEPT ![to] = job[from], ![from] = None] /\ NoFault
                \/ row' = [row EXCEPT ![to] = job[from]] /\ Fault
        ELSE /\ pipe' = [pipe EXCEPT ![t].try = @ + 1]
             /\ UNCHANGED <<job, row, faults>>

NameInUse(t) ==
    /\ At(t, "create") /\ Taken(pipe[t].name)
    /\ IF Climbs(t) THEN Rename(t) ELSE Exit(t, "FAILED") /\ UNCHANGED <<row, faults>>
    /\ UNCHANGED <<setup, api, op, box, onboarding, crashes, cancels>>

(***************************************************************************)
(* WaitCreation yields the id of the request, queued or not, which         *)
(* setInstanceID records; when it fails nothing is released.               *)
(***************************************************************************)
Identified_Nil(t) == [job[pipe[t].name] EXCEPT !.box = pipe[t].box]
Identified(t) == IF Tracked(pipe[t].name) THEN [job[pipe[t].name] EXCEPT !.box = pipe[t].box] ELSE None

WaitCreation(t) ==
    /\ At(t, "wait") /\ pipe[t].ctx
    /\ Write(t, IF Tracked(pipe[t].name) /\ ~Cancelled(pipe[t].name)
                THEN [Identified(t) EXCEPT !.state = "WAITING_SSH"] ELSE Identified(t),
             [pipe[t] EXCEPT !.pc = "await"])
    /\ UNCHANGED <<setup, api, row, op, box, onboarding, bounds>>

WaitFails(t) ==
    /\ At(t, "wait") /\ Fault
    /\ Exit(t, "FAILED")
    /\ UNCHANGED <<setup, api, row, op, box, onboarding, crashes, cancels>>

(***************************************************************************)
(* AwaitSSHAccess polls the status.  It ends with ErrAwaitingCapacity, and *)
(* the job is held, as long as no container was seen.                      *)
(***************************************************************************)
Await(t) ==
    /\ At(t, "await") /\ pipe[t].ctx /\ box[pipe[t].box].st = "running"
    /\ Update(t, "HANDING_OVER", "submit")
    /\ UNCHANGED <<setup, api, row, op, box, onboarding, bounds>>

AwaitSees(t) ==
    /\ At(t, "await") /\ ~pipe[t].seen /\ box[pipe[t].box].st = "placed"
    /\ pipe' = [pipe EXCEPT ![t].seen = TRUE]
    /\ UNCHANGED <<setup, api, job, row, op, box, onboarding, bounds>>

AwaitHeld(t) ==
    /\ At(t, "await") /\ ~pipe[t].seen
    /\ Exit(t, "QUEUED")
    /\ UNCHANGED <<setup, api, row, op, box, onboarding, bounds>>

AwaitFails(t) ==
    /\ At(t, "await")
    /\ (pipe[t].seen \/ box[pipe[t].box].st \in {"failed", "running"})
    /\ Update(t, "FAILED", "abandon")
    /\ UNCHANGED <<setup, api, row, op, box, onboarding, bounds>>

\* ReleaseInstance: the container is known to the platform by its name.  A Pod
\* that was deleted exists until its grace period is over.
Released(c) ==
    [d \in DOMAIN box |->
        IF box[d].name = box[c].name /\ IsPod(d) = IsPod(c) /\ box[d].st # "gone"
        THEN [box[d] EXCEPT !.st = "released"] ELSE box[d]]

\* The release is left to the cancel entry when there was a cancel.
Abandon(t) ==
    /\ At(t, "abandon")
    /\ \/ NoFault /\ box' = IF Cancelled(pipe[t].name) THEN box ELSE Released(pipe[t].box)
       \/ Fault /\ UNCHANGED box
    /\ pipe' = [pipe EXCEPT ![t] = Gone]
    /\ UNCHANGED <<setup, api, job, row, op, onboarding, crashes, cancels>>

\* A cancelled context ends a resumed pipeline at its next call.
Stopped(t) ==
    /\ ~pipe[t].ctx /\ pipe[t].save = None
    /\ pipe[t].pc \in {"create", "wait", "await", "submit"}
    /\ Exit(t, "FAILED")
    /\ UNCHANGED <<setup, api, row, op, box, onboarding, bounds>>

(***************************************************************************)
(* Onboarding.Submit, under the identity the name gives.  It refuses a     *)
(* node that is being onboarded or has a row already.                      *)
(***************************************************************************)
Active(k) == onb[k].st \in {"QUEUED", "RUNNING"}
Conflict(t) ==
    \/ \E k \in DOMAIN onb : Active(k) /\ (onb[k].name = pipe[t].name \/ onb[k].box = pipe[t].box)
    \/ inst[pipe[t].name] # "none"

Submit(t) ==
    /\ At(t, "submit") /\ pipe[t].ctx /\ ~Conflict(t)
    /\ onb' = Append(onb, [name |-> pipe[t].name, box |-> pipe[t].box, st |-> "QUEUED", result |-> FALSE])
    /\ Exit(t, "MANAGED")
    /\ UNCHANGED <<setup, api, row, op, box, runner, inst, bounds>>

SubmitFails(t) ==
    /\ At(t, "submit")
    /\ \/ Conflict(t) /\ NoFault
       \/ Fault
    /\ Update(t, "FAILED", "abandon")
    /\ UNCHANGED <<setup, api, row, op, box, onboarding, crashes, cancels>>

(***************************************************************************)
(* EnrollPrepared: the row is created and then queued for preparation, and *)
(* a repeated call finishes what is left.                                  *)
(***************************************************************************)
Enrolled == [none |-> "allocating", allocating |-> "preparing", preparing |-> "preparing"]

(***************************************************************************)
(* The pipeline of a container that brings its own bootstrap.  CreatePod   *)
(* says AlreadyExists as long as there is a Pod of that name, in whatever  *)
(* phase, and ProvisionNode adopts that Pod; otherwise there is a new one, *)
(* whether or not the reply arrives.                                       *)
(***************************************************************************)
Mine(t) == {c \in DOMAIN box : box[c].name = pipe[t].name /\ IsPod(c) /\ box[c].st # "gone"}

ProvisionNode(t) ==
    LET pods == IF Mine(t) # {} THEN box
                ELSE Append(box, [name |-> pipe[t].name, req |-> pipe[t].req, st |-> "placed"])
    IN  /\ At(t, "node")
        /\ \/ box' = pods /\ pipe' = [pipe EXCEPT ![t].pc = "up"] /\ UNCHANGED job /\ NoFault
           \/ box' \in {box, pods} /\ Exit(t, "FAILED") /\ Fault
        /\ UNCHANGED <<setup, api, row, op, onboarding, crashes, cancels>>

(***************************************************************************)
(* waitRunning reads the Pod by its name: one that was deleted may still   *)
(* run.  It fails when the Pod disappeared, has failed or is late, and     *)
(* nothing is released then.                                               *)
(***************************************************************************)
WaitRunning(t) ==
    /\ At(t, "up")
    /\ \/ \E c \in Mine(t) :
             /\ box[c].st \in {"running", "released"}
             /\ Write(t, IF Tracked(pipe[t].name)
                         THEN [Updated(pipe[t].name, "HANDING_OVER") EXCEPT !.box = c] ELSE None,
                      [pipe[t] EXCEPT !.pc = "enrol", !.box = c])
       \/ Exit(t, "FAILED")
    /\ UNCHANGED <<setup, api, row, op, box, onboarding, bounds>>

EnrolNode(t) ==
    /\ At(t, "enrol")
    /\ \/ /\ inst' = [inst EXCEPT ![pipe[t].name] = Enrolled[@]]
          /\ IF inst'[pipe[t].name] = "preparing" THEN Exit(t, "MANAGED") ELSE UNCHANGED <<job, pipe>>
          /\ NoFault
       \/ Fault /\ Exit(t, "FAILED") /\ UNCHANGED inst
    /\ UNCHANGED <<setup, api, row, op, box, onb, runner, crashes, cancels>>

-----------------------------------------------------------------------------
(***************************************************************************)
(* handleCancelProvision: the record is read, its container released and   *)
(* the job marked; in between the pipeline goes on.  Only the context of a *)
(* resumed pipeline hangs on the handle: runProvision detaches itself.     *)
(***************************************************************************)
CancelRead(n) ==
    /\ op.pc = "idle" /\ cancels < setup.cancels
    /\ Tracked(n) /\ job[n].state \notin Terminal
    /\ cancels' = cancels + 1
    /\ op' = [pc |-> "cancel", name |-> n, save |-> None]
    /\ IF job[n].box = 0 THEN UNCHANGED <<box, faults>>
       ELSE \/ box' = Released(job[n].box) /\ NoFault
            \/ Fault /\ UNCHANGED box
    /\ UNCHANGED <<setup, api, job, row, pipe, onboarding, crashes>>

CancelMark ==
    /\ op.pc = "cancel"
    /\ LET n == op.name
       IN  IF Tracked(n) /\ job[n].state \notin Terminal
           THEN /\ job' = [job EXCEPT ![n].state = "CANCELLED"]
                /\ pipe' = [t \in Thread |->
                              IF t = n /\ pipe[t].pc \notin {"none", "begin"} THEN [pipe[t] EXCEPT !.ctx = FALSE]
                              ELSE pipe[t]]
                /\ op' = [op EXCEPT !.pc = "save", !.save = job'[n]]
           ELSE op' = Calm /\ UNCHANGED <<job, pipe>>
    /\ UNCHANGED <<setup, api, row, box, onboarding, bounds>>

CancelStore ==
    /\ op.pc = "save"
    /\ row' = [row EXCEPT ![op.name] = op.save]
    /\ op' = Calm
    /\ UNCHANGED <<setup, api, job, pipe, box, onboarding, bounds>>

-----------------------------------------------------------------------------
(***************************************************************************)
(* RunOnce: the oldest job that is QUEUED or RUNNING.  What it has reached *)
(* is saved before it goes on, so that a restart finds it.                 *)
(***************************************************************************)
Oldest(k) == Active(k) /\ \A i \in 1..(k - 1) : ~Active(i)

Finish(st) ==
    /\ onb' = [onb EXCEPT ![runner.job].st = st]
    /\ runner' = Off

Pick(k) ==
    /\ runner = Off /\ Oldest(k)
    /\ onb' = [onb EXCEPT ![k].st = "RUNNING"]
    /\ runner' = [pc |-> IF onb[k].result THEN "enrol" ELSE "install", job |-> k]
    /\ UNCHANGED <<setup, jobs, box, inst, bounds>>

Install ==
    /\ runner.pc = "install"
    /\ \/ /\ inst[onb[runner.job].name] = "none"
          /\ box[onb[runner.job].box].st = "running"
          /\ onb' = [onb EXCEPT ![runner.job].result = TRUE]
          /\ runner' = [runner EXCEPT !.pc = "enrol"]
          /\ NoFault
       \/ /\ \/ inst[onb[runner.job].name] # "none"
             \/ box[onb[runner.job].box].st # "running"
          /\ Finish("FAILED") /\ NoFault
       \/ Fault /\ Finish("FAILED")
    /\ UNCHANGED <<setup, jobs, box, inst, crashes, cancels>>

Enrol_Trusting ==
    /\ runner.pc = "enrol"
    /\ LET n == onb[runner.job].name
       IN  \/ /\ inst' = [inst EXCEPT ![n] = IF @ = "none" THEN "allocating" ELSE @]
              /\ IF inst[n] = "none" THEN runner' = [runner EXCEPT !.pc = "prepare"] /\ UNCHANGED onb
                                     ELSE Finish("MANAGED")
              /\ NoFault
           \/ Fault /\ Finish("FAILED") /\ UNCHANGED inst
    /\ UNCHANGED <<setup, jobs, box, crashes, cancels>>
Enrol ==
    /\ runner.pc = "enrol"
    /\ LET n == onb[runner.job].name
       IN  \/ /\ inst' = [inst EXCEPT ![n] = IF @ = "none" THEN "allocating" ELSE @]
              /\ IF inst[n] = "preparing" THEN Finish("MANAGED")
                 ELSE runner' = [runner EXCEPT !.pc = "prepare"] /\ UNCHANGED onb
              /\ NoFault
           \/ Fault /\ Finish("FAILED") /\ UNCHANGED inst
    /\ UNCHANGED <<setup, jobs, box, crashes, cancels>>

\* The deadline of the job may pass although the row was queued.
Prepare ==
    /\ runner.pc = "prepare"
    /\ LET queued == [inst EXCEPT ![onb[runner.job].name] = "preparing"]
       IN  \/ inst' = queued /\ Finish("MANAGED") /\ NoFault
           \/ inst' \in {inst, queued} /\ Finish("FAILED") /\ Fault
    /\ UNCHANGED <<setup, jobs, box, crashes, cancels>>

-----------------------------------------------------------------------------
(***************************************************************************)
(* A restart.  ResumeProvisions loads the rows into the tracker and starts *)
(* a pipeline for each that is not terminal.  What onboarding has is on    *)
(* disk, and New reads it back.                                            *)
(***************************************************************************)
Resumed(n) ==
    LET rec == row[n]
    IN  IF rec = None \/ rec.state \in Terminal THEN Gone
        ELSE [Gone EXCEPT !.pc = "begin", !.name = n, !.req = rec.req,
                          !.box = IF rec.box = 0 THEN rec.key ELSE rec.box]

Restart ==
    /\ crashes < setup.crashes /\ crashes' = crashes + 1
    /\ job' = row
    /\ pipe' = [t \in Thread |-> IF t \in Name THEN Resumed(t) ELSE Gone]
    /\ api' = [r \in Request |-> IF api[r] = "checked" THEN "refused" ELSE api[r]]
    /\ op' = Calm
    /\ runner' = Off
    /\ UNCHANGED <<setup, row, box, onb, inst, faults, cancels>>

\* The platform.
Platform(c) ==
    /\ \E st \in [queued |-> {"placed"}, placed |-> {"running", "failed"}, running |-> {},
                  failed |-> {}, released |-> {"gone"}, gone |-> {}][box[c].st] :
          /\ st = "gone" => IsPod(c)
          /\ box' = [box EXCEPT ![c].st = st]
    /\ UNCHANGED <<setup, jobs, onboarding, bounds>>

-----------------------------------------------------------------------------
Init ==
    /\ setup \in Setups
    /\ api = [r \in Request |-> "new"]
    /\ job = [n \in Name |-> None] /\ row = [n \in Name |-> None]
    /\ pipe = [t \in Thread |-> Gone]
    /\ op = Calm
    /\ box = <<>> /\ onb = <<>> /\ runner = Off
    /\ inst = [n \in Name |-> "none"]
    /\ crashes = 0 /\ faults = 0 /\ cancels = 0

Calls(t) ==
    \/ Begin(t) \/ Create(t) \/ CreateFails(t) \/ NameInUse(t)
    \/ WaitCreation(t) \/ WaitFails(t)
    \/ Await(t) \/ AwaitSees(t) \/ AwaitHeld(t) \/ AwaitFails(t)
    \/ Abandon(t) \/ Stopped(t) \/ Submit(t) \/ SubmitFails(t)
    \/ ProvisionNode(t) \/ WaitRunning(t) \/ EnrolNode(t)

Next ==
    \/ \E r \in DOMAIN setup.ladder : CheckName(r) \/ Add(r)
    \/ \E t \in Thread : StoreRecord(t) \/ Calls(t)
    \/ \E n \in Name : CancelRead(n)
    \/ CancelMark \/ CancelStore
    \/ \E k \in DOMAIN onb : Pick(k)
    \/ Install \/ Enrol \/ Prepare \/ Restart
    \/ \E c \in DOMAIN box : Platform(c)

Spec == Init /\ [][Next]_vars

-----------------------------------------------------------------------------
\* Every variable is typed.
TypeOK ==
    /\ setup \in Setups
    /\ api \in [Request -> {"new", "checked", "done", "refused"}]
    /\ job \in [Name -> Record \cup {None}] /\ row \in [Name -> Record \cup {None}]
    /\ \A t \in Thread : /\ pipe[t].pc \in Pc /\ pipe[t].box \in 0..Len(box)
                         /\ pipe[t].save \in Record \cup {None}
                         /\ pipe[t].pc # "none" => pipe[t].name \in Name /\ pipe[t].req \in Request
    /\ op.pc \in {"idle", "cancel", "save"}
    /\ \A c \in DOMAIN box : box[c].st \in {"queued", "placed", "running", "failed", "released", "gone"}
    /\ \A k \in DOMAIN onb : /\ onb[k].st \in {"QUEUED", "RUNNING", "MANAGED", "FAILED"}
                             /\ onb[k].box \in DOMAIN box
    /\ runner.job \in 0..Len(onb)
    /\ inst \in [Name -> DOMAIN Enrolled]

(***************************************************************************)
(* Containers are created under no more names than requests were accepted, *)
(* however often a name is taken, a reply lost or the process restarted    *)
(* (provision.go, ResumeProvisions: two requests are two containers), and  *)
(* under one name there is a second container only when the first is gone. *)
(***************************************************************************)
Supplied == {box[c].name : c \in DOMAIN box}
OneContainer ==
    /\ Cardinality(Supplied) <= Cardinality({r \in Request : api[r] = "done"})
    /\ \A c, d \in DOMAIN box : c < d /\ box[c].name = box[d].name => box[c].st = "gone"

(***************************************************************************)
(* The Pod the first call placed is adopted, not duplicated: nothing is    *)
(* created a second time for a request (provision.go, ResumeProvisions).   *)
(***************************************************************************)
CreatedOnce == \A c, d \in DOMAIN box : box[c].req = box[d].req => c = d

(***************************************************************************)
(* A node that onboarding reports as MANAGED is queued for preparation:    *)
(* no crash between the two writes of EnrollPrepared leaves it ALLOCATING. *)
(***************************************************************************)
ManagedIsEnrolled ==
    \A k \in DOMAIN onb : onb[k].st = "MANAGED" => inst[onb[k].name] = "preparing"

(***************************************************************************)
(* The operator's decision is final as long as the process lives: the      *)
(* pipeline, which goes on, does not overwrite it (provision.go, update).  *)
(***************************************************************************)
CancelHolds ==
    [][\A n \in Name : Cancelled(n) /\ crashes' = crashes =>
          \/ Cancelled(n)'
          \/ \E m \in Name : job'[m] = job[n]                  \* renamed
          \/ job'[n].req \notin {job[n].req, "none"}]_vars     \* the name was added twice

(***************************************************************************)
(* A cancel stops the pipeline: nothing is asked of the platform and       *)
(* nothing is handed to onboarding for a request that was cancelled        *)
(* (provision.go, provisionTracker.cancels).                               *)
(***************************************************************************)
CancelStops ==
    [][\A n \in Name : Cancelled(n) =>
          /\ \A c \in DOMAIN box' \ DOMAIN box : box'[c].req # job[n].req
          /\ \A k \in DOMAIN onb' \ DOMAIN onb : onb'[k].name # n]_vars

(***************************************************************************)
(* A container handed to onboarding is not released by its pipeline, which *)
(* a restart picks up where it stopped (provision.go, runProvision).       *)
(***************************************************************************)
HandedOverIsKept ==
    [][\A k \in DOMAIN onb : onb[k].st # "FAILED" /\ cancels' = 0 =>
          box'[onb[k].box].st = box[onb[k].box].st]_vars
=============================================================================
