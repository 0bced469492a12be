------------------------------ MODULE Rebalance ------------------------------
(***************************************************************************)
(* The planner loop over a pool of instances, internal/controller/         *)
(* rebalance.go: a round reads the rows, asks Planner for a decision and   *)
(* carries it out one action after the other while everything else goes    *)
(* on; assignments are handed to goroutines that wait for a slot.          *)
(*                                                                         *)
(* What happens to one instance between two actions is Lifecycle's         *)
(* subject.  Here an instance has one of the states a round tells apart.   *)
(* "starting" is also the time during which its instance lock is taken.    *)
(***************************************************************************)
EXTENDS Planner

CONSTANTS
    Instance,       \* instance ids, numbers
    Setups          \* the configurations, the pools to start from and the
                    \* bounds: faults (failed starts, services, Router calls and
                    \* creations) and switches (of gear or mode on the console)

Conf == [maxChange : Nat \ {0}, maxServing : Nat,
         capacity : BOOLEAN, minHold : BOOLEAN, cooldown : BOOLEAN]

ASSUME RebalanceAssumption ==
    /\ Instance \subseteq Nat \ {0} /\ IsFiniteSet(Instance)
    /\ \A s \in Setups :
          /\ s.conf \in Conf /\ s.slots \in Nat \ {0}
          /\ s.modes \subseteq Mode /\ s.gears \subseteq Gear /\ s.loads \subseteq Load
          /\ \A i \in Instance :
                s.pool[i] \in PDRoles \cup {"absent", "preparing", "idle", "released"}
          /\ s.faults \in Nat /\ s.switches \in Nat

VARIABLES
    setup,          \* the member of Setups that was chosen
    mode, cfgGear,  \* config.Mode and config.Gear
    autoGear,       \* the rung auto mode reached
    cooling,        \* lastChangeAt is less than the cooldown ago
    inst,           \* the rows
    order,          \* instances with a role, oldest RoleAssignedAt first
    held,           \* those whose RoleAssignedAt is less than min_hold ago
    load,           \* the last scheduler sample
    outstanding,    \* requested and not delivered: OutstandingCapacity
    todo,           \* the rest of the round's actions
    hoisted,        \* the assignments the round collected
    job,            \* startsInFlight and the goroutine of each reservation
    senders,        \* goroutines that wait for a slot: senders are served in turn
    slots,          \* free slots of the start gate
    faults, switches

planner == <<mode, cfgGear, autoGear, cooling>>
rows    == <<inst, order, held>>
round   == <<todo, hoisted>>
gate    == <<job, senders, slots>>
vars    == <<setup, planner, rows, load, outstanding, round, gate, faults, switches>>

State == {"absent", "preparing", "idle", "starting", "serving", "draining",
          "failed", "stranded", "released"}
Row   == [st : State, role : PDRoles \cup {"none"}, reclaim : BOOLEAN]
NoJob == [pc |-> "none", role |-> "none"]
Job   == {NoJob} \cup [pc : {"waiting", "slot", "loading"}, role : PDRoles]
Action == [kind : {"ASSIGN", "REASSIGN", "DRAIN", "PROVISION", "RELEASE"},
           id : Instance \cup {0}, role : PDRoles \cup {"none"}]

-----------------------------------------------------------------------------
(***************************************************************************)
(* The buckets of a round.  Rows that will be released are in none.        *)
(***************************************************************************)
Bucket(S) == {i \in Instance : inst[i].st \in S /\ ~inst[i].reclaim}
Serving    == Bucket({"starting", "serving", "draining"})
Idle       == Bucket({"idle"})
Recovering == Bucket({"failed"})

gear == IF mode = "auto" THEN autoGear ELSE cfgGear

Input ==
    [conf |-> setup.conf, mode |-> mode, gear |-> gear, load |-> load,
     role |-> [i \in Serving |-> inst[i].role],
     order |-> Only(order, Serving),
     held |-> held, idle |-> Idle, recovering |-> Recovering,
     provisioning |-> outstanding]

(***************************************************************************)
(* Rebalance: plan, and then carry the actions out in their order.  Any    *)
(* action and any move of the ladder starts the cooldown.                  *)
(***************************************************************************)
Ready == todo = <<>> /\ hoisted = <<>> /\ ~cooling

Round ==
    /\ Ready
    /\ LET decision == Plan(Input)
       IN  /\ todo' = decision.acts
           /\ autoGear' = IF mode = "auto" THEN decision.gear ELSE autoGear
           /\ cooling' = (setup.conf.cooldown /\ (decision.acts # <<>> \/ decision.gear # gear))
    /\ UNCHANGED <<setup, mode, cfgGear, rows, load, outstanding, hoisted, gate, faults, switches>>

Fault == faults < setup.faults /\ faults' = faults + 1

\* BeginDrain, under the instance lock.  A failed service drains as well; a
\* Router that cannot be told leaves the row as it is.
BeginDrain(i) ==
    /\ inst[i].st # "starting"
    /\ IF inst[i].st \in {"serving", "failed", "stranded"}
       THEN \/ inst' = [inst EXCEPT ![i].st = "draining"] /\ UNCHANGED faults
            \/ Fault /\ UNCHANGED inst
       ELSE UNCHANGED <<inst, faults>>

\* provisionCapacity; the request may be refused.
Provision ==
    /\ \/ outstanding' = outstanding + 1 /\ UNCHANGED faults
       \/ Fault /\ UNCHANGED outstanding

CarryOut ==
    /\ todo # <<>>
    /\ todo' = Tail(todo)
    /\ LET a == Head(todo)
       IN  CASE a.kind = "ASSIGN" ->
                    /\ hoisted' = Append(hoisted, a)
                    /\ UNCHANGED <<inst, outstanding, faults>>
             [] a.kind \in {"REASSIGN", "DRAIN"} ->
                    /\ BeginDrain(a.id)
                    /\ UNCHANGED <<hoisted, outstanding>>
             [] a.kind = "PROVISION" ->
                    /\ Provision
                    /\ UNCHANGED <<hoisted, inst>>
             [] a.kind = "RELEASE" ->
                    /\ inst' = [inst EXCEPT ![a.id].reclaim = TRUE]
                    /\ UNCHANGED <<hoisted, outstanding, faults>>
    /\ UNCHANGED <<setup, planner, order, held, load, gate, switches>>

(***************************************************************************)
(* applyStarts: an instance whose reservation is taken is passed over.     *)
(***************************************************************************)
Dispatch_Unreserved ==
    /\ todo = <<>> /\ hoisted # <<>>
    /\ hoisted' = Tail(hoisted)
    /\ LET a == Head(hoisted)
       IN  /\ job' = [job EXCEPT ![a.id] = [pc |-> "waiting", role |-> a.role]]
           /\ senders' = Append(senders, a.id)
    /\ UNCHANGED <<setup, planner, rows, load, outstanding, todo, slots, faults, switches>>
Dispatch ==
    /\ todo = <<>> /\ hoisted # <<>>
    /\ hoisted' = Tail(hoisted)
    /\ LET a == Head(hoisted)
       IN  IF job[a.id] = NoJob
           THEN /\ job' = [job EXCEPT ![a.id] = [pc |-> "waiting", role |-> a.role]]
                /\ senders' = Append(senders, a.id)
           ELSE UNCHANGED <<job, senders>>
    /\ UNCHANGED <<setup, planner, rows, load, outstanding, todo, slots, faults, switches>>

\* runStart
TakeSlot ==
    /\ senders # <<>> /\ slots > 0
    /\ slots' = slots - 1
    /\ senders' = Tail(senders)
    /\ job' = [job EXCEPT ![Head(senders)].pc = "slot"]
    /\ UNCHANGED <<setup, planner, rows, load, outstanding, round, faults, switches>>

\* The deferred calls of runStart.
Leave_Leaky(i) ==
    /\ job' = [job EXCEPT ![i] = NoJob]
    /\ UNCHANGED <<senders, slots>>
Leave(i) ==
    /\ job' = [job EXCEPT ![i] = NoJob]
    /\ slots' = slots + 1
    /\ UNCHANGED senders

(***************************************************************************)
(* StartService up to the moment STARTING is written.  An assignment that  *)
(* does not change the role keeps the time it was first made.              *)
(***************************************************************************)
Startable(i) == inst[i].st \in {"idle", "failed", "stranded"} /\ ~inst[i].reclaim

StartService(i, r) ==
    /\ inst' = [inst EXCEPT ![i].st = "starting", ![i].role = r]
    /\ IF inst[i].role = r THEN UNCHANGED <<order, held>>
       ELSE /\ order' = Append(Only(order, Instance \ {i}), i)
            /\ held' = IF setup.conf.minHold THEN held \cup {i} ELSE held

Begin(i) ==
    /\ job[i].pc = "slot" /\ inst[i].st # "starting"
    /\ IF Startable(i)
       THEN /\ StartService(i, job[i].role)
            /\ job' = [job EXCEPT ![i].pc = "loading"]
            /\ UNCHANGED <<senders, slots>>
       ELSE Leave(i) /\ UNCHANGED rows
    /\ UNCHANGED <<setup, planner, load, outstanding, round, faults, switches>>

\* The reconciler retries a failed start.  It does not pass the gate.
Retry(i) ==
    /\ inst[i].st = "failed" /\ Startable(i)
    /\ StartService(i, inst[i].role)
    /\ UNCHANGED <<setup, planner, load, outstanding, round, gate, faults, switches>>

\* The end of StartService, whoever called it.
StartEnds(i) ==
    /\ inst[i].st = "starting"
    /\ \/ /\ inst' = [inst EXCEPT ![i].st = IF inst[i].reclaim THEN "failed" ELSE "serving"]
          /\ UNCHANGED faults
       \/ /\ Fault
          /\ \E st \in {"failed", "stranded"} : inst' = [inst EXCEPT ![i].st = st]
    /\ IF job[i].pc = "loading" THEN Leave(i) ELSE UNCHANGED gate
    /\ UNCHANGED <<setup, planner, order, held, load, outstanding, round, switches>>

-----------------------------------------------------------------------------
(***************************************************************************)
(* The rest of the control plane and of the world.                         *)
(***************************************************************************)
Others == <<setup, planner, load, round, gate, switches>>

\* A service is condemned, with attempts left or not.
Condemned(i) ==
    /\ inst[i].st = "serving" /\ Fault
    /\ \E st \in {"failed", "stranded"} : inst' = [inst EXCEPT ![i].st = st]
    /\ UNCHANGED <<Others, order, held, outstanding>>

\* A drain ends: the role is cleared, and a requested release follows.
DrainEnds(i) ==
    /\ inst[i].st = "draining"
    /\ inst' = [inst EXCEPT ![i].st = IF inst[i].reclaim THEN "released" ELSE "idle",
                            ![i].role = "none"]
    /\ order' = Only(order, Instance \ {i})
    /\ held' = held \ {i}
    /\ UNCHANGED <<Others, outstanding, faults>>

\* The reconciler follows a reclaim request.
Reclaim(i) ==
    /\ inst[i].reclaim /\ inst[i].st \in {"idle", "serving", "failed", "stranded"}
    /\ inst' = [inst EXCEPT ![i].st = IF inst[i].st = "idle" THEN "released" ELSE "draining"]
    /\ UNCHANGED <<Others, order, held, outstanding, faults>>

\* A creation fails, or its container enters the table; then it is prepared.
RequestFails ==
    /\ outstanding > 0 /\ Fault
    /\ outstanding' = outstanding - 1
    /\ UNCHANGED <<Others, rows>>

Delivered(i) ==
    /\ outstanding > 0 /\ inst[i].st = "absent"
    /\ outstanding' = outstanding - 1
    /\ inst' = [inst EXCEPT ![i].st = "preparing"]
    /\ UNCHANGED <<Others, order, held, faults>>

Prepared(i) ==
    /\ inst[i].st = "preparing"
    /\ inst' = [inst EXCEPT ![i].st = "idle"]
    /\ UNCHANGED <<Others, order, held, outstanding, faults>>

HoldPasses(i) ==
    /\ i \in held
    /\ held' = held \ {i}
    /\ UNCHANGED <<Others, inst, order, outstanding, faults>>

CooldownPasses ==
    /\ cooling /\ cooling' = FALSE
    /\ UNCHANGED <<setup, mode, cfgGear, autoGear, rows, load, outstanding, round, gate,
                   faults, switches>>

\* A round reads the sample once, so it changes between two rounds.
LoadChanges ==
    /\ Ready
    /\ load' \in setup.loads \ {load}
    /\ UNCHANGED <<setup, planner, rows, outstanding, round, gate, faults, switches>>

\* PUT /v1/capacity/planner: both restart the ladder.
Switch ==
    /\ switches < setup.switches /\ switches' = switches + 1
    /\ UNCHANGED <<setup, cooling, rows, load, outstanding, round, gate, faults>>

SetGear ==
    /\ \E g \in setup.gears : cfgGear' = g /\ autoGear' = g
    /\ UNCHANGED mode
    /\ Switch

SetMode ==
    /\ mode' \in setup.modes \ {mode}
    /\ autoGear' = cfgGear
    /\ UNCHANGED cfgGear
    /\ Switch

-----------------------------------------------------------------------------
Init ==
    /\ setup \in Setups
    /\ mode \in setup.modes /\ cfgGear \in setup.gears /\ autoGear = cfgGear
    /\ cooling = FALSE
    /\ inst = [i \in Instance |->
                  CASE setup.pool[i] \in PDRoles ->
                          [st |-> "serving", role |-> setup.pool[i], reclaim |-> FALSE]
                    [] OTHER -> [st |-> setup.pool[i], role |-> "none", reclaim |-> FALSE]]
    /\ order = Sorted({i \in Instance : setup.pool[i] \in PDRoles})
    /\ held = {}
    /\ load \in setup.loads
    /\ outstanding = 0
    /\ todo = <<>> /\ hoisted = <<>>
    /\ job = [i \in Instance |-> NoJob]
    /\ senders = <<>> /\ slots = setup.slots
    /\ faults = 0 /\ switches = 0

Next ==
    \/ Round \/ CarryOut \/ Dispatch \/ TakeSlot \/ CooldownPasses
    \/ \E i \in Instance :
          \/ Begin(i) \/ Retry(i) \/ StartEnds(i)
          \/ Condemned(i) \/ DrainEnds(i) \/ Reclaim(i)
          \/ Delivered(i) \/ Prepared(i) \/ HoldPasses(i)
    \/ RequestFails \/ LoadChanges \/ SetGear \/ SetMode

Spec == Init /\ [][Next]_vars

(***************************************************************************)
(* The loops tick, starts and drains have deadlines, and the instance lock *)
(* is free in between.  Nothing says that the partner delivers, that the   *)
(* load changes or that anything fails.                                    *)
(***************************************************************************)
RoundDue == Ready /\ LET d == Plan(Input) IN d.acts # <<>> \/ d.gear # gear

FairSpec ==
    /\ Spec
    /\ []<>~RoundDue \/ []<><<Round>>_vars       \* WF_vars(Round), ENABLED written out
    /\ WF_vars(CarryOut) /\ WF_vars(Dispatch)
    /\ WF_vars(TakeSlot) /\ WF_vars(CooldownPasses)
    /\ \A i \in Instance :
          /\ WF_vars(Begin(i)) /\ WF_vars(Retry(i)) /\ WF_vars(StartEnds(i))
          /\ WF_vars(DrainEnds(i)) /\ WF_vars(Reclaim(i))
          /\ WF_vars(Prepared(i)) /\ WF_vars(HoldPasses(i))

-----------------------------------------------------------------------------
\* Every variable is typed; a slot is in use for every start that has passed
\* the gate.
TypeOK ==
    /\ setup \in Setups /\ mode \in Mode /\ cfgGear \in Gear /\ autoGear \in Gear
    /\ cooling \in BOOLEAN /\ load \in Load /\ outstanding \in Nat
    /\ inst \in [Instance -> Row]
    /\ Range(order) \subseteq Instance /\ held \subseteq Range(order)
    /\ Range(todo) \cup Range(hoisted) \subseteq Action
    /\ job \in [Instance -> Job]
    /\ Range(senders) = {i \in Instance : job[i].pc = "waiting"}
    /\ slots + Cardinality({i \in Instance : job[i].pc \in {"slot", "loading"}}) = setup.slots

(***************************************************************************)
(* What a round of a disaggregated pool drains, converts and releases      *)
(* together never takes the last worker of a role, not even when the pool  *)
(* is degraded already: planner.go tells the incident in which a round     *)
(* reassigned the only prefill worker that was left.                       *)
(***************************************************************************)
Left(r) == {i \in Serving : inst[i].role = r /\ ~Touched(todo', i)}

RoundKeepsEachRole ==
    [][Round /\ mode # "aggregated" =>
          \A r \in PD : (\E i \in Serving : inst[i].role = r) => Left(r) # {}]_vars

(***************************************************************************)
(* A dispatched start ends, and gives its slot and its reservation back,   *)
(* whatever happened to its instance while it waited (rebalance.go, the    *)
(* deferred calls of runStart).                                            *)
(***************************************************************************)
StartsEnd == \A i \in Instance : job[i] # NoJob ~> job[i] = NoJob

(***************************************************************************)
(* Once the load stays what it is, the pool takes the shape the mode and   *)
(* the gear ask for, under persistent pressure the shape at that end of    *)
(* the ladder, and the planner stops changing it: rounds do not undo each  *)
(* other.  A pool of one cannot have a shape.                              *)
(*                                                                         *)
(* That needs starts to be slow and goroutines prompt, as they are: no     *)
(* start ends within a round, unless the round waits for it, and no round  *)
(* begins while a start could proceed.  Otherwise an assignment may be     *)
(* dispatched when what it was planned for is long over, again and again.  *)
(***************************************************************************)
Prompt ==
    <>[][/\ \A i \in Instance : StartEnds(i) =>
               Ready \/ (todo # <<>> /\ Head(todo).id = i)
         /\ Round =>
               /\ senders # <<>> => slots = 0
               /\ \A i \in Instance : job[i].pc = "slot" => inst[i].st = "starting"]_vars

\* p of n workers are the gear's share: rounded down, but not to none.
IsShare(p, n, g) ==
    /\ p >= 1
    /\ p * Gears[g].of <= Max({n * Gears[g].p, Gears[g].of})
    /\ n * Gears[g].p < (p + 1) * Gears[g].of

Shaped ==
    /\ todo = <<>>
    /\ \A i \in Serving : inst[i].st = "serving"
    /\ IF mode = "aggregated"
       THEN Number(Input, "regular") = TargetRegular(Input) /\ ServingPD(Input) = 0
       ELSE /\ Number(Input, "regular") = 0
            /\ Total(Input) >= 2 =>
                  /\ ServingPD(Input) = Total(Input)
                  /\ IsShare(Number(Input, "prefill"), Total(Input), gear)
            /\ mode = "auto" /\ Pressed(load) => stepGear(gear, load) \notin Gear

Converges == Prompt /\ <>[][FALSE]_load => <>[]Shaped
=============================================================================
