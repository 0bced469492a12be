--------------------------- MODULE CapacityEvents ---------------------------
(***************************************************************************)
(* How capacity events reach the instance rows: events pushed by the       *)
(* partner (events.go), the authoritative pull (pull_reconcile.go) and the *)
(* replay of what was interrupted (event_recovery.go), all through the     *)
(* event log, the admission mutex and the instance locks.                  *)
(*                                                                         *)
(* The row and its transaction are those of Store.  The lifecycle          *)
(* operations of Lifecycle are reduced to what events see of them: a lock  *)
(* holder with a copy of the row that writes one legal successor of it     *)
(* (LifecycleBegin, LifecycleEnd).  A container that is LOST is treated by *)
(* events like one that is IDLE or draining, and is left out.              *)
(*                                                                         *)
(* An executor is a goroutine that handles one event: an API request, the  *)
(* replay loop of the reconciler, or the pull loop.  Its steps end where   *)
(* the code commits a transaction, or decides on what another goroutine    *)
(* can change meanwhile.                                                   *)
(*                                                                         *)
(* Time is the count of things the partner did or the pull loop began to   *)
(* observe; every identity and every event is stamped with it.  Partner    *)
(* and control plane share the clock, and there is one partner.            *)
(***************************************************************************)
EXTENDS Store, FiniteSets

CONSTANTS
    Instance,       \* instance ids, numbers so that event ids are ordered
    Address,        \* endpoints containers may have
    Executor,       \* goroutines that handle events
    Reconciler,     \* ... of which one replays pending events
    Puller,         \* ... and one pulls snapshots
    Nobody,         \* no goroutine
    Owner,          \* a goroutine inside a lifecycle operation
    Deed,           \* what the partner does: subset of AnyDeed
    Fault,          \* what may fail: subset of AnyFault
    MaxFaults,      \* how often anything may fail
    MaxTime,        \* how many things happen
    Batch,          \* records per replay (32 in the code)
    Pulls,          \* snapshots are pulled (partners may be push-only)
    NamesLease,     \* revokes carry the lease id (optional in the protocol)
    Reuse           \* a new container may get the address of an old one

AnyDeed  == {"offer", "replace", "confirm", "withdraw"}
AnyFault == {"crash", "cancel", "partner", "omit"}

ASSUME EventsAssumption ==
    /\ Instance \subseteq Nat /\ IsFiniteSet(Instance)
    /\ Reconciler \in Executor /\ Puller \in Executor /\ Reconciler # Puller
    /\ Nobody \notin Executor /\ Owner \notin Executor /\ Nobody # Owner
    /\ Deed \subseteq AnyDeed /\ Fault \subseteq AnyFault
    /\ MaxFaults \in Nat /\ MaxTime \in Nat /\ Batch \in Nat \ {0}
    /\ Pulls \in BOOLEAN /\ NamesLease \in BOOLEAN /\ Reuse \in BOOLEAN

VARIABLES
    now,            \* the clock
    container,      \* partner: identity of the container it holds, 0 for none
    address,        \* partner: address of every identity issued
    sent,           \* partner: events it has issued
    row,            \* database: capacity_instances
    log,            \* database: capacity_events, event -> result
    lock,           \* instanceOperation
    work,           \* the row a lifecycle operation read when it got the lock
    admission,      \* capacityAdmissions
    exec,           \* goroutines handling an event
    replay,         \* the replay loop: cursor and records still to look at
    pull,           \* the pull loop
    missing,        \* pullMissingSince: none, running, elapsed
    faults,         \* failures so far
    shown           \* history: whether the instance was seen since its first miss

partnerVars == <<now, container, address, sent>>
lockVars    == <<lock, work, admission>>
loopVars    == <<replay, pull, missing, shown>>
vars == <<partnerVars, row, log, lockVars, exec, loopVars, faults>>

\* Not at all, in a snapshot, in one whose sweep was completed.
Sight == {"no", "listed", "completed"}

Time  == 0 .. MaxTime
Ident == 1 .. MaxTime
Kind  == {"ADDED", "UPDATED", "REVOKED"}

(***************************************************************************)
(* at is occurred_at and, with inst and kind, stands for the event id.     *)
(* ident is endpoint and lease of the payload; 0 if it names none.         *)
(***************************************************************************)
Event == [at : Time, inst : Instance, kind : Kind, ident : 0 .. MaxTime,
          src : {"push", "pull"}]

Verdict == {"APPLIED", "REJECTED"}
Result  == Verdict \cup {"PENDING"}

NotTracked == FreshRow(0)
Tracked(r) == r # NotTracked
Active(r)  == Tracked(r) /\ r.inst # "RELEASED"

NoEvent == [at |-> 0, inst |-> 0, kind |-> "none", ident |-> 0, src |-> "push"]
Idle    == [pc |-> "idle", event |-> NoEvent, copy |-> NotTracked, result |-> "PENDING"]

Works == UNCHANGED faults

Fails(kind) == kind \in Fault /\ faults < MaxFaults /\ faults' = faults + 1
-----------------------------------------------------------------------------
(***************************************************************************)
(* The event log.                                                          *)
(***************************************************************************)
Pending == {e \in DOMAIN log : log[e] = "PENDING"}

\* eventOperation: a goroutine that handles e holds its lock.
Busy(e) == \E x \in Executor : exec[x].event = e

\* ON CONFLICT(event_id) DO NOTHING: claimed is what happened first.
ClaimEvent(e) ==
    [f \in DOMAIN log \cup {e} |-> IF f \in DOMAIN log THEN log[f] ELSE "PENDING"]

CompleteEvent_Failed(e, result) ==
    [log EXCEPT ![e] = IF result = "REJECTED" THEN "FAILED" ELSE result]

(***************************************************************************)
(* CompleteEvent.  The id of a pulled event is unique to its observation,  *)
(* so once decided it is never looked up again unless it is a revoke, and  *)
(* is forgotten here.                                                      *)
(***************************************************************************)
CompleteEvent(e, result) ==
    IF e.src = "pull" /\ e.kind # "REVOKED"
    THEN [f \in DOMAIN log \ {e} |-> log[f]]
    ELSE [log EXCEPT ![e] = result]

\* HasRevokeAfter: an accepted or unfinished revoke that is newer than e.
HasRevokeAfter_Unfinished(e) ==
    \E r \in DOMAIN log :
        /\ r.kind = "REVOKED" /\ r.inst = e.inst /\ r.ident \in {0, e.ident}
        /\ log[r] = "PENDING" /\ r.at > e.at

HasRevokeAfter(e) ==
    \E r \in DOMAIN log :
        /\ r.kind = "REVOKED" /\ r.inst = e.inst /\ r.ident \in {0, e.ident}
        /\ log[r] \in {"APPLIED", "PENDING"} /\ r.at > e.at

\* Replay takes events by time, then id.
KindOrder == [ADDED |-> 1, REVOKED |-> 2, UPDATED |-> 3]

Key(e) == <<e.at, e.inst, KindOrder[e.kind], IF e.src = "push" THEN 0 ELSE 1, e.ident>>

Before(e, f) ==
    \E n \in 1 .. 5 : /\ Key(e)[n] < Key(f)[n]
                     /\ \A m \in 1 .. n - 1 : Key(e)[m] = Key(f)[m]

First(S) == CHOOSE e \in S : \A f \in S \ {e} : Before(e, f)

\* ListPendingEventsAfter
ListPendingEventsAfter(cursor) ==
    LET later == {e \in Pending : cursor = NoEvent \/ Before(cursor, e)}
    IN  {e \in later : Cardinality({f \in later : Before(f, e)}) < Batch}
-----------------------------------------------------------------------------
(***************************************************************************)
(* How a handler goes on: x holds the locks of a claimed event unless said *)
(* otherwise.  A handler that fails leaves its event PENDING.              *)
(***************************************************************************)
Free(i) == lock[i] = Nobody

Goto(x, pc, copy) == exec' = [exec EXCEPT ![x].pc = pc, ![x].copy = copy]

Decide(x, verdict) ==
    exec' = [exec EXCEPT ![x].pc = "complete", ![x].result = verdict,
                         ![x].copy = NotTracked]

\* The pull loop looks at the outcome of its event; the others drop it.
Finish(x, result) ==
    exec' = [exec EXCEPT ![x] = IF x = Puller
                                THEN [Idle EXCEPT !.pc = "done", !.result = result]
                                ELSE Idle]

Defer(x) == Finish(x, "PENDING")

MayAdmit_LockOnly(i) == Free(i)

MayAdmit(i) == admission = Nobody /\ Free(i)

Acquire(x, i) ==
    /\ admission' = x /\ lock' = [lock EXCEPT ![i] = x]
    /\ UNCHANGED work

Release_LockOnly(x) ==
    /\ UNCHANGED admission
    /\ lock' = [i \in Instance |-> IF lock[i] = x THEN Nobody ELSE lock[i]]
    /\ UNCHANGED work

Release(x) ==
    /\ admission' = IF admission = x THEN Nobody ELSE admission
    /\ lock' = [i \in Instance |-> IF lock[i] = x THEN Nobody ELSE lock[i]]
    /\ UNCHANGED work

Put(i, r) == row' = [row EXCEPT ![i] = r]

Handles(x, kind) == exec[x].pc = "apply" /\ exec[x].event.kind = kind

(***************************************************************************)
(* reservesEndpoint: the address a row has and the one it is about to get. *)
(***************************************************************************)
ReservedBy(r) ==
    IF ~Active(r) THEN {}
    ELSE {address[n] : n \in {r.ident, r.pu.ident} \ {0}}

Taken(i, ident) ==
    \E j \in Instance \ {i} : address[ident] \in ReservedBy(row[j])
-----------------------------------------------------------------------------
(***************************************************************************)
(* CAPACITY_ADDED.  The answers that change nothing, given the row:        *)
(***************************************************************************)
AddRejected(e, r) ==
    /\ Tracked(r)
    /\ \/ e.at < r.seen
       \/ Active(r) /\ e.ident # r.ident

AddSettled(e, r) ==
    /\ Tracked(r)
    /\ IF Active(r) THEN r.pr \/ r.inst # "ALLOCATING" ELSE e.ident = r.ident

HandleAdded(x) ==
    LET e       == exec[x].event
        i       == e.inst
        r       == row[i]
        refused == HasRevokeAfter(e) \/ AddRejected(e, r)
        settled == AddSettled(e, r)
        taken   == ~Active(r) /\ Taken(i, e.ident)
    IN
    /\ Handles(x, "ADDED")
    /\ UNCHANGED <<partnerVars, row, log, loopVars, faults>>
    /\ \/ ~MayAdmit(i) /\ Defer(x) /\ UNCHANGED lockVars
       \/ /\ MayAdmit(i) /\ (refused \/ settled \/ taken)
          /\ Decide(x, IF refused \/ ~settled THEN "REJECTED" ELSE "APPLIED")
          /\ UNCHANGED lockVars
       \/ /\ MayAdmit(i) /\ ~refused /\ ~settled /\ ~taken
          /\ Acquire(x, i)
          /\ Goto(x, IF Active(r) THEN "allocate" ELSE "admit", r)

\* The row is created, or re-offered to a distinct lease, as ALLOCATING.
Admit(x) ==
    LET e   == exec[x].event
        i   == e.inst
        new == [FreshRow(e.ident) EXCEPT !.seen = e.at]
        may == IF Tracked(exec[x].copy) THEN AcceptsReoffer(row[i], new)
               ELSE ~Tracked(row[i])
    IN
    /\ exec[x].pc = "admit"
    /\ UNCHANGED <<partnerVars, log, loopVars, faults>>
    /\ \/ /\ may /\ Put(i, Reoffered(row[i], new))
          /\ Goto(x, "allocate", new)
          /\ UNCHANGED lockVars
       \/ /\ ~may
          /\ Release(x) /\ Defer(x)
          /\ UNCHANGED <<row>>

\* The intent to prepare; preparing itself is a lifecycle operation.
Allocate(x) ==
    LET i    == exec[x].event.inst
        next == [exec[x].copy EXCEPT !.inst = "PREPARING"]
        may  == row[i].inst = "ALLOCATING" /\ Accepts(row[i], next)
    IN
    /\ exec[x].pc = "allocate"
    /\ Release(x)
    /\ UNCHANGED <<partnerVars, log, loopVars, faults>>
    /\ \/ may /\ Put(i, Merged(row[i], next)) /\ Decide(x, "APPLIED")
       \/ ~may /\ UNCHANGED row /\ Defer(x)
-----------------------------------------------------------------------------
(***************************************************************************)
(* CAPACITY_UPDATED.  An observation that changes nothing is recorded      *)
(* without the locks (observeOnly); it is checked again as it is written.  *)
(***************************************************************************)
Recordable(r) == Active(r) /\ ~r.pr /\ r.inst # "RELEASING"

ObserveOnly(e, r) == Recordable(r) /\ ~HasUpdate(r) /\ e.ident = r.ident

HandleUpdated(x) ==
    LET e == exec[x].event
        r == row[e.inst]
    IN
    /\ Handles(x, "UPDATED")
    /\ UNCHANGED <<partnerVars, row, log, lockVars, loopVars, faults>>
    /\ \/ ObserveOnly(e, r) /\ e.at < r.seen /\ Decide(x, "REJECTED")
       \/ ObserveOnly(e, r) /\ e.at >= r.seen /\ Goto(x, "touch", r)
       \/ ~ObserveOnly(e, r) /\ Goto(x, "update", NotTracked)

\* TouchInstanceObservation
Touch(x) ==
    LET e   == exec[x].event
        r   == row[e.inst]
        may == Recordable(r) /\ e.at >= r.seen
    IN
    /\ exec[x].pc = "touch"
    /\ UNCHANGED <<partnerVars, log, lockVars, loopVars, faults>>
    /\ \/ may /\ Put(e.inst, [r EXCEPT !.seen = e.at]) /\ Decide(x, "APPLIED")
       \/ ~may /\ UNCHANGED row /\ Goto(x, "update", NotTracked)

\* The newest thing the partner is known to have said of the instance.
LatestObservation(r) == Later(r.seen, r.pu.at)

UpdateRejected_AnyAge(e, r) == Active(r) /\ ~Recordable(r)

UpdateRejected(e, r) ==
    /\ Tracked(r)
    /\ \/ e.at < LatestObservation(r)
       \/ Active(r) /\ ~Recordable(r)

Update(x) ==
    LET e       == exec[x].event
        i       == e.inst
        r       == row[i]
        refused == UpdateRejected(e, r)
        taken   == Active(r) /\ Taken(i, e.ident)
    IN
    /\ exec[x].pc = "update"
    /\ UNCHANGED <<partnerVars, row, log, loopVars, faults>>
    /\ \/ ~MayAdmit(i) /\ Defer(x) /\ UNCHANGED lockVars
       \/ /\ MayAdmit(i) /\ (refused \/ ~Active(r) \/ taken)
          /\ Decide(x, IF refused \/ taken THEN "REJECTED" ELSE "APPLIED")
          /\ UNCHANGED lockVars
       \/ /\ MayAdmit(i) /\ ~refused /\ Active(r) /\ ~taken
          /\ Acquire(x, i)
          /\ Goto(x, "store", r)

(***************************************************************************)
(* With a service, the new identity is queued until the old one is drained *)
(* and the drain begins at once; without one it replaces the old.          *)
(***************************************************************************)
Wanted(r) == IF HasUpdate(r) THEN r.pu.ident ELSE r.ident

Queued(r, e) == [r EXCEPT !.pu = [ident |-> e.ident, at |-> e.at]]

Replaced(r, e) ==
    [r EXCEPT !.ident = e.ident, !.seen = e.at, !.pu = NoUpdate,
              !.inst = IF e.ident # Wanted(r) /\ ~HasService(r) /\ r.inst = "IDLE"
                       THEN "PREPARING" ELSE r.inst]

StoreUpdate(x) ==
    LET e     == exec[x].event
        i     == e.inst
        r     == exec[x].copy
        queue == HasService(r) /\ (HasUpdate(r) \/ e.ident # Wanted(r))
        next  == IF queue THEN Queued(r, e) ELSE Replaced(r, e)
        may   == Accepts(row[i], next)
    IN
    /\ exec[x].pc = "store"
    /\ UNCHANGED <<partnerVars, log, loopVars, faults>>
    /\ \/ /\ may /\ Put(i, Merged(row[i], next))
          /\ IF queue THEN Goto(x, "drain", NotTracked) /\ UNCHANGED lockVars
             ELSE Release(x) /\ Decide(x, "APPLIED")
       \/ ~may /\ UNCHANGED row /\ Release(x) /\ Defer(x)
-----------------------------------------------------------------------------
(***************************************************************************)
(* CAPACITY_REVOKED.  An instance that is not tracked is looked up again   *)
(* under its lock, which an admission in progress holds.                   *)
(***************************************************************************)
OtherLease(e, r) == e.ident # 0 /\ e.ident # r.ident

RevokeRejected(e, r) ==
    Tracked(r) /\ (OtherLease(e, r) \/ (Active(r) /\ e.at < LatestObservation(r)))

HandleRevoked(x) ==
    LET e == exec[x].event
        r == row[e.inst]
    IN
    /\ Handles(x, "REVOKED")
    /\ UNCHANGED <<partnerVars, row, log, lockVars, loopVars, faults>>
    /\ \/ ~Tracked(r) /\ ~Free(e.inst) /\ Defer(x)
       \/ ~Tracked(r) /\ Free(e.inst) /\ Decide(x, "APPLIED")
       \/ RevokeRejected(e, r) /\ Decide(x, "REJECTED")
       \/ /\ Tracked(r) /\ ~RevokeRejected(e, r)
          /\ IF Active(r) THEN Goto(x, "request", r) ELSE Decide(x, "APPLIED")

\* Transition.RequestRelease, if lease and observation are still those seen.
RequestReclaim(x) ==
    LET e   == exec[x].event
        r   == row[e.inst]
        may == /\ r.ident = exec[x].copy.ident /\ r.seen = exec[x].copy.seen
               /\ r.pu.at <= e.at
    IN
    /\ exec[x].pc = "request"
    /\ UNCHANGED <<partnerVars, log, lockVars, loopVars, faults>>
    /\ \/ may /\ Put(e.inst, RequestRelease(r)) /\ Goto(x, "reclaim", exec[x].copy)
       \/ ~may /\ UNCHANGED row /\ Defer(x)

\* The reclaim is begun if nobody owns the instance, and queued otherwise.
Reclaim(x) ==
    LET i == exec[x].event.inst IN
    /\ exec[x].pc = "reclaim"
    /\ UNCHANGED <<partnerVars, row, log, loopVars, faults>>
    /\ \/ /\ ~Free(i) \/ row[i].ident # exec[x].copy.ident \/ ~row[i].pr
          /\ UNCHANGED lockVars /\ Decide(x, "APPLIED")
       \/ /\ Free(i) /\ row[i].ident = exec[x].copy.ident /\ row[i].pr
          /\ lock' = [lock EXCEPT ![i] = x]
          /\ UNCHANGED <<work, admission>>
          /\ Goto(x, "drain", NotTracked)
-----------------------------------------------------------------------------
(***************************************************************************)
(* What a lifecycle operation may write over the row r it read.            *)
(***************************************************************************)
DrainMoves(r) ==
    IF r.svc \in LiveService /\ (r.pr \/ HasUpdate(r))
    THEN {[r EXCEPT !.svc = "DRAINING"]}
    ELSE IF r.pr /\ ~HasService(r) /\ r.inst \notin {"RELEASING", "RELEASED"}
    THEN {[r EXCEPT !.inst = "RELEASING"]} ELSE {}

DrainedMoves(r) ==
    LET idle == [r EXCEPT !.svc = "NONE", !.role = NoRole] IN
    IF r.svc # "DRAINING" THEN {}
    ELSE {IF HasUpdate(r) /\ ~r.pr
          THEN [idle EXCEPT !.inst = "PREPARING", !.ident = r.pu.ident, !.pu = NoUpdate]
          ELSE idle}

StartMoves(r) ==
    IF r.pr \/ HasService(r) THEN {}
    ELSE IF r.inst = "PREPARING" THEN {[r EXCEPT !.inst = "IDLE"]}
    ELSE IF r.inst = "IDLE" THEN {[r EXCEPT !.svc = "STARTING", !.role = role] : role \in Role}
    ELSE {}

ReleasedMoves(r) ==
    IF r.inst = "RELEASING" THEN {[r EXCEPT !.inst = "RELEASED", !.pr = FALSE]} ELSE {}

LifecycleMoves(r) == DrainMoves(r) \cup DrainedMoves(r) \cup StartMoves(r) \cup ReleasedMoves(r)

\* The row after a lifecycle operation with copy c writes next over r.
Written(r, c, next) ==
    IF c.svc = "DRAINING" /\ HasUpdate(c) /\ ~c.pr
    THEN IF AcceptsUpdate(r, next) THEN Updated(r, next) ELSE r
    ELSE IF Accepts(r, next) THEN Merged(r, next) ELSE r

LifecycleBegin(i) ==
    /\ Free(i) /\ LifecycleMoves(row[i]) # {}
    /\ lock' = [lock EXCEPT ![i] = Owner]
    /\ work' = [work EXCEPT ![i] = row[i]]
    /\ UNCHANGED <<partnerVars, row, log, admission, exec, loopVars, faults>>

(***************************************************************************)
(* RELEASED is written after adapter.ReleaseInstance, which names the      *)
(* instance and not the lease: whatever the partner holds is gone.         *)
(***************************************************************************)
LifecycleEnd(i) ==
    /\ lock[i] = Owner
    /\ lock' = [lock EXCEPT ![i] = Nobody]
    /\ work' = [work EXCEPT ![i] = NotTracked]
    /\ \E next \in LifecycleMoves(work[i]) :
          /\ Put(i, Written(row[i], work[i], next))
          /\ container' = IF next.inst = "RELEASED" THEN [container EXCEPT ![i] = 0]
                          ELSE container
    /\ UNCHANGED <<now, address, sent, log, admission, exec, loopVars, faults>>

\* beginDrain at the end of a revoke or of a queued identity, lock held.
Drain(x) ==
    LET i == exec[x].event.inst IN
    /\ exec[x].pc = "drain"
    /\ \/ \E next \in DrainMoves(row[i]) : Put(i, Written(row[i], row[i], next))
       \/ DrainMoves(row[i]) = {} /\ UNCHANGED row
    /\ Release(x) /\ Decide(x, "APPLIED")
    /\ UNCHANGED <<partnerVars, log, loopVars, faults>>
-----------------------------------------------------------------------------
(***************************************************************************)
(* HandleCapacityEvent: claim, handle, complete.  A push may be delivered  *)
(* in any order and never; a second delivery only reads the log.           *)
(***************************************************************************)
Begin(x, e) == exec' = [exec EXCEPT ![x] = [Idle EXCEPT !.pc = "apply", !.event = e]]

Deliver(x, e) ==
    /\ x \notin {Reconciler, Puller} /\ exec[x] = Idle
    /\ e \notin DOMAIN log
    /\ log' = ClaimEvent(e)
    /\ Begin(x, e)
    /\ UNCHANGED <<partnerVars, row, lockVars, loopVars, faults>>

Complete(x) ==
    LET self == exec[x] IN
    /\ self.pc = "complete"
    /\ log' = CompleteEvent(self.event, self.result)
    /\ Finish(x, self.result)
    /\ UNCHANGED <<partnerVars, row, lockVars, loopVars, faults>>

(***************************************************************************)
(* ResumePendingEvents: a batch after the cursor, or from the beginning    *)
(* when there is none; a record somebody else is handling is passed over.  *)
(* The round may run out of time after any record.                         *)
(***************************************************************************)
NoReplay == [cursor |-> NoEvent, todo |-> {}]

ResumePending ==
    LET after == ListPendingEventsAfter(replay.cursor)
        wraps == after = {} /\ replay.cursor # NoEvent
    IN
    /\ exec[Reconciler] = Idle /\ replay.todo = {}
    /\ replay' = [cursor |-> IF wraps THEN NoEvent ELSE replay.cursor,
                  todo   |-> IF wraps THEN ListPendingEventsAfter(NoEvent) ELSE after]
    /\ UNCHANGED <<partnerVars, row, log, lockVars, exec, pull, missing, shown, faults>>

MayReplay_AnyRecord(e) == ~Busy(e)

MayReplay(e) == ~Busy(e) /\ e \in Pending

ResumeEvent ==
    LET e == First(replay.todo) IN
    /\ exec[Reconciler] = Idle /\ replay.todo # {}
    /\ \E rest \in {replay.todo \ {e}, {}} :
          replay' = [cursor |-> e, todo |-> rest]
    /\ IF MayReplay(e) THEN Begin(Reconciler, e) ELSE UNCHANGED exec
    /\ UNCHANGED <<partnerVars, row, log, lockVars, pull, missing, shown, faults>>
-----------------------------------------------------------------------------
(***************************************************************************)
(* pullAuthoritative.  The time is taken before the partner is asked, the  *)
(* rows are listed after it answered, and the sweep acts on those copies.  *)
(***************************************************************************)
NoPull == [stage |-> "idle", observed |-> 0, view |-> [i \in Instance |-> 0],
           rows |-> [i \in Instance |-> NotTracked], todo |-> {}]

Tick == IF now < MaxTime THEN now + 1 ELSE now

PullBegin ==
    /\ Pulls /\ pull.stage = "idle" /\ exec[Puller] = Idle
    /\ now' = Tick
    /\ pull' = [pull EXCEPT !.stage = "read", !.observed = Tick]
    /\ UNCHANGED <<container, address, sent, row, log, lockVars, exec, replay, missing,
                   shown, faults>>

(***************************************************************************)
(* Plan.  The partner's list may leave out a container that exists (it     *)
(* does for minutes after a restart), or the request may fail.             *)
(***************************************************************************)
PullRead ==
    /\ pull.stage = "read"
    /\ \/ /\ \/ pull' = [pull EXCEPT !.stage = "list", !.view = container] /\ Works
             \/ \E i \in Instance :
                   /\ container[i] # 0 /\ Fails("omit")
                   /\ pull' = [pull EXCEPT !.stage = "list",
                                           !.view = [container EXCEPT ![i] = 0]]
          /\ shown' = [i \in Instance |-> IF pull'.view[i] # 0 /\ shown[i] = "no"
                                         THEN "listed" ELSE shown[i]]
       \/ Fails("partner") /\ pull' = NoPull /\ UNCHANGED shown
    /\ UNCHANGED <<partnerVars, row, log, lockVars, exec, replay, missing>>

PullList ==
    /\ pull.stage = "list"
    /\ pull' = [pull EXCEPT !.stage = "sweep", !.rows = row, !.todo = Instance]
    /\ UNCHANGED <<partnerVars, row, log, lockVars, exec, replay, missing, shown, faults>>

\* The pull loop claims the event and handles it like any other goroutine.
Apply(e) ==
    IF e \in DOMAIN log
    THEN /\ exec' = [exec EXCEPT ![Puller] = [Idle EXCEPT !.pc = "done", !.result = log[e]]]
         /\ UNCHANGED log
    ELSE log' = ClaimEvent(e) /\ Begin(Puller, e)

PulledEvent(i, kind, ident) ==
    [at |-> pull.observed, inst |-> i, kind |-> kind, ident |-> ident, src |-> "pull"]

(***************************************************************************)
(* A row that shows something newer, or that is being reclaimed, is passed *)
(* over; so is a change that is already queued.                            *)
(***************************************************************************)
PassesOver(r, ident) ==
    \/ r.pr \/ r.inst = "RELEASING"
    \/ ~Active(r) /\ ident = r.ident
    \/ r.seen > pull.observed
    \/ HasUpdate(r) /\ (r.pu.at > pull.observed \/ r.pu.ident = ident)

Swept(i) == pull' = [pull EXCEPT !.todo = @ \ {i}]

\* An instance the snapshot lists: any absence clock is forgiven.
Forgiven_Never(i) == missing

Forgiven(i) ==
    IF Tracked(pull.rows[i]) THEN [missing EXCEPT ![i] = "none"] ELSE missing

PulledKind_Update(r) == "UPDATED"

PulledKind(r) == IF Active(r) THEN "UPDATED" ELSE "ADDED"

PullOffered(i) ==
    LET r     == pull.rows[i]
        ident == pull.view[i]
        e     == PulledEvent(i, PulledKind(r), ident)
    IN
    /\ pull.stage = "sweep" /\ exec[Puller] = Idle
    /\ i \in pull.todo /\ ident # 0
    /\ Swept(i)
    /\ missing' = Forgiven(i)
    /\ UNCHANGED <<partnerVars, row, lockVars, replay, shown, faults>>
    /\ \/ PassesOver(r, ident) /\ UNCHANGED <<exec, log>>
       \/ ~PassesOver(r, ident) /\ ~Busy(e) /\ Apply(e)

(***************************************************************************)
(* An active row the snapshot does not list, once everything listed is     *)
(* done: the first miss starts the grace, and a miss after it revokes.     *)
(***************************************************************************)
PullAbsent(i) ==
    LET r     == pull.rows[i]
        owned == Active(r) /\ ~r.pr
        newer == owned /\ r.seen > pull.observed
        e     == PulledEvent(i, "REVOKED", r.ident)
    IN
    /\ pull.stage = "sweep" /\ exec[Puller] = Idle
    /\ i \in pull.todo /\ \A j \in pull.todo : pull.view[j] = 0
    /\ Swept(i)
    /\ UNCHANGED <<partnerVars, row, lockVars, replay, faults>>
    /\ \/ /\ Tracked(r) => newer \/ (owned /\ missing[i] = "running")
          /\ UNCHANGED <<exec, log, missing, shown>>
       \/ /\ Tracked(r) /\ ~owned
          /\ missing' = [missing EXCEPT ![i] = "none"]
          /\ UNCHANGED <<exec, log, shown>>
       \/ /\ owned /\ ~newer /\ missing[i] = "none"
          /\ missing' = [missing EXCEPT ![i] = "running"]
          /\ shown' = [shown EXCEPT ![i] = "no"]
          /\ UNCHANGED <<exec, log>>
       \/ /\ owned /\ ~newer /\ missing[i] = "elapsed"
          /\ missing' = [missing EXCEPT ![i] = "none"]
          /\ ~Busy(e) /\ Apply(e)
          /\ UNCHANGED shown

\* A deferred event does not stop the sweep, a rejected one does.
PullOutcome ==
    /\ exec[Puller].pc = "done"
    /\ exec' = [exec EXCEPT ![Puller] = Idle]
    /\ pull' = IF exec[Puller].result = "REJECTED" THEN NoPull ELSE pull
    /\ UNCHANGED <<partnerVars, row, log, lockVars, replay, missing, shown, faults>>

\* Commit: only the next diff in the log depends on the stored snapshot.
PullCommit ==
    /\ pull.stage = "sweep" /\ pull.todo = {} /\ exec[Puller] = Idle
    /\ pull' = NoPull
    /\ shown' = [i \in Instance |-> IF pull.view[i] # 0 THEN "completed" ELSE shown[i]]
    /\ UNCHANGED <<partnerVars, row, log, lockVars, exec, replay, missing, faults>>

\* RevocationGrace has passed since the first miss.
GracePasses(i) ==
    /\ missing[i] = "running"
    /\ missing' = [missing EXCEPT ![i] = "elapsed"]
    /\ UNCHANGED <<partnerVars, row, log, lockVars, exec, replay, pull, shown, faults>>
-----------------------------------------------------------------------------
(***************************************************************************)
(* The partner.  It never has two containers at one address.               *)
(***************************************************************************)
InUse(i, a) == \E j \in Instance \ {i} : container[j] # 0 /\ address[container[j]] = a

Used(a) == \E n \in DOMAIN address : address[n] = a

Says(i, kind, ident) ==
    sent' = sent \cup {[at |-> now', inst |-> i, kind |-> kind, ident |-> ident,
                        src |-> "push"]}

Does(deed) ==
    /\ deed \in Deed /\ now < MaxTime /\ now' = now + 1
    /\ UNCHANGED <<row, log, lockVars, exec, loopVars, faults>>

PartnerIssues(i, deed, kind) ==
    /\ Does(deed)
    /\ \E a \in Address :
          /\ ~InUse(i, a) /\ (Reuse \/ ~Used(a))
          /\ address' = [n \in DOMAIN address \cup {now'} |->
                            IF n = now' THEN a ELSE address[n]]
    /\ container' = [container EXCEPT ![i] = now']
    /\ Says(i, kind, now')

PartnerOffers(i)   == container[i] = 0 /\ PartnerIssues(i, "offer", "ADDED")
PartnerReplaces(i) == container[i] # 0 /\ PartnerIssues(i, "replace", "UPDATED")

PartnerConfirms(i) ==
    /\ container[i] # 0 /\ Does("confirm")
    /\ Says(i, "UPDATED", container[i])
    /\ UNCHANGED <<container, address>>

PartnerWithdraws(i) ==
    /\ container[i] # 0 /\ Does("withdraw")
    /\ Says(i, "REVOKED", IF NamesLease THEN container[i] ELSE 0)
    /\ container' = [container EXCEPT ![i] = 0]
    /\ UNCHANGED address
-----------------------------------------------------------------------------
(***************************************************************************)
(* Failures: the process restarts, or the context of one goroutine is      *)
(* cancelled, or a write fails.                                            *)
(***************************************************************************)
Forget ==
    /\ admission' = Nobody
    /\ work' = [i \in Instance |-> NotTracked]
    /\ lock' = [i \in Instance |-> Nobody]
    /\ exec' = [x \in Executor |-> Idle]
    /\ replay' = NoReplay /\ pull' = NoPull
    /\ missing' = [i \in Instance |-> "none"]

Crash ==
    /\ Fails("crash")
    /\ Forget
    /\ UNCHANGED <<partnerVars, row, log, shown>>

Cancel(x) ==
    /\ Fails("cancel")
    /\ exec[x].event # NoEvent
    /\ Release(x) /\ Defer(x)
    /\ UNCHANGED <<partnerVars, row, log, loopVars>>
-----------------------------------------------------------------------------
Init ==
    /\ now = 0
    /\ container = [i \in Instance |-> 0]
    /\ address = <<>>
    /\ sent = {}
    /\ row = [i \in Instance |-> NotTracked]
    /\ log = <<>>
    /\ lock = [i \in Instance |-> Nobody]
    /\ work = [i \in Instance |-> NotTracked]
    /\ admission = Nobody
    /\ exec = [x \in Executor |-> Idle]
    /\ replay = NoReplay
    /\ pull = NoPull
    /\ missing = [i \in Instance |-> "none"]
    /\ faults = 0
    /\ shown = [i \in Instance |-> "no"]

Handle(x) ==
    \/ HandleAdded(x) \/ Admit(x) \/ Allocate(x)
    \/ HandleUpdated(x) \/ Touch(x) \/ Update(x) \/ StoreUpdate(x)
    \/ HandleRevoked(x) \/ RequestReclaim(x) \/ Reclaim(x)
    \/ Drain(x) \/ Complete(x)

Replay == ResumePending \/ ResumeEvent

Pull ==
    \/ PullBegin \/ PullRead \/ PullList \/ PullOutcome \/ PullCommit
    \/ \E i \in Instance : PullOffered(i) \/ PullAbsent(i)

LifecycleStep(i) == LifecycleBegin(i) \/ LifecycleEnd(i)

Partner(i) ==
    PartnerOffers(i) \/ PartnerReplaces(i) \/ PartnerConfirms(i) \/ PartnerWithdraws(i)

Next ==
    \/ \E x \in Executor : Handle(x) \/ Cancel(x) \/ \E e \in sent : Deliver(x, e)
    \/ \E i \in Instance : LifecycleStep(i) \/ GracePasses(i) \/ Partner(i)
    \/ Replay \/ Pull \/ Crash

Spec == Init /\ [][Next]_vars

(***************************************************************************)
(* Goroutines run, both loops tick, lifecycle operations end and the grace *)
(* passes.  The partner need not do anything, nor a push ever arrive.      *)
(***************************************************************************)
FairSpec ==
    /\ Spec
    /\ \A x \in Executor : WF_vars(Handle(x))
    /\ \A i \in Instance : WF_vars(LifecycleStep(i)) /\ WF_vars(GracePasses(i))
    /\ WF_vars(Replay) /\ WF_vars(Pull)
=============================================================================
