-------------------------- MODULE Lifecycle_proofs --------------------------
(***************************************************************************)
(* Proofs about Lifecycle for every number of goroutines, roles,           *)
(* identities, failures and thresholds.                                    *)
(*                                                                         *)
(* TypeOK is not inductive: a probe indexes the containers by the identity *)
(* in a copy, and nothing in TypeOK says that this is one of them.  The    *)
(* invariant IInv says it of the row, of the update that is pending in it  *)
(* and of every copy a goroutine carries.  The same proof, action by       *)
(* action, shows that the row is written only by a transaction (Stored),   *)
(* and from this follows that Lifecycle implements InstanceTable.          *)
(***************************************************************************)
EXTENDS LifecycleProperties, Store_proofs

(***************************************************************************)
(* The inductive invariant.                                                *)
(***************************************************************************)
LeaseRow ==
    {r \in Row : r.ident \in Ident /\ (HasUpdate(r) => r.pu.ident \in Ident)}

Busy == [pc : Place \ {"idle"}, copy : LeaseRow, fresh : BOOLEAN, why : Branch]

Resting == [pc : {"idle"}, copy : {NoCopy}, fresh : {FALSE}, why : {""}]

Goroutine == Busy \cup Resting

RowOK == row \in LeaseRow

OpsOK == ops \in [OpKind \X Ident -> OpStatus]

ControlOK ==
    /\ lock \in Thread \cup {NoThread}
    /\ thread \in [Thread -> Goroutine]

MemoryOK ==
    /\ streak \in [unreachable : Nat, unhealthy : Nat]
    /\ boot \subseteq BootStage

RouterOK ==
    /\ epoch \in Nat
    /\ mem \in [Ident -> [listed : BOOLEAN, type : AnyRole, ready : BOOLEAN]]

NodeOK ==
    /\ proc \in [Ident -> [phase : Phase, role : AnyRole, ok : BOOLEAN]]
    /\ reach \in [Ident -> BOOLEAN]
    /\ held \in BOOLEAN
    /\ issued \in Ident

ClockOK == clock \in [drain : BOOLEAN, cool : BOOLEAN]

FaultsOK == faults \in 0..MaxFaults

IInv ==
    /\ RowOK /\ OpsOK /\ ControlOK /\ MemoryOK
    /\ RouterOK /\ NodeOK /\ ClockOK /\ FaultsOK

\* What a step has to show: how it wrote the row, and the rest of IInv.
Stored ==
    \/ row' = row
    \/ \E next \in LeaseRow : Accepts(row, next) /\ row' = Merged(row, next)
    \/ row' = RequestRelease(row)
    \/ \E next \in LeaseRow : AcceptsReoffer(row, next) /\ row' = Reoffered(row, next)
    \/ \E next \in LeaseRow : AcceptsUpdate(row, next) /\ row' = Updated(row, next)

Kept ==
    /\ OpsOK' /\ ControlOK' /\ MemoryOK'
    /\ RouterOK' /\ NodeOK' /\ ClockOK' /\ FaultsOK'

-----------------------------------------------------------------------------
(***************************************************************************)
(* Rows.                                                                   *)
(***************************************************************************)

\* There is an identity: the partner issues at least one.
LEMMA SomeIdent == MaxIdent \in Nat /\ 1 \in Ident /\ Ident \subseteq Nat
  BY LifecycleAssumption DEF Ident

\* Whichever way a transaction stores a row of known identity, it is one again.
LEMMA StoredType == RowOK /\ Stored => RowOK'
  <1>. SUFFICES ASSUME RowOK, Stored
                PROVE  row' \in LeaseRow
    BY DEF RowOK
  <1>0. row \in LeaseRow /\ row \in Row
    BY DEF RowOK, LeaseRow
  <1>1. CASE row' = row
    BY <1>1, <1>0
  <1>2. ASSUME NEW next \in LeaseRow, row' = Merged(row, next)
        PROVE  row' \in LeaseRow
    <2>1. next \in Row
      BY DEF LeaseRow
    <2>2. row' \in Row /\ row'.ident = next.ident
      BY <1>0, <1>2, <2>1, MergedType
    <2>3. row'.pu \in {row.pu, next.pu, NoUpdate}
      BY <1>0, <1>2, <2>1, MergedType, KeptUpdateType
    <2>. QED BY <1>0, <2>2, <2>3 DEF LeaseRow, HasUpdate
  <1>3. CASE row' = RequestRelease(row)
    <2>1. row' \in Row /\ row'.ident = row.ident
      BY <1>0, <1>3, RequestType
    <2>2. row'.pu \in {row.pu, NoUpdate}
      BY <1>0, <1>3 DEF RequestRelease, Row
    <2>. QED BY <1>0, <2>1, <2>2 DEF LeaseRow, HasUpdate
  <1>4. ASSUME NEW next \in LeaseRow, row' = Reoffered(row, next)
        PROVE  row' \in LeaseRow
    <2>1. next \in Row
      BY DEF LeaseRow
    <2>. QED BY <1>0, <1>4, <2>1, ReofferIdempotent DEF LeaseRow, HasUpdate
  <1>5. ASSUME NEW next \in LeaseRow, AcceptsUpdate(row, next), row' = Updated(row, next)
        PROVE  row' \in LeaseRow
    <2>1. next \in Row /\ row.pu.ident \in Ident
      BY <1>0, <1>5 DEF AcceptsUpdate, LeaseRow
    <2>. QED BY <1>0, <1>5, <2>1, UpdateIdempotent DEF LeaseRow, HasUpdate
  <1>. QED BY <1>1, <1>2, <1>3, <1>4, <1>5 DEF Stored

\* A committed transaction is one of the writes of Stored.
LEMMA CommitStores ==
    ASSUME NEW next \in LeaseRow, NEW opsNext, Commit(next, opsNext)
    PROVE  Stored /\ ops' = opsNext
  BY DEF Commit, Stored

\* Every row a handler builds from a row of known identity has one as well.
LEMMA BuiltRows ==
    ASSUME NEW c \in LeaseRow
    PROVE  /\ \A phase : PreparedRow(c, phase) \in LeaseRow
           /\ PrepareFailedRow(c) \in LeaseRow
           /\ ServingRow(c) \in LeaseRow
           /\ FailedRow(c) \in LeaseRow
           /\ DrainedRow(c) \in LeaseRow
           /\ HasUpdate(c) => MovedRow(c) \in LeaseRow
           /\ RecoveredRow(c) \in LeaseRow
  <1>. USE DEF LeaseRow, Row, HasUpdate, NoUpdate, NoWorker,
               InstanceState, ServiceState, AnyRole
  <1>1. \A phase : PreparedRow(c, phase) \in LeaseRow
    BY ZenonT(60) DEF PreparedRow
  <1>2. PrepareFailedRow(c) \in LeaseRow
    <2>1. CASE c.prep + 1 >= PrepareMaxAttempts
      BY <2>1, LifecycleAssumption DEF PrepareFailedRow
    <2>2. CASE ~(c.prep + 1 >= PrepareMaxAttempts)
      BY <2>2, LifecycleAssumption, c.prep + 1 \in Nat DEF PrepareFailedRow
    <2>. QED BY <2>1, <2>2
  <1>3. ServingRow(c) \in LeaseRow
    <2>1. CASE c.svc = "SERVING"
      BY <2>1 DEF ServingRow
    <2>2. CASE c.svc # "SERVING"
      BY <2>2, ZenonT(60) DEF ServingRow
    <2>. QED BY <2>1, <2>2
  <1>4. FailedRow(c) \in LeaseRow
    <2>1. Spent(c) \in BOOLEAN
      BY DEF Spent
    <2>. QED BY <2>1, ZenonT(60) DEF FailedRow
  <1>5. DrainedRow(c) \in LeaseRow
    BY ZenonT(60) DEF DrainedRow
  <1>6. HasUpdate(c) => MovedRow(c) \in LeaseRow
    BY SomeIdent, ZenonT(60) DEF MovedRow, DrainedRow
  <1>7. RecoveredRow(c) \in LeaseRow
    BY ZenonT(60) DEF RecoveredRow
  <1>. QED BY <1>1, <1>2, <1>3, <1>4, <1>5, <1>6, <1>7

-----------------------------------------------------------------------------
(***************************************************************************)
(* Goroutines.                                                             *)
(***************************************************************************)

LEMMA IdleType == Idle \in Goroutine
  BY DEF Idle, Goroutine, Resting

\* A goroutine that is somewhere carries a row of known identity.
LEMMA SelfType ==
    ASSUME ControlOK, NEW t \in Thread, thread[t].pc # "idle"
    PROVE  /\ thread[t] \in Busy
           /\ thread[t].copy \in LeaseRow
           /\ thread[t].why \in Branch
  <1>1. thread[t] \in Busy
    BY DEF ControlOK, Goroutine, Resting
  <1>. QED BY <1>1 DEF Busy

\* A write that outdates the snapshots of others leaves them otherwise alone.
LEMMA OutdatedType ==
    ASSUME ControlOK, NEW t \in Thread, NEW next \in Goroutine
    PROVE  Outdated(t, next) \in [Thread -> Goroutine]
  <1>1. ASSUME NEW u \in Thread
        PROVE  [thread[u] EXCEPT !.fresh = FALSE] \in Goroutine
    BY DEF ControlOK, Goroutine, Busy, Resting
  <1>. QED BY <1>1 DEF Outdated

\* A write outside any goroutine leaves every goroutine typed.
LEMMA OutdateAllType ==
    ASSUME ControlOK, OutdateAll
    PROVE  thread' \in [Thread -> Goroutine]
  <1>1. ASSUME NEW u \in Thread
        PROVE  [thread[u] EXCEPT !.fresh = FALSE] \in Goroutine
    BY DEF ControlOK, Goroutine, Busy, Resting
  <1>. QED BY <1>1 DEF OutdateAll

\* However a goroutine goes on, the others keep their place and their copy.
LEMMA GoesOn ==
    ASSUME ControlOK, NEW t \in Thread, NEW pc \in Place \ {"idle"},
           NEW copy \in LeaseRow, NEW why \in Branch,
           \/ Goto(t, pc, copy, why) \/ Hold(t, pc, copy, why)
           \/ WriteGoto(t, pc, copy, why) \/ WriteHold(t, pc, copy, why)
    PROVE  ControlOK'
  <1>1. At(pc, copy, why) \in Busy
    BY DEF At, Busy
  <1>3. Outdated(t, At(pc, copy, why)) \in [Thread -> Goroutine]
    BY <1>1, OutdatedType DEF Goroutine
  <1>4. thread' \in [Thread -> Goroutine]
    BY <1>1, <1>3 DEF ControlOK, Goroutine, Goto, Hold, WriteGoto, WriteHold
  <1>5. lock' \in Thread \cup {NoThread}
    BY DEF ControlOK, Goto, Hold, WriteGoto, WriteHold
  <1>. QED BY <1>4, <1>5 DEF ControlOK

\* A goroutine that ends, with or without a write, leaves the lock and the threads typed.
LEMMA Ends ==
    ASSUME ControlOK, NEW t \in Thread, End(t) \/ WriteEnd(t)
    PROVE  ControlOK'
  <1>1. Outdated(t, Idle) \in [Thread -> Goroutine]
    BY OutdatedType, IdleType
  <1>. QED BY <1>1, IdleType DEF ControlOK, End, WriteEnd

\* A failure is counted against its bound.
LEMMA FaultsType == FaultsOK /\ (Works \/ \E kind : Fails(kind)) => FaultsOK'
  BY LifecycleAssumption DEF FaultsOK, Works, Fails

\* A step that moves goroutines and nothing else.
LEMMA ControlStep ==
    ASSUME IInv, ControlOK', Works \/ \E kind : Fails(kind),
           UNCHANGED <<dbVars, streak, boot, routerVars, nodeVars, clock>>
    PROVE  Stored /\ Kept
  <1>1. FaultsOK'
    BY FaultsType DEF IInv
  <1>. QED
    BY <1>1 DEF IInv, Stored, Kept, OpsOK, MemoryOK, RouterOK, NodeOK, ClockOK,
                dbVars, routerVars, nodeVars

\* A step that writes the database and moves goroutines.
LEMMA WriteStep ==
    ASSUME IInv, Stored, OpsOK', ControlOK',
           UNCHANGED <<streak, boot, routerVars, nodeVars, clock, faults>>
    PROVE  Stored /\ Kept
  BY DEF IInv, Kept, MemoryOK, RouterOK, NodeOK, ClockOK, FaultsOK, routerVars, nodeVars

\* The same, for a write that also sets or clears a stamp.
LEMMA StampStep ==
    ASSUME IInv, Stored, OpsOK', ControlOK', ClockOK',
           UNCHANGED <<streak, boot, routerVars, nodeVars, faults>>
    PROVE  Stored /\ Kept
  BY DEF IInv, Kept, MemoryOK, RouterOK, NodeOK, FaultsOK, routerVars, nodeVars

\* A step that moves goroutines and changes memberships in the Router.
LEMMA RouterStep ==
    ASSUME IInv, ControlOK', RouterOK', Works \/ \E kind : Fails(kind),
           UNCHANGED <<dbVars, streak, boot, nodeVars, clock>>
    PROVE  Stored /\ Kept
  <1>1. FaultsOK'
    BY FaultsType DEF IInv
  <1>. QED
    BY <1>1 DEF IInv, Stored, Kept, OpsOK, MemoryOK, NodeOK, ClockOK, dbVars, nodeVars

\* A step that moves goroutines and changes containers.
LEMMA NodeStep ==
    ASSUME IInv, ControlOK', NodeOK', Works \/ \E kind : Fails(kind),
           UNCHANGED <<dbVars, streak, boot, routerVars, clock>>
    PROVE  Stored /\ Kept
  <1>1. FaultsOK'
    BY FaultsType DEF IInv
  <1>. QED
    BY <1>1 DEF IInv, Stored, Kept, OpsOK, MemoryOK, RouterOK, ClockOK, dbVars, routerVars

\* A step of a reconcile round, which counts what it observed.
LEMMA RoundStep ==
    ASSUME IInv, Stored, OpsOK', ControlOK', MemoryOK', RouterOK',
           Works \/ \E kind : Fails(kind),
           UNCHANGED <<nodeVars, clock>>
    PROVE  Stored /\ Kept
  <1>1. FaultsOK'
    BY FaultsType DEF IInv
  <1>. QED BY <1>1 DEF IInv, Kept, NodeOK, ClockOK, nodeVars

\* Closing the readiness of a worker leaves the memberships memberships.
LEMMA ClosedType ==
    ASSUME RouterOK, NEW worker
    PROVE  Closed(worker) \in [Ident -> [listed : BOOLEAN, type : AnyRole, ready : BOOLEAN]]
  BY DEF RouterOK, Closed

\* The worker id a row resolves to is one the Router could have given.
LEMMA ResolvedType ==
    ASSUME IInv, NEW c \in LeaseRow
    PROVE  [c EXCEPT !.worker = ResolvedWorker(c)] \in LeaseRow
  <1>1. c.ident \in Nat
    BY DEF LeaseRow, Row
  <1>2. ResolvedWorker(c) \in Nat \X Nat
    BY <1>1 DEF ResolvedWorker, WorkerId, IInv, RouterOK, LeaseRow, Row
  <1>. QED BY <1>2 DEF LeaseRow, Row, HasUpdate

\* A container that is gone is a container record.
LEMMA NoContainerType == NoContainer \in [phase : Phase, role : AnyRole, ok : BOOLEAN]
  BY DEF NoContainer, Phase, AnyRole

\* Recording one operation leaves the operations table typed.
LEMMA PutType ==
    ASSUME OpsOK, NEW kind, NEW ident, NEW status \in OpStatus
    PROVE  Put(kind, ident, status) \in [OpKind \X Ident -> OpStatus]
  BY DEF OpsOK, Put

-----------------------------------------------------------------------------
(***************************************************************************)
(* The steps of a goroutine.                                               *)
(***************************************************************************)
LEMMA PrepareKeeps ==
    ASSUME IInv, NEW t \in Thread, Prepare(t)
    PROVE  Stored /\ Kept
  <1>1. row \in LeaseRow /\ row.ident \in Ident /\ proc[row.ident].phase \in Branch
    BY DEF IInv, RowOK, LeaseRow, NodeOK, Branch
  <1>2. ControlOK'
    BY <1>1, GoesOn, Ends DEF Prepare, IInv, Place, Branch
  <1>3. Works \/ \E kind : Fails(kind)
    BY DEF Prepare, BootstrapAnswers, BootstrapError
  <1>. QED BY <1>2, <1>3, ControlStep DEF Prepare

\* The commit of runPrepare, successful or not, writes a merged lease row.
LEMMA PrepareCommitKeeps ==
    ASSUME IInv, NEW t \in Thread, PrepareCommit(t)
    PROVE  Stored /\ Kept
  <1>. DEFINE self == thread[t]
              next == IF self.pc = "prepared" THEN PreparedRow(self.copy, self.why)
                      ELSE PrepareFailedRow(self.copy)
  <1>1. next \in LeaseRow
    BY SelfType, BuiltRows DEF PrepareCommit, IInv
  <1>2. Stored
    BY <1>1, CommitStores DEF PrepareCommit, Refused, dbVars, Stored
  <1>3. OpsOK'
    BY PutType DEF PrepareCommit, Commit, Refused, dbVars, IInv, OpsOK, OpStatus
  <1>4. ControlOK'
    BY Ends DEF PrepareCommit, IInv
  <1>. QED BY <1>2, <1>3, <1>4, WriteStep DEF PrepareCommit

\* StartService commits STARTING through the store, or leaves the row alone.
LEMMA StartServiceKeeps ==
    ASSUME IInv, NEW t \in Thread, StartService(t)
    PROVE  Stored /\ Kept
  <1>. DEFINE self == thread[t]
              next == [row EXCEPT !.role = self.copy.role, !.svc = "STARTING",
                                  !.start = @ + 1]
  <1>1. self.copy \in LeaseRow /\ self.why \in Branch /\ row \in LeaseRow
    BY SelfType DEF StartService, IInv, RowOK
  <1>2. next \in LeaseRow
    <2>1. self.copy.role \in AnyRole /\ row.start + 1 \in Nat
      BY <1>1 DEF LeaseRow, Row
    <2>. HIDE DEF self
    <2>. QED BY <1>1, <2>1 DEF LeaseRow, Row, HasUpdate, ServiceState
  <1>3. Stored
    BY <1>2, CommitStores DEF StartService, dbVars, Stored
  <1>4. OpsOK'
    BY PutType DEF StartService, Commit, dbVars, IInv, OpsOK, OpStatus
  <1>5. ControlOK'
    BY <1>1, <1>2, GoesOn, Ends DEF StartService, IInv, Place
  <1>. QED BY <1>3, <1>4, <1>5, WriteStep DEF StartService

\* A call that may start the process of the container it addresses.
LEMMA LaunchKeeps ==
    ASSUME IInv, NEW t \in Thread, Launch(t)
    PROVE  Stored /\ Kept
  <1>1. /\ thread[t].copy \in LeaseRow /\ thread[t].why \in Branch
        /\ thread[t].copy.role \in AnyRole
    BY SelfType DEF Launch, IInv, LeaseRow, Row
  <1>2. proc' \in [Ident -> [phase : Phase, role : AnyRole, ok : BOOLEAN]]
    <2>1. Running(thread[t].copy.role) \in [phase : Phase, role : AnyRole, ok : BOOLEAN]
      BY <1>1 DEF Running, Phase
    <2>2. Exited(Running(thread[t].copy.role))
              \in [phase : Phase, role : AnyRole, ok : BOOLEAN]
      BY <2>1 DEF Exited, Phase
    <2>. QED BY <2>1, <2>2 DEF Launch, IInv, NodeOK
  <1>3. ControlOK'
    BY <1>1, GoesOn DEF Launch, IInv, Place
  <1>4. NodeOK'
    BY <1>2 DEF Launch, IInv, NodeOK
  <1>5. Works \/ \E kind : Fails(kind)
    BY DEF Launch, BootstrapAnswers, BootstrapError
  <1>. QED BY <1>3, <1>4, <1>5, NodeStep DEF Launch

\* waitHealthy moves only its goroutine.
LEMMA HealthKeeps ==
    ASSUME IInv, NEW t \in Thread, Health(t)
    PROVE  Stored /\ Kept
  <1>1. thread[t].copy \in LeaseRow /\ thread[t].why \in Branch
    BY SelfType DEF Health, IInv
  <1>2. ControlOK'
    BY <1>1, GoesOn DEF Health, IInv, Place
  <1>. QED BY <1>2, ControlStep DEF Health

\* Each service state of finishStart is stored by one transaction.
LEMMA AdvanceKeeps ==
    ASSUME IInv, NEW t \in Thread, Advance(t)
    PROVE  Stored /\ Kept
  <1>. DEFINE self == thread[t]
              next == [self.copy EXCEPT !.svc = NextService(self.pc)]
  <1>1. self.copy \in LeaseRow /\ self.why \in Branch
    BY SelfType DEF Advance, IInv
  <1>2. NextService(self.pc) \in ServiceState /\ NextPlace(self.pc) \in Place \ {"idle"}
    BY DEF Advance, NextService, NextPlace, ServiceState, Place
  <1>3. next \in LeaseRow
    BY <1>1, <1>2 DEF LeaseRow, Row, HasUpdate
  <1>4. Stored
    BY <1>3, CommitStores DEF Advance, Refused, dbVars, Stored
  <1>5. OpsOK'
    BY DEF Advance, Commit, Refused, dbVars, IInv, OpsOK
  <1>6. ControlOK'
    BY <1>1, <1>2, <1>3, GoesOn, Ends DEF Advance, IInv
  <1>. QED BY <1>4, <1>5, <1>6, WriteStep DEF Advance

\* register changes the Router and the worker id in the copy, not the row.
LEMMA RegisterKeeps ==
    ASSUME IInv, NEW t \in Thread, Register(t)
    PROVE  Stored /\ Kept
  <1>. DEFINE self == thread[t]
              i    == self.copy.ident
              copy == [self.copy EXCEPT !.worker = WorkerId(i)]
              Membership == [listed : BOOLEAN, type : AnyRole, ready : BOOLEAN]
  <1>1. /\ self.copy \in LeaseRow /\ self.why \in Branch
        /\ i \in Ident /\ i \in Nat /\ self.copy.role \in AnyRole
    BY SelfType, SomeIdent DEF Register, IInv, LeaseRow, Row
  <1>2. copy \in LeaseRow
    <2>1. WorkerId(i) \in Nat \X Nat
      BY <1>1 DEF WorkerId, IInv, RouterOK
    <2>. HIDE DEF self, i
    <2>. QED BY <1>1, <2>1 DEF LeaseRow, Row, HasUpdate
  <1>3. mem' \in [Ident -> Membership]
    <2>1. NotListed \in Membership
      BY DEF NotListed, AnyRole
    <2>2. \A ready \in BOOLEAN :
              [listed |-> TRUE, type |-> self.copy.role, ready |-> ready] \in Membership
      BY <1>1
    <2>3. [mem[i] EXCEPT !.ready = FALSE] \in Membership
      BY <1>1 DEF IInv, RouterOK
    <2>. QED BY <2>1, <2>2, <2>3, ZenonT(60) DEF Register, IInv, RouterOK
  <1>4. ControlOK'
    <2>1. RouterFailure(self.why) \in Branch /\ "settled" \in Branch
      BY <1>1 DEF RouterFailure, Branch
    <2>. QED BY <1>1, <1>2, <2>1, GoesOn DEF Register, IInv, Place
  <1>5. RouterOK'
    BY <1>3 DEF Register, IInv, RouterOK
  <1>. QED BY <1>4, <1>5, RouterStep DEF Register

\* ensureReadiness changes the Router, not the row.
LEMMA OpenKeeps ==
    ASSUME IInv, NEW t \in Thread, Open(t)
    PROVE  Stored /\ Kept
  <1>1. thread[t].copy \in LeaseRow /\ thread[t].why \in Branch
    BY SelfType DEF Open, IInv
  <1>2. ControlOK'
    <2>1. RouterFailure(thread[t].why) \in Branch
      BY <1>1 DEF RouterFailure, Branch
    <2>. QED BY <1>1, <2>1, GoesOn, Ends DEF Open, IInv, Place
  <1>3. RouterOK'
    BY ZenonT(60) DEF Open, IInv, RouterOK
  <1>. QED BY <1>2, <1>3, RouterStep DEF Open

\* SERVING is stored by one transaction.
LEMMA ServeKeeps ==
    ASSUME IInv, NEW t \in Thread, Serve(t)
    PROVE  Stored /\ Kept
  <1>1. ServingRow(thread[t].copy) \in LeaseRow
    BY SelfType, BuiltRows DEF Serve, IInv
  <1>2. Stored
    BY <1>1, CommitStores DEF Serve, Refused, dbVars, Stored
  <1>3. OpsOK'
    BY PutType DEF Serve, Commit, Refused, dbVars, IInv, OpsOK, OpStatus
  <1>4. ControlOK'
    BY Ends DEF Serve, IInv
  <1>. QED BY <1>2, <1>3, <1>4, WriteStep DEF Serve

\* failStart stores FAILED by one transaction.
LEMMA FailStartKeeps ==
    ASSUME IInv, NEW t \in Thread, FailStart(t)
    PROVE  Stored /\ Kept
  <1>1. FailedRow(thread[t].copy) \in LeaseRow
    BY SelfType, BuiltRows DEF FailStart, IInv
  <1>2. Stored
    BY <1>1, CommitStores DEF FailStart, Refused, dbVars, Stored
  <1>3. OpsOK'
    BY PutType DEF FailStart, Commit, Refused, dbVars, IInv, OpsOK, OpStatus
  <1>4. ControlOK'
    BY Ends DEF FailStart, IInv
  <1>5. ClockOK'
    BY <1>1 DEF FailStart, IInv, ClockOK, LeaseRow, Row
  <1>. QED BY <1>2, <1>3, <1>4, <1>5, StampStep DEF FailStart

\* The first half of beginDrain closes readiness and does not write the row.
LEMMA BeginDrainKeeps ==
    ASSUME IInv, NEW t \in Thread, BeginDrain(t)
    PROVE  Stored /\ Kept
  <1>. DEFINE copy == [row EXCEPT !.worker = ResolvedWorker(row)]
  <1>1. thread[t].why \in Branch /\ row \in LeaseRow
    BY SelfType DEF BeginDrain, IInv, RowOK
  <1>2. copy \in LeaseRow
    BY <1>1, ResolvedType
  <1>3. ControlOK'
    BY <1>1, <1>2, GoesOn, Ends DEF BeginDrain, DrainError, IInv, Place
  <1>4. RouterOK'
    BY ClosedType DEF BeginDrain, IInv, RouterOK
  <1>. QED BY <1>3, <1>4, RouterStep DEF BeginDrain

\* DRAINING is stored by one transaction.
LEMMA DrainCommitKeeps ==
    ASSUME IInv, NEW t \in Thread, DrainCommit(t)
    PROVE  Stored /\ Kept
  <1>. DEFINE self == thread[t]
              next == [self.copy EXCEPT !.svc = "DRAINING", !.deadline = TRUE,
                                        !.pr = Releases(self.why)]
  <1>1. self.copy \in LeaseRow /\ self.why \in Branch /\ row \in LeaseRow
    BY SelfType DEF DrainCommit, IInv, RowOK
  <1>2. next \in LeaseRow
    <2>1. Releases(self.why) \in BOOLEAN
      BY DEF Releases
    <2>. HIDE DEF self
    <2>. QED BY <1>1, <2>1, ZenonT(60) DEF LeaseRow, Row, HasUpdate, ServiceState
  <1>3. Stored
    BY <1>2, CommitStores DEF DrainCommit, Refused, dbVars, Stored
  <1>4. OpsOK'
    BY PutType DEF DrainCommit, Commit, Refused, dbVars, IInv, OpsOK, OpStatus
  <1>5. Commit(next, Put("drain", self.copy.ident, "open")) => Merged(row, next) \in LeaseRow
    BY <1>3, StoredType DEF Commit, IInv, RowOK
  <1>6. ControlOK'
    <2>. HIDE DEF next
    <2>. QED BY <1>1, <1>5, GoesOn, Ends DEF DrainCommit, DrainError, IInv, Place, next
  <1>7. ClockOK'
    BY <1>1 DEF DrainCommit, IInv, ClockOK, LeaseRow, Row
  <1>. QED BY <1>3, <1>4, <1>6, <1>7, StampStep DEF DrainCommit

\* recordReclaimError stores its result by one transaction.
LEMMA ReclaimErrKeeps ==
    ASSUME IInv, NEW t \in Thread, ReclaimErr(t)
    PROVE  Stored /\ Kept
  <1>. DEFINE next == [row EXCEPT !.svc = IF @ \in {"NONE", "DRAINING"} THEN @
                                          ELSE "FAILED"]
  <1>1. next \in LeaseRow
    BY DEF IInv, RowOK, LeaseRow, Row, HasUpdate, ServiceState
  <1>2. Stored
    BY <1>1, CommitStores DEF ReclaimErr, dbVars, Stored
  <1>3. OpsOK'
    BY PutType DEF ReclaimErr, Commit, dbVars, IInv, OpsOK, OpStatus
  <1>4. ControlOK'
    BY Ends DEF ReclaimErr, IInv
  <1>. QED BY <1>2, <1>3, <1>4, WriteStep DEF ReclaimErr

\* The first half of finishDrain stops the process and does not write the row.
LEMMA FinishDrainKeeps ==
    ASSUME IInv, NEW t \in Thread, FinishDrain(t)
    PROVE  Stored /\ Kept
  <1>1. thread[t].why \in Branch /\ row \in LeaseRow
    BY SelfType DEF FinishDrain, IInv, RowOK
  <1>2. ControlOK'
    BY <1>1, GoesOn, Ends DEF FinishDrain, IInv, Place
  <1>3. NodeOK'
    <2>1. Stopped(row.ident) \in [Ident -> [phase : Phase, role : AnyRole, ok : BOOLEAN]]
      BY DEF Stopped, IInv, NodeOK, Phase
    <2>. QED BY <2>1 DEF FinishDrain, IInv, NodeOK
  <1>4. Works \/ \E kind : Fails(kind)
    BY DEF FinishDrain, BootstrapAnswers, BootstrapError
  <1>. QED BY <1>2, <1>3, <1>4, NodeStep DEF FinishDrain

\* The end of a drain is stored as a merged row or as the pending identity.
LEMMA DrainedKeeps ==
    ASSUME IInv, NEW t \in Thread, Drained(t)
    PROVE  Stored /\ Kept
  <1>. DEFINE self  == thread[t]
              moves == HasUpdate(self.copy) /\ ~self.copy.pr
              next  == IF moves THEN MovedRow(self.copy) ELSE DrainedRow(self.copy)
  <1>1. next \in LeaseRow
    BY SelfType, BuiltRows DEF Drained, IInv
  <1>2. Stored
    <2>. HIDE DEF next
    <2>. QED BY <1>1 DEF Drained, dbVars, Stored, next
  <1>3. row' \in LeaseRow
    BY <1>2, StoredType DEF IInv, RowOK
  <1>4. OpsOK'
    BY PutType DEF Drained, dbVars, IInv, OpsOK, OpStatus
  <1>5. ControlOK'
    BY <1>3, GoesOn, Ends DEF Drained, IInv, Place, Branch
  <1>6. ClockOK'
    BY <1>3 DEF Drained, IInv, ClockOK, LeaseRow, Row
  <1>. QED BY <1>2, <1>4, <1>5, <1>6, StampStep DEF Drained

\* failDrain stores its copy by one transaction.
LEMMA DrainFailKeeps ==
    ASSUME IInv, NEW t \in Thread, DrainFail(t)
    PROVE  Stored /\ Kept
  <1>1. thread[t].copy \in LeaseRow
    BY SelfType DEF DrainFail, IInv
  <1>2. Stored
    BY <1>1, CommitStores DEF DrainFail, Refused, dbVars, Stored
  <1>3. OpsOK'
    BY PutType DEF DrainFail, Commit, Refused, dbVars, IInv, OpsOK, OpStatus
  <1>4. ControlOK'
    BY Ends DEF DrainFail, IInv
  <1>. QED BY <1>2, <1>3, <1>4, WriteStep DEF DrainFail

\* The unlocked read of BeginRelease does not write the row.
LEMMA BeginReleaseKeeps ==
    ASSUME IInv, NEW t \in Thread, BeginRelease(t)
    PROVE  Stored /\ Kept
  <1>1. thread[t].why \in Branch /\ row \in LeaseRow
    BY SelfType DEF BeginRelease, IInv, RowOK
  <1>2. ControlOK'
    BY <1>1, GoesOn, Ends DEF BeginRelease, IInv, Place
  <1>. QED BY <1>2, ControlStep DEF BeginRelease, Works

\* RELEASING is stored by one transaction.
LEMMA ReleasingKeeps ==
    ASSUME IInv, NEW t \in Thread, Releasing(t)
    PROVE  Stored /\ Kept
  <1>. DEFINE self == thread[t]
              next == [self.copy EXCEPT !.inst = "RELEASING"]
  <1>1. self.copy \in LeaseRow /\ self.why \in Branch /\ row \in LeaseRow
    BY SelfType DEF Releasing, IInv, RowOK
  <1>2. next \in LeaseRow
    <2>. HIDE DEF self
    <2>. QED BY <1>1 DEF LeaseRow, Row, HasUpdate, InstanceState
  <1>3. Stored
    BY <1>2, CommitStores DEF Releasing, Refused, dbVars, Stored
  <1>4. OpsOK'
    BY PutType DEF Releasing, Commit, Refused, dbVars, IInv, OpsOK, OpStatus
  <1>5. ControlOK'
    BY <1>1, <1>2, GoesOn, Ends DEF Releasing, IInv, Place
  <1>. QED BY <1>3, <1>4, <1>5, WriteStep DEF Releasing

\* Giving the container back changes the partner, not the row.
LEMMA ReturnKeeps ==
    ASSUME IInv, NEW t \in Thread, Return(t)
    PROVE  Stored /\ Kept
  <1>1. thread[t].copy \in LeaseRow /\ thread[t].why \in Branch
    BY SelfType DEF Return, IInv
  <1>2. ControlOK'
    BY <1>1, GoesOn DEF Return, IInv, Place
  <1>3. NodeOK'
    BY NoContainerType, ZenonT(60) DEF Return, GiveBack, IInv, NodeOK, nodeVars
  <1>4. Works \/ \E kind : Fails(kind)
    BY DEF Return
  <1>. QED BY <1>2, <1>3, <1>4, NodeStep DEF Return

\* RELEASED, or the failed return, is stored by one transaction.
LEMMA ReturnedKeeps ==
    ASSUME IInv, NEW t \in Thread, Returned(t)
    PROVE  Stored /\ Kept
  <1>. DEFINE self == thread[t]
              next == IF self.pc = "returned"
                      THEN [self.copy EXCEPT !.inst = "RELEASED", !.pr = FALSE,
                                             !.deadline = FALSE, !.role = NoRole]
                      ELSE self.copy
  <1>1. self.copy \in LeaseRow /\ self.why \in Branch /\ row \in LeaseRow
    BY SelfType DEF Returned, IInv, RowOK
  <1>2. next \in LeaseRow
    <2>. HIDE DEF self
    <2>. QED BY <1>1, ZenonT(60) DEF LeaseRow, Row, HasUpdate, InstanceState, AnyRole
  <1>3. Stored
    BY <1>2, CommitStores DEF Returned, Refused, dbVars, Stored
  <1>4. row' \in LeaseRow
    BY <1>3, StoredType DEF IInv, RowOK
  <1>5. OpsOK'
    BY PutType DEF Returned, Commit, Refused, dbVars, IInv, OpsOK, OpStatus
  <1>6. ControlOK'
    BY <1>1, <1>4, GoesOn, Ends DEF Returned, IInv, Place
  <1>7. ClockOK'
    BY <1>4 DEF Returned, IInv, ClockOK, LeaseRow, Row
  <1>. QED BY <1>3, <1>5, <1>6, <1>7, StampStep DEF Returned

\* reconcileReclaim only chooses where its goroutine goes on.
LEMMA ReclaimStepKeeps ==
    ASSUME IInv, NEW t \in Thread, ReclaimStep(t)
    PROVE  Stored /\ Kept
  <1>1. row \in LeaseRow
    BY DEF IInv, RowOK
  <1>2. ControlOK'
    BY <1>1, GoesOn, Ends DEF ReclaimStep, IInv, Place, Branch
  <1>. QED BY <1>2, ControlStep DEF ReclaimStep, Works

\* The update branch only chooses where its goroutine goes on.
LEMMA UpdateStepKeeps ==
    ASSUME IInv, NEW t \in Thread, UpdateStep(t)
    PROVE  Stored /\ Kept
  <1>1. row \in LeaseRow
    BY DEF IInv, RowOK
  <1>2. ControlOK'
    BY <1>1, GoesOn, Ends DEF UpdateStep, IInv, Place, Branch
  <1>. QED BY <1>2, ControlStep DEF UpdateStep, Works

\* The probe puts the phase it saw into the branch of the goroutine.
LEMMA ProbeKeeps ==
    ASSUME IInv, NEW t \in Thread, Probe(t)
    PROVE  Stored /\ Kept
  <1>1. /\ thread[t] \in Busy
        /\ proc[thread[t].copy.ident].phase \in Branch
    <2>1. thread[t] \in Busy /\ thread[t].copy \in LeaseRow
      BY SelfType DEF Probe, IInv
    <2>2. thread[t].copy.ident \in Ident
      BY <2>1 DEF LeaseRow
    <2>. QED BY <2>1, <2>2 DEF IInv, NodeOK, Branch
  <1>2. ControlOK'
    <2>1. [[thread[t] EXCEPT !.pc = "act"]
              EXCEPT !.why = proc[thread[t].copy.ident].phase] \in Busy
      BY <1>1 DEF Busy, Place
    <2>2. [thread[t] EXCEPT !.pc = "unreach"] \in Busy
      BY <1>1 DEF Busy, Place
    <2>. QED BY <2>1, <2>2 DEF Probe, IInv, ControlOK, Goroutine
  <1>3. Works \/ \E kind : Fails(kind)
    BY DEF Probe, BootstrapAnswers, BootstrapError
  <1>. QED BY <1>2, <1>3, ControlStep DEF Probe

\* A missed probe changes a counter and the Router, not the row.
LEMMA UnreachKeeps ==
    ASSUME IInv, NEW t \in Thread, Unreach(t)
    PROVE  Stored /\ Kept
  <1>1. thread[t].copy \in LeaseRow
    BY SelfType DEF Unreach, IInv
  <1>2. ControlOK'
    BY <1>1, GoesOn, Ends DEF Unreach, IInv, Place, Branch
  <1>3. RouterOK'
    <2>1. /\ mem' = mem \/ mem' = Closed(ResolvedWorker(thread[t].copy))
          /\ epoch' = epoch
      BY DEF Unreach
    <2>. QED BY <2>1, ClosedType DEF IInv, RouterOK
  <1>4. MemoryOK'
    <2>1. LostFailureThreshold \in Nat /\ streak.unreachable + 1 \in Nat
      BY LifecycleAssumption DEF IInv, MemoryOK
    <2>2. \/ streak' = streak
          \/ \E n \in {0, streak.unreachable, streak.unreachable + 1, LostFailureThreshold} :
                streak' = [streak EXCEPT !.unreachable = n]
      BY DEF Unreach
    <2>3. streak' \in [unreachable : Nat, unhealthy : Nat]
      BY <2>1, <2>2 DEF IInv, MemoryOK
    <2>. QED BY <2>3 DEF Unreach, IInv, MemoryOK
  <1>5. Stored /\ OpsOK'
    BY DEF Unreach, Stored, IInv, OpsOK, dbVars
  <1>. QED BY <1>2, <1>3, <1>4, <1>5, RoundStep DEF Unreach

\* markLost stores LOST by one transaction.
LEMMA LostKeeps ==
    ASSUME IInv, NEW t \in Thread, Lost(t)
    PROVE  Stored /\ Kept
  <1>. DEFINE next == [thread[t].copy EXCEPT !.inst = "LOST"]
  <1>1. next \in LeaseRow
    BY SelfType DEF Lost, IInv, LeaseRow, Row, HasUpdate, InstanceState
  <1>2. Stored
    BY <1>1, CommitStores DEF Lost, Refused, dbVars, Stored
  <1>3. OpsOK'
    BY DEF Lost, Commit, Refused, dbVars, IInv, OpsOK
  <1>4. ControlOK'
    BY Ends DEF Lost, IInv
  <1>5. MemoryOK' /\ RouterOK'
    BY DEF Lost, IInv, MemoryOK, RouterOK, routerVars
  <1>. QED BY <1>2, <1>3, <1>4, <1>5, RoundStep DEF Lost, Works

\* What the branches of a round have in common.
LEMMA AnsweredType ==
    ASSUME IInv, NEW t \in Thread, Answered(t)
    PROVE  thread[t].copy \in LeaseRow /\ MemoryOK'
  BY SelfType DEF Answered, IInv, MemoryOK

\* The branch for an exited process closes readiness and does not write the row.
LEMMA ActExitedKeeps ==
    ASSUME IInv, NEW t \in Thread, ActExited(t)
    PROVE  Stored /\ Kept
  <1>1. thread[t].copy \in LeaseRow /\ MemoryOK'
    BY AnsweredType DEF ActExited
  <1>2. ControlOK'
    BY <1>1, GoesOn, Ends DEF ActExited, IInv, Place, Branch
  <1>3. RouterOK'
    <2>1. /\ mem' = mem \/ mem' = Closed(thread[t].copy.worker)
          /\ epoch' = epoch
      BY DEF ActExited
    <2>. QED BY <2>1, ClosedType DEF IInv, RouterOK
  <1>4. Stored /\ OpsOK'
    BY DEF ActExited, Stored, IInv, OpsOK, dbVars
  <1>. QED BY <1>1, <1>2, <1>3, <1>4, RoundStep DEF ActExited

\* A recovered container is stored by one transaction from the snapshot.
LEMMA ActLostKeeps ==
    ASSUME IInv, NEW t \in Thread, ActLost(t)
    PROVE  Stored /\ Kept
  <1>. DEFINE next == RecoveredRow(thread[t].copy)
  <1>1. thread[t].copy \in LeaseRow /\ next \in LeaseRow /\ MemoryOK'
    BY AnsweredType, BuiltRows DEF ActLost
  <1>2. Stored
    BY <1>1, CommitStores DEF ActLost, dbVars, Stored
  <1>3. OpsOK'
    BY DEF ActLost, Commit, dbVars, IInv, OpsOK
  <1>4. ControlOK'
    BY <1>1, GoesOn, Ends DEF ActLost, IInv, Place, Branch
  <1>5. RouterOK'
    BY DEF ActLost, IInv, RouterOK, routerVars
  <1>. QED BY <1>1, <1>2, <1>3, <1>4, <1>5, RoundStep DEF ActLost, Works, nodeVars

\* The FAILED branch only chooses where its goroutine goes on.
LEMMA ActFailedKeeps ==
    ASSUME IInv, NEW t \in Thread, ActFailed(t)
    PROVE  Stored /\ Kept
  <1>1. thread[t].copy \in LeaseRow /\ MemoryOK'
    BY AnsweredType DEF ActFailed
  <1>2. ControlOK'
    BY <1>1, GoesOn, Ends DEF ActFailed, IInv, Place, Branch
  <1>3. Works \/ \E kind : Fails(kind)
    BY DEF ActFailed, BootstrapAnswers, BootstrapError
  <1>4. Stored /\ OpsOK' /\ RouterOK'
    BY DEF ActFailed, Stored, IInv, OpsOK, RouterOK, dbVars, routerVars
  <1>. QED BY <1>1, <1>2, <1>3, <1>4, RoundStep DEF ActFailed

\* The STARTING branch only chooses where its goroutine goes on.
LEMMA ActStartingKeeps ==
    ASSUME IInv, NEW t \in Thread, ActStarting(t)
    PROVE  Stored /\ Kept
  <1>1. thread[t].copy \in LeaseRow /\ row \in LeaseRow /\ MemoryOK'
    BY AnsweredType DEF ActStarting, IInv, RowOK
  <1>2. ControlOK'
    BY <1>1, GoesOn, Ends DEF ActStarting, IInv, Place, Branch
  <1>3. Works \/ \E kind : Fails(kind)
    BY DEF ActStarting, BootstrapAnswers, BootstrapError
  <1>4. Stored /\ OpsOK' /\ RouterOK'
    BY DEF ActStarting, Stored, IInv, OpsOK, RouterOK, dbVars, routerVars
  <1>. QED BY <1>1, <1>2, <1>3, <1>4, RoundStep DEF ActStarting

\* The remaining branches only choose where their goroutine goes on.
LEMMA ActOnKeeps ==
    ASSUME IInv, NEW t \in Thread, ActOn(t)
    PROVE  Stored /\ Kept
  <1>1. thread[t].copy \in LeaseRow /\ MemoryOK'
    BY AnsweredType DEF ActOn
  <1>2. ControlOK'
    BY <1>1, GoesOn, Ends DEF ActOn, IInv, Place, Branch
  <1>3. Stored /\ OpsOK' /\ RouterOK'
    BY DEF ActOn, Stored, IInv, OpsOK, RouterOK, dbVars, routerVars
  <1>. QED BY <1>1, <1>2, <1>3, RoundStep DEF ActOn, Works

\* settleService changes a counter and the Router, not the row.
LEMMA SettleKeeps ==
    ASSUME IInv, NEW t \in Thread, Settle(t)
    PROVE  Stored /\ Kept
  <1>1. row \in LeaseRow
    BY DEF IInv, RowOK
  <1>2. ControlOK'
    BY <1>1, GoesOn, Ends DEF Settle, IInv, Place, Branch
  <1>3. RouterOK'
    BY ClosedType DEF Settle, IInv, RouterOK
  <1>4. MemoryOK'
    <2>1. Larger \in Nat /\ streak.unhealthy + 1 \in Nat
      BY LifecycleAssumption DEF Larger, Later, IInv, MemoryOK
    <2>. QED BY <2>1 DEF Settle, IInv, MemoryOK
  <1>5. Works \/ \E kind : Fails(kind)
    BY DEF Settle, BootstrapError
  <1>6. Stored /\ OpsOK'
    BY DEF Settle, Stored, IInv, OpsOK, dbVars
  <1>. QED BY <1>2, <1>3, <1>4, <1>5, <1>6, RoundStep DEF Settle

\* rearmStartBudget stores the new budget by one transaction.
LEMMA RearmKeeps ==
    ASSUME IInv, NEW t \in Thread, Rearm(t)
    PROVE  Stored /\ Kept
  <1>. DEFINE next == [row EXCEPT !.start = 0, !.rearms = @ + 1, !.parked = FALSE]
  <1>1. next \in LeaseRow
    <2>1. row.rearms + 1 \in Nat
      BY DEF IInv, RowOK, LeaseRow, Row
    <2>. QED BY <2>1 DEF IInv, RowOK, LeaseRow, Row, HasUpdate
  <1>2. Stored
    BY <1>1, CommitStores DEF Rearm, dbVars, Stored
  <1>3. OpsOK'
    BY PutType DEF Rearm, Commit, dbVars, IInv, OpsOK, OpStatus
  <1>4. ControlOK'
    BY Ends DEF Rearm, IInv
  <1>. QED BY <1>2, <1>3, <1>4, WriteStep DEF Rearm

\* A revoke goes on to its drain with the row as copy.
LEMMA RevokedKeeps ==
    ASSUME IInv, NEW t \in Thread, Revoked(t)
    PROVE  Stored /\ Kept
  <1>1. row \in LeaseRow
    BY DEF IInv, RowOK
  <1>2. ControlOK'
    BY <1>1, GoesOn, Ends DEF Revoked, IInv, Place, Branch
  <1>. QED BY <1>2, ControlStep DEF Revoked, Works

\* The preparation intent is stored by one transaction.
LEMMA AllocateKeeps ==
    ASSUME IInv, NEW t \in Thread, Allocate(t)
    PROVE  Stored /\ Kept
  <1>. DEFINE next == [thread[t].copy EXCEPT !.inst = "PREPARING"]
  <1>1. next \in LeaseRow
    BY SelfType DEF Allocate, IInv, LeaseRow, Row, HasUpdate, InstanceState
  <1>2. Stored
    BY <1>1, CommitStores DEF Allocate, dbVars, Stored
  <1>3. OpsOK'
    BY PutType DEF Allocate, Commit, dbVars, IInv, OpsOK, OpStatus
  <1>4. ControlOK'
    BY <1>1, GoesOn, Ends DEF Allocate, IInv, Place, Branch
  <1>. QED BY <1>2, <1>3, <1>4, WriteStep DEF Allocate

-----------------------------------------------------------------------------
(***************************************************************************)
(* The steps that begin an operation.                                      *)
(***************************************************************************)
LEMMA ReconcileKeeps ==
    ASSUME IInv, NEW t \in Thread, Reconcile(t)
    PROVE  Stored /\ Kept
  <1>1. ASSUME NEW pc \in {"reclaim", "update", "release", "probe"}
        PROVE  [At(pc, row, "") EXCEPT !.fresh = TRUE] \in Goroutine
    BY <1>1 DEF At, Goroutine, Busy, Place, Branch, IInv, RowOK
  <1>2. ControlOK'
    BY <1>1 DEF Reconcile, IInv, ControlOK
  <1>. QED BY <1>2, ControlStep DEF Reconcile, Works

\* Resuming an interrupted CAPACITY_ADDED takes the lock and the row as copy.
LEMMA ResumeAddKeeps ==
    ASSUME IInv, NEW t \in Thread, ResumeAdd(t)
    PROVE  Stored /\ Kept
  <1>1. ControlOK'
    BY GoesOn DEF ResumeAdd, IInv, RowOK, Place, Branch
  <1>. QED BY <1>1, ControlStep DEF ResumeAdd, Works

\* The planner begins a start and does not write the row.
LEMMA PlannerStartKeeps ==
    ASSUME IInv, NEW t \in Thread, PlannerStart(t)
    PROVE  Stored /\ Kept
  <1>1. ASSUME NEW role \in Role
        PROVE  [row EXCEPT !.role = role] \in LeaseRow
    BY DEF IInv, RowOK, LeaseRow, Row, HasUpdate, AnyRole
  <1>2. ControlOK'
    BY <1>1, GoesOn DEF PlannerStart, IInv, Place, Branch
  <1>. QED BY <1>2, ControlStep DEF PlannerStart, Works

\* The planner or operator begins a drain and does not write the row.
LEMMA PlainDrainKeeps ==
    ASSUME IInv, NEW t \in Thread, PlainDrain(t)
    PROVE  Stored /\ Kept
  <1>1. ControlOK'
    BY GoesOn DEF PlainDrain, IInv, RowOK, Place, Branch
  <1>. QED BY <1>1, ControlStep DEF PlainDrain, Works

\* The operator begins a release and does not write the row.
LEMMA OperatorReleaseKeeps ==
    ASSUME IInv, NEW t \in Thread, OperatorRelease(t)
    PROVE  Stored /\ Kept
  <1>1. ControlOK'
    BY GoesOn DEF OperatorRelease, IInv, RowOK, Place, Branch
  <1>. QED BY <1>1, ControlStep DEF OperatorRelease, Works

\* CAPACITY_REVOKED stores the reclaim request and nothing else.
LEMMA RevokeKeeps ==
    ASSUME IInv, NEW t \in Thread, Revoke(t)
    PROVE  Stored /\ Kept
  <1>1. At("revoked", row, "revoke") \in Goroutine
    BY DEF At, Goroutine, Busy, Place, Branch, IInv, RowOK
  <1>2. ControlOK'
    BY <1>1, OutdatedType DEF Revoke, IInv, ControlOK, WriteGoto
  <1>3. Stored
    BY DEF Revoke, Stored
  <1>4. OpsOK'
    BY DEF Revoke, IInv, OpsOK
  <1>5. ClockOK'
    BY DEF Revoke, IInv, ClockOK, RowOK, LeaseRow, Row
  <1>. QED BY <1>2, <1>3, <1>4, <1>5, StampStep DEF Revoke

\* CAPACITY_UPDATED queues the identity or stores it, by one transaction.
LEMMA CapacityUpdatedKeeps ==
    ASSUME IInv, NEW t \in Thread, CapacityUpdated(t)
    PROVE  Stored /\ Kept
  <1>. DEFINE queued == [row EXCEPT !.pu = [ident |-> issued, at |-> issued]]
              moved  == [RebasedRow EXCEPT !.ident = issued, !.seen = issued]
              next   == IF row.inst \in {"IDLE", "LOST"}
                        THEN [moved EXCEPT !.inst = "PREPARING", !.prep = 0, !.start = 0,
                                           !.rearms = 0, !.parked = FALSE,
                                           !.worker = NoWorker]
                        ELSE moved
  <1>1. row \in LeaseRow /\ issued \in Ident /\ issued \in Nat
    BY SomeIdent DEF IInv, RowOK, NodeOK
  <1>2. queued \in LeaseRow
    BY <1>1 DEF LeaseRow, Row, HasUpdate
  <1>3. RebasedRow \in LeaseRow
    <2>1. CASE HasUpdate(row)
      BY <1>1, <2>1 DEF RebasedRow, LeaseRow, Row, HasUpdate, NoUpdate
    <2>2. CASE ~HasUpdate(row)
      BY <1>1, <2>2 DEF RebasedRow
    <2>. QED BY <2>1, <2>2
  <1>4. moved \in LeaseRow
    BY <1>1, <1>3 DEF LeaseRow, Row, HasUpdate
  <1>5. next \in LeaseRow
    <2>. HIDE DEF moved
    <2>. QED BY <1>4 DEF LeaseRow, Row, HasUpdate, NoWorker, InstanceState
  <1>6. Stored
    BY <1>2, <1>5, CommitStores DEF CapacityUpdated
  <1>7. OpsOK'
    BY DEF CapacityUpdated, Commit, IInv, OpsOK
  <1>8. ControlOK'
    BY <1>2, GoesOn, Ends DEF CapacityUpdated, IInv, Place, Branch
  <1>. QED BY <1>6, <1>7, <1>8, WriteStep DEF CapacityUpdated

\* CAPACITY_ADDED replaces a released row only by a reoffer.
LEMMA ReofferKeeps ==
    ASSUME IInv, NEW t \in Thread, Reoffer(t)
    PROVE  Stored /\ Kept
  <1>1. FreshRow(issued) \in LeaseRow
    BY FreshRowType, SomeIdent DEF IInv, NodeOK, FreshRow, LeaseRow, HasUpdate
  <1>2. Stored
    BY <1>1 DEF Reoffer, Stored
  <1>3. row' \in LeaseRow
    BY <1>2, StoredType DEF IInv, RowOK
  <1>4. OpsOK'
    BY DEF Reoffer, OpsOK, OpStatus
  <1>5. ControlOK'
    BY <1>3, GoesOn DEF Reoffer, IInv, Place, Branch
  <1>. QED BY <1>2, <1>4, <1>5, WriteStep DEF Reoffer

\* Two operator calls are one transaction each.
LEMMA RequeueKeeps ==
    ASSUME IInv, RequeueService
    PROVE  Stored /\ Kept
  <1>. DEFINE next == [row EXCEPT !.start = 0, !.rearms = 0, !.parked = FALSE]
  <1>1. next \in LeaseRow
    BY DEF IInv, RowOK, LeaseRow, Row, HasUpdate
  <1>2. Stored
    BY <1>1, CommitStores DEF RequeueService
  <1>3. OpsOK'
    BY PutType DEF RequeueService, Commit, IInv, OpsOK, OpStatus
  <1>4. ControlOK'
    BY OutdateAllType DEF RequeueService, IInv, ControlOK
  <1>. QED BY <1>2, <1>3, <1>4, WriteStep DEF RequeueService

\* The operator's reclaim stores the request and nothing else.
LEMMA RequestReclaimKeeps ==
    ASSUME IInv, RequestReclaim
    PROVE  Stored /\ Kept
  <1>1. Stored
    BY DEF RequestReclaim, Stored
  <1>2. OpsOK'
    BY DEF RequestReclaim, IInv, OpsOK
  <1>3. ControlOK'
    BY OutdateAllType DEF RequestReclaim, IInv, ControlOK
  <1>4. ClockOK'
    BY DEF RequestReclaim, IInv, ClockOK, RowOK, LeaseRow, Row
  <1>. QED BY <1>1, <1>2, <1>3, <1>4, StampStep DEF RequestReclaim

-----------------------------------------------------------------------------
(***************************************************************************)
(* Crashes, recovery and the world.                                        *)
(***************************************************************************)
LEMMA CancelKeeps ==
    ASSUME IInv, NEW t \in Thread, Cancel(t)
    PROVE  Stored /\ Kept
  <1>1. ControlOK'
    BY Ends DEF Cancel, IInv
  <1>. QED BY <1>1, ControlStep DEF Cancel

\* Crash and recovery lose goroutines and counters, never the row.
LEMMA RecoveryKeeps ==
    ASSUME IInv, Recovery
    PROVE  Stored /\ Kept
  <1>1. CASE Crash
    <2>1. ControlOK' /\ MemoryOK'
      BY <1>1, IdleType DEF Crash, ControlOK, MemoryOK
    <2>2. Stored /\ OpsOK' /\ RouterOK'
      BY <1>1 DEF Crash, Stored, IInv, OpsOK, RouterOK, dbVars, routerVars
    <2>. QED BY <1>1, <2>1, <2>2, RoundStep DEF Crash
  <1>2. CASE Listen
    BY <1>2 DEF Listen, IInv, Stored, Kept, OpsOK, ControlOK, MemoryOK, RouterOK, NodeOK,
                ClockOK, FaultsOK, dbVars, routerVars, nodeVars
  <1>3. ASSUME NEW kind \in OpKind, ResumeOpenOperation(kind)
        PROVE  Stored /\ Kept
    <2>1. ControlOK'
      <3>1. Reconciler \in Thread /\ ResumePlace(kind) \in Place \ {"idle"}
        BY LifecycleAssumption DEF ResumePlace, OpKind, Place
      <3>2. CASE Goto(Reconciler, ResumePlace(kind), row, "resume")
        BY <3>1, <3>2, GoesOn DEF IInv, RowOK, Branch
      <3>3. CASE UNCHANGED <<thread, lock>>
        BY <3>3 DEF IInv, ControlOK
      <3>. QED BY <1>3, <3>2, <3>3 DEF ResumeOpenOperation
    <2>2. MemoryOK'
      BY <1>3 DEF ResumeOpenOperation, IInv, MemoryOK
    <2>3. Stored /\ OpsOK' /\ RouterOK'
      BY <1>3 DEF ResumeOpenOperation, Stored, IInv, OpsOK, RouterOK, dbVars, routerVars
    <2>. QED BY <1>3, <2>1, <2>2, <2>3, RoundStep DEF ResumeOpenOperation, Works
  <1>. QED BY <1>1, <1>2, <1>3 DEF Recovery

\* The world changes containers and memberships, and lets time pass.
LEMMA ContainerKeeps ==
    ASSUME IInv, NEW i \in Ident,
           Partition(i) \/ Heal(i) \/ Loaded(i) \/ Degrades(i) \/ Dies(i)
    PROVE  Stored /\ Kept
  <1>1. Works \/ \E kind : Fails(kind)
    BY DEF Partition, Heal, Loaded, Degrades, Dies, Works
  <1>2. NodeOK'
    <2>1. CASE Partition(i) \/ Heal(i)
      <3>1. \A up \in BOOLEAN : [reach EXCEPT ![i] = up] \in [Ident -> BOOLEAN]
        BY DEF IInv, NodeOK
      <3>. QED BY <2>1, <3>1 DEF Partition, Heal, IInv, NodeOK
    <2>2. CASE Loaded(i) \/ Degrades(i)
      <3>1. \A ok \in BOOLEAN :
                [proc EXCEPT ![i].ok = ok]
                    \in [Ident -> [phase : Phase, role : AnyRole, ok : BOOLEAN]]
        BY DEF IInv, NodeOK
      <3>. QED BY <2>2, <3>1 DEF Loaded, Degrades, IInv, NodeOK
    <2>3. CASE Dies(i)
      <3>1. Exited(proc[i]) \in [phase : Phase, role : AnyRole, ok : BOOLEAN]
        BY DEF IInv, NodeOK, Exited, Phase
      <3>. QED BY <2>3, <3>1 DEF Dies, IInv, NodeOK
    <2>. QED BY <2>1, <2>2, <2>3
  <1>3. ControlOK'
    BY DEF Partition, Heal, Loaded, Degrades, Dies, worldUnchanged, ctlVars,
           IInv, ControlOK
  <1>. QED
    BY <1>1, <1>2, <1>3, NodeStep
       DEF Partition, Heal, Loaded, Degrades, Dies, worldUnchanged, ctlVars

\* A Router restart leaves the row alone.
LEMMA RouterRestartsKeeps ==
    ASSUME IInv, RouterRestarts
    PROVE  Stored /\ Kept
  <1>1. RouterOK'
    <2>1. NotListed \in [listed : BOOLEAN, type : AnyRole, ready : BOOLEAN]
      BY DEF NotListed, AnyRole
    <2>. QED BY <2>1 DEF RouterRestarts, IInv, RouterOK
  <1>2. ControlOK'
    BY DEF RouterRestarts, worldUnchanged, ctlVars, IInv, ControlOK
  <1>. QED BY <1>1, <1>2, RouterStep DEF RouterRestarts, worldUnchanged, ctlVars

\* What the partner does to containers leaves the row alone.
LEMMA PartnerKeeps ==
    ASSUME IInv, PartnerMoves \/ PartnerOffers \/ PartnerDeletes
    PROVE  Stored /\ Kept
  <1>0. /\ FreshContainer \in [phase : Phase, role : AnyRole, ok : BOOLEAN]
        /\ MaxIdent \in Nat
    BY SomeIdent DEF FreshContainer, Phase, AnyRole
  <1>1. CASE PartnerMoves
    <2>1. issued' \in Ident
      BY <1>0, <1>1 DEF PartnerMoves, IInv, NodeOK, Ident
    <2>2. \A i \in Ident : proc[i] \in [phase : Phase, role : AnyRole, ok : BOOLEAN]
      BY DEF IInv, NodeOK
    <2>3. proc' \in [Ident -> [phase : Phase, role : AnyRole, ok : BOOLEAN]]
      BY <1>0, <1>1, <2>2, NoContainerType DEF PartnerMoves
    <2>4. reach' \in [Ident -> BOOLEAN]
      BY <1>1 DEF PartnerMoves
    <2>5. NodeOK'
      BY <1>1, <2>1, <2>3, <2>4 DEF PartnerMoves, IInv, NodeOK
    <2>6. ControlOK'
      BY <1>1 DEF PartnerMoves, worldUnchanged, ctlVars, IInv, ControlOK
    <2>. QED
      BY <1>1, <2>5, <2>6, NodeStep DEF PartnerMoves, worldUnchanged, ctlVars, Works
  <1>2. CASE PartnerOffers
    <2>1. NodeOK'
      BY <1>0, <1>2 DEF PartnerOffers, IInv, NodeOK, Ident
    <2>2. ControlOK'
      BY <1>2 DEF PartnerOffers, worldUnchanged, ctlVars, IInv, ControlOK
    <2>. QED
      BY <1>2, <2>1, <2>2, NodeStep DEF PartnerOffers, worldUnchanged, ctlVars, Works
  <1>3. CASE PartnerDeletes
    <2>1. NodeOK'
      BY <1>3, NoContainerType DEF PartnerDeletes, GiveBack, IInv, NodeOK
    <2>2. ControlOK'
      BY <1>3 DEF PartnerDeletes, worldUnchanged, ctlVars, IInv, ControlOK
    <2>. QED BY <1>3, <2>1, <2>2, NodeStep DEF PartnerDeletes, worldUnchanged, ctlVars
  <1>. QED BY <1>1, <1>2, <1>3

\* The passing of time leaves the row alone.
LEMMA ClockKeeps ==
    ASSUME IInv, Clock
    PROVE  Stored /\ Kept
  <1>1. CASE DeadlinePasses \/ CooldownPasses
    BY <1>1 DEF DeadlinePasses, CooldownPasses, worldUnchanged, ctlVars, IInv, Stored, Kept,
                OpsOK, ControlOK, MemoryOK, RouterOK, NodeOK, ClockOK, FaultsOK,
                dbVars, routerVars, nodeVars
  <1>2. ASSUME NEW o \in OpKind \X Ident, RetryPasses(o)
        PROVE  Stored /\ Kept
    BY <1>2 DEF RetryPasses, ctlVars, IInv, Stored, Kept, OpsOK, OpStatus, ControlOK,
                MemoryOK, RouterOK, NodeOK, ClockOK, FaultsOK, routerVars, nodeVars
  <1>. QED BY <1>1, <1>2 DEF Clock

-----------------------------------------------------------------------------
(***************************************************************************)
(* The theorems.                                                           *)
(***************************************************************************)
LEMMA InitTyped == Init => IInv
  <1>. SUFFICES ASSUME Init PROVE IInv
    OBVIOUS
  <1>1. RowOK
    BY FreshRowType, SomeIdent DEF Init, RowOK, LeaseRow, FreshRow, HasUpdate
  <1>2. OpsOK
    BY DEF Init, OpsOK, OpStatus
  <1>3. ControlOK
    BY IdleType DEF Init, ControlOK
  <1>4. MemoryOK /\ ClockOK
    BY DEF Init, MemoryOK, ClockOK
  <1>5. RouterOK
    <2>1. NotListed \in [listed : BOOLEAN, type : AnyRole, ready : BOOLEAN]
      BY DEF NotListed, AnyRole
    <2>. QED BY <2>1 DEF Init, RouterOK
  <1>6. NodeOK
    <2>1. FreshContainer \in [phase : Phase, role : AnyRole, ok : BOOLEAN]
      BY DEF FreshContainer, Phase, AnyRole
    <2>. QED BY <2>1, NoContainerType, SomeIdent DEF Init, NodeOK
  <1>7. FaultsOK
    BY LifecycleAssumption DEF Init, FaultsOK
  <1>. QED BY <1>1, <1>2, <1>3, <1>4, <1>5, <1>6, <1>7 DEF IInv

\* Every step of every actor keeps the invariant, and writes the row, if at all,
\* in one of the ways the store offers.
LEMMA StepStores == IInv /\ [Next]_vars => Stored /\ IInv'
  <1>. SUFFICES ASSUME IInv, [Next]_vars PROVE Stored /\ Kept
    BY StoredType DEF IInv, Kept
  <1>1. ASSUME NEW t \in Thread, Continue(t)
        PROVE  Stored /\ Kept
    BY <1>1, PrepareKeeps, PrepareCommitKeeps, StartServiceKeeps, LaunchKeeps,
       HealthKeeps, AdvanceKeeps, RegisterKeeps, OpenKeeps, ServeKeeps, FailStartKeeps,
       BeginDrainKeeps, DrainCommitKeeps, ReclaimErrKeeps, FinishDrainKeeps,
       DrainedKeeps, DrainFailKeeps, BeginReleaseKeeps, ReleasingKeeps, ReturnKeeps,
       ReturnedKeeps, ReclaimStepKeeps, UpdateStepKeeps, ProbeKeeps, UnreachKeeps,
       LostKeeps, ActExitedKeeps, ActLostKeeps, ActFailedKeeps, ActStartingKeeps,
       ActOnKeeps, SettleKeeps, RearmKeeps, RevokedKeeps, AllocateKeeps
       DEF Continue
  <1>2. ASSUME NEW t \in Thread, Start(t)
        PROVE  Stored /\ Kept
    BY <1>2, ReconcileKeeps, ResumeAddKeeps, PlannerStartKeeps, PlainDrainKeeps,
       OperatorReleaseKeeps, RevokeKeeps, CapacityUpdatedKeeps, ReofferKeeps
       DEF Start
  <1>3. ASSUME NEW t \in Thread, Cancel(t)
        PROVE  Stored /\ Kept
    BY <1>3, CancelKeeps
  <1>4. CASE Operator
    BY <1>4, RequeueKeeps, RequestReclaimKeeps DEF Operator
  <1>5. CASE Recovery
    BY <1>5, RecoveryKeeps
  <1>6. CASE World
    BY <1>6, ContainerKeeps, RouterRestartsKeeps, PartnerKeeps, ClockKeeps DEF World
  <1>7. CASE Rest \/ UNCHANGED vars
    BY <1>7 DEF Rest, vars, IInv, Stored, Kept, OpsOK, ControlOK, MemoryOK, RouterOK,
                NodeOK, ClockOK, FaultsOK
  <1>. QED BY <1>1, <1>2, <1>3, <1>4, <1>5, <1>6, <1>7 DEF Next

\* IInv holds of every reachable state.
THEOREM LifecycleInvariant == Spec => []IInv
  <1>. QED BY InitTyped, StepStores, PTL DEF Spec

\* TypeOK: every row that is stored or carried, every operation, membership and
\* container has the type its users rely on.
THEOREM LifecycleTyped == Spec => []TypeOK
  <1>1. IInv => TypeOK
    <2>. SUFFICES ASSUME IInv PROVE TypeOK
      OBVIOUS
    <2>1. NoCopy \in Row
      BY FreshRowType DEF NoCopy
    <2>2. Goroutine \subseteq [pc : Place, copy : Row, fresh : BOOLEAN, why : Branch]
      <3>1. Busy \subseteq [pc : Place, copy : Row, fresh : BOOLEAN, why : Branch]
        BY DEF Busy, LeaseRow
      <3>2. "idle" \in Place /\ "" \in Branch
        BY DEF Place, Branch
      <3>3. Resting \subseteq [pc : Place, copy : Row, fresh : BOOLEAN, why : Branch]
        BY <2>1, <3>2 DEF Resting
      <3>. QED BY <3>1, <3>3 DEF Goroutine
    <2>3. thread \in [Thread -> [pc : Place, copy : Row, fresh : BOOLEAN, why : Branch]]
      BY <2>2 DEF IInv, ControlOK
    <2>. QED
      BY <2>3 DEF IInv, TypeOK, RowOK, LeaseRow, OpsOK, ControlOK, MemoryOK, RouterOK,
                  NodeOK, ClockOK, FaultsOK
  <1>. QED BY <1>1, LifecycleInvariant, PTL

-----------------------------------------------------------------------------
(***************************************************************************)
(* Lifecycle implements the instance table.                                *)
(***************************************************************************)
TableProofs == INSTANCE InstanceTable_proofs

\* The store's operators under the names the table's actions use.
LEMMA TableOperators ==
    ASSUME NEW c, NEW n
    PROVE  /\ Table!Row = Row
           /\ Table!Accepts(c, n) = Accepts(c, n)
           /\ Table!Merged(c, n) = Merged(c, n)
           /\ Table!RequestRelease(c) = RequestRelease(c)
           /\ Table!AcceptsReoffer(c, n) = AcceptsReoffer(c, n)
           /\ Table!Reoffered(c, n) = Reoffered(c, n)
           /\ Table!AcceptsUpdate(c, n) = AcceptsUpdate(c, n)
           /\ Table!Updated(c, n) = Updated(c, n)
  <1>. USE DEF Table!NoUpdate, NoUpdate, Table!HasUpdate, HasUpdate, Table!Later, Later,
               Table!UnderReclaim, UnderReclaim, Table!LiveService, LiveService,
               Table!ValidateTransition, ValidateTransition,
               Table!CanTransitionInstance, CanTransitionInstance,
               Table!CanTransitionService, CanTransitionService,
               Table!instanceTransitions, instanceTransitions,
               Table!serviceTransitions, serviceTransitions,
               Table!CheckCombination, CheckCombination
  <1>1. Table!Row = Row
    BY DEF Table!Row, Row, Table!AnyRole, AnyRole, Table!InstanceState, InstanceState,
           Table!ServiceState, ServiceState
  <1>2. Table!Accepts(c, n) = Accepts(c, n)
    BY DEF Table!Accepts, Accepts
  <1>3. Table!Merged(c, n) = Merged(c, n)
    BY DEF Table!Merged, Merged, Table!KeptUpdate, KeptUpdate
  <1>4. Table!RequestRelease(c) = RequestRelease(c)
    BY DEF Table!RequestRelease, RequestRelease
  <1>5. Table!AcceptsReoffer(c, n) = AcceptsReoffer(c, n)
    BY DEF Table!AcceptsReoffer, AcceptsReoffer
  <1>6. Table!Reoffered(c, n) = Reoffered(c, n)
    BY DEF Table!Reoffered, Reoffered
  <1>7. Table!AcceptsUpdate(c, n) = AcceptsUpdate(c, n)
    BY DEF Table!AcceptsUpdate, AcceptsUpdate
  <1>8. Table!Updated(c, n) = Updated(c, n)
    BY DEF Table!Updated, Updated
  <1>. QED BY <1>1, <1>2, <1>3, <1>4, <1>5, <1>6, <1>7, <1>8

\* A transaction is a step of the table: the stored row is the request that
\* would store it.
LEMMA StoredIsTableStep == RowOK /\ Stored => [Table!Next]_row
  <1>. SUFFICES ASSUME RowOK, Stored, row' # row
                PROVE  Table!Next
    OBVIOUS
  <1>0. row \in Row /\ row' \in Row
    BY StoredType DEF RowOK, LeaseRow
  <1>1. ASSUME NEW next \in LeaseRow, Accepts(row, next), row' = Merged(row, next)
        PROVE  Table!Write
    <2>1. next \in Row
      BY DEF LeaseRow
    <2>2. Accepts(row, row') /\ row' = Merged(row, row')
      BY <1>0, <1>1, <2>1, MergeIdempotent
    <2>. QED BY <1>0, <2>2, TableOperators DEF Table!Write
  <1>2. CASE row' = RequestRelease(row)
    BY <1>2, TableOperators DEF Table!Next, Table!Request
  <1>3. ASSUME NEW next \in LeaseRow, AcceptsReoffer(row, next), row' = Reoffered(row, next)
        PROVE  Table!Offer
    <2>1. next \in Row
      BY DEF LeaseRow
    <2>2. AcceptsReoffer(row, row') /\ row' = Reoffered(row, row')
      BY <1>0, <1>3, <2>1, ReofferIdempotent
    <2>. QED BY <1>0, <2>2, TableOperators DEF Table!Offer
  <1>4. ASSUME NEW next \in LeaseRow, AcceptsUpdate(row, next), row' = Updated(row, next)
        PROVE  Table!ApplyUpdate
    <2>1. next \in Row
      BY DEF LeaseRow
    <2>2. AcceptsUpdate(row, row') /\ row' = Updated(row, row')
      BY <1>0, <1>4, <2>1, UpdateIdempotent
    <2>. QED BY <1>0, <2>2, TableOperators DEF Table!ApplyUpdate
  <1>. QED BY <1>1, <1>2, <1>3, <1>4 DEF Stored, Table!Next

\* Lifecycle implements the instance table: whatever the goroutines interleave,
\* lose or repeat, the row takes only the steps InstanceTable allows.
THEOREM LifecycleImplementsTable == Spec => ImplementsTable
  <1>1. Init => Table!Init
    BY DEF Init, Table!Init, FreshRow, Table!FreshRow, NoWorker, Table!NoWorker,
           NoUpdate, Table!NoUpdate
  <1>2. IInv /\ [Next]_vars => [Table!Next]_row
    BY StepStores, StoredIsTableStep DEF IInv
  <1>. QED BY <1>1, <1>2, LifecycleInvariant, PTL DEF Spec, ImplementsTable, Table!Spec

\* The table that Lifecycle implements is the table InstanceTable_proofs is about.
LEMMA SameTable ==
    /\ Table!Init <=> TableProofs!Init
    /\ Table!Next <=> TableProofs!Next
    /\ Table!CheckCombination(row) <=> TableProofs!CheckCombination(row)
    /\ Table!LiveService = TableProofs!LiveService
  <1>. USE DEF Table!NoUpdate, TableProofs!NoUpdate, Table!HasUpdate, TableProofs!HasUpdate,
               Table!Later, TableProofs!Later, Table!NoWorker, TableProofs!NoWorker,
               Table!UnderReclaim, TableProofs!UnderReclaim,
               Table!LiveService, TableProofs!LiveService,
               Table!ValidateTransition, TableProofs!ValidateTransition,
               Table!CanTransitionInstance, TableProofs!CanTransitionInstance,
               Table!CanTransitionService, TableProofs!CanTransitionService,
               Table!instanceTransitions, TableProofs!instanceTransitions,
               Table!serviceTransitions, TableProofs!serviceTransitions,
               Table!CheckCombination, TableProofs!CheckCombination
  <1>1. Table!Init <=> TableProofs!Init
    BY DEF Table!Init, TableProofs!Init, Table!FreshRow, TableProofs!FreshRow
  <1>2. Table!Row = TableProofs!Row
    BY DEF Table!Row, TableProofs!Row, Table!AnyRole, TableProofs!AnyRole,
           Table!InstanceState, TableProofs!InstanceState,
           Table!ServiceState, TableProofs!ServiceState
  <1>3. Table!Write <=> TableProofs!Write
    BY <1>2 DEF Table!Write, TableProofs!Write, Table!Accepts, TableProofs!Accepts,
                Table!Merged, TableProofs!Merged, Table!KeptUpdate, TableProofs!KeptUpdate
  <1>4. Table!Request <=> TableProofs!Request
    BY DEF Table!Request, TableProofs!Request,
           Table!RequestRelease, TableProofs!RequestRelease
  <1>5. Table!Offer <=> TableProofs!Offer
    BY <1>2 DEF Table!Offer, TableProofs!Offer, Table!AcceptsReoffer,
                TableProofs!AcceptsReoffer, Table!Reoffered, TableProofs!Reoffered
  <1>6. Table!ApplyUpdate <=> TableProofs!ApplyUpdate
    BY <1>2 DEF Table!ApplyUpdate, TableProofs!ApplyUpdate, Table!AcceptsUpdate,
                TableProofs!AcceptsUpdate, Table!Updated, TableProofs!Updated
  <1>7. Table!Next <=> TableProofs!Next
    BY <1>3, <1>4, <1>5, <1>6 DEF Table!Next, TableProofs!Next
  <1>8. /\ Table!CheckCombination(row) <=> TableProofs!CheckCombination(row)
        /\ Table!LiveService = TableProofs!LiveService
    OBVIOUS
  <1>. QED BY <1>1, <1>7, <1>8

\* Hence everything proved of the table holds of the row in Lifecycle.
LEMMA LifecycleIsTable == Spec => TableProofs!Spec
  <1>1. Init => TableProofs!Init
    BY SameTable DEF Init, Table!Init, FreshRow, Table!FreshRow, NoWorker, Table!NoWorker,
           NoUpdate, Table!NoUpdate
  <1>2. IInv /\ [Next]_vars => [TableProofs!Next]_row
    BY StepStores, StoredIsTableStep, SameTable DEF IInv
  <1>. QED BY <1>1, <1>2, LifecycleInvariant, PTL DEF Spec, TableProofs!Spec

\* No interleaving stores an illegal pair of states.
THEOREM LifecycleLegal == Spec => []LegalRow
  <1>1. TableProofs!Spec => []TableProofs!LegalRow
    BY TableProofs!TableLegal, RoleAssumption
  <1>2. TableProofs!LegalRow => LegalRow
    BY SameTable DEF LegalRow, Table!LegalRow, TableProofs!LegalRow
  <1>. QED BY <1>1, <1>2, LifecycleIsTable, PTL

\* No goroutine, however stale, makes the row forget a reclaim request.
THEOREM LifecycleReclaimSticky == Spec => ReclaimSticky
  <1>1. TableProofs!Spec => TableProofs!ReclaimSticky
    BY TableProofs!TableReclaimSticky, RoleAssumption
  <1>2. TableProofs!ReclaimSticky <=> ReclaimSticky
    BY SameTable, PTL DEF ReclaimSticky, Table!ReclaimSticky, TableProofs!ReclaimSticky,
       Table!LiveService, TableProofs!LiveService
  <1>. QED BY <1>1, <1>2, LifecycleIsTable, PTL

\* A released row stays released until the instance is offered under a new lease.
THEOREM LifecycleReleasedIsFinal == Spec => ReleasedIsFinal
  <1>1. TableProofs!Spec => TableProofs!ReleasedIsFinal
    BY TableProofs!TableReleasedIsFinal, RoleAssumption
  <1>. QED
    BY <1>1, LifecycleIsTable, PTL
       DEF ReleasedIsFinal, Table!ReleasedIsFinal, TableProofs!ReleasedIsFinal

\* The newest observation of the partner is never taken back.
THEOREM LifecycleObservations == Spec => ObservationsMoveForward
  <1>1. TableProofs!Spec => TableProofs!ObservationsMoveForward
    BY TableProofs!TableObservations, RoleAssumption
  <1>. QED
    BY <1>1, LifecycleIsTable, PTL
       DEF ObservationsMoveForward, Table!ObservationsMoveForward,
           TableProofs!ObservationsMoveForward
=============================================================================
